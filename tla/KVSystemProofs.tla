--------------------------- MODULE KVSystemProofs ---------------------------
(***************************************************************************)
(* Proofs about KVSystem, for any clients of any kinds.  The first result  *)
(* is that the server in the system is the server of KVServer; from then   *)
(* on the theorems of KVServerProofs are facts about the system.           *)
(***************************************************************************)
EXTENDS KVSystem, KVServerProofs

-----------------------------------------------------------------------------
(* The clients keep to the protocol. *)

ClientTypes ==
  /\ kind \in [Clients -> {"ruc", "rc", "ici"}]
  /\ current_timestamp_ \in [Clients -> issued \cup {-1}]
  /\ write_buffer_ \in [Clients -> Batches]
  /\ read_buffer_ \in [Clients -> Batches]
  /\ request \in [Clients -> Requests(issued)]

(* A client in no transaction has nothing to write, and a blocked client's   *)
(* request was made in the transaction it is still in.                       *)
InTransaction(c) ==
  /\ current_timestamp_[c] = -1 => write_buffer_[c] = EmptyMap
  /\ request[c].type = "put" =>
       /\ request[c].timestamp = current_timestamp_[c]
       /\ current_timestamp_[c] = -1 => request[c].batch = EmptyMap

ClientInv == ClientTypes /\ \A c \in Clients : InTransaction(c)

LEMMA RequestsMonotone ==
  ASSUME NEW S, NEW T, S \subseteq T
  PROVE  Requests(S) \subseteq Requests(T)
  BY DEF Requests

LEMMA RequestFields ==
  /\ NoMessage.type = "none" /\ BeginRequest.type = "begin"
  /\ \A k : GetRequest(k).type = "get" /\ GetRequest(k).key = k
  /\ \A ts, b : /\ PutRequest(ts, b).type = "put"
                /\ PutRequest(ts, b).timestamp = ts
                /\ PutRequest(ts, b).batch = b
  BY DEF NoMessage, BeginRequest, GetRequest, PutRequest

LEMMA PutRequestFields ==
  ASSUME NEW S, NEW r \in Requests(S), r.type = "put"
  PROVE  r.timestamp \in S \cup {-1} /\ r.batch \in Batches
  BY RequestFields DEF Requests

LEMMA GetRequestFields ==
  ASSUME NEW S, NEW r \in Requests(S), r.type = "get"
  PROVE  r.key \in Keys
  BY RequestFields DEF Requests

LEMMA AssignType ==
  ASSUME NEW b \in Batches, NEW k \in Keys, NEW v \in Values
  PROVE  Assign(b, k, v) \in Batches
  <1>1. PICK S \in SUBSET Keys : b \in [S -> Values]
    BY DEF Batches
  <1>2. Assign(b, k, v) \in [S \cup {k} -> Values]
    BY <1>1 DEF Assign
  <1>3. QED
    BY <1>2 DEF Batches

(* Seen from the server, a step of the system is one of its own. *)
LEMMA ServerStep ==
  ASSUME ClientInv, [SystemNext]_systemVars
  PROVE  [Next]_serverVars
  <1>1. ASSUME NEW c \in Clients, Call(c)
        PROVE  UNCHANGED serverVars
    BY <1>1 DEF Call, begin, getLocal, getRemote, putThrough, putBuffered, end, Send
  <1>2. ASSUME NEW t \in Threads, NEW c \in Clients, Serve(t, c)
        PROVE  Request(t)
    <2>1. CASE ServeBegin(t, c)
      BY <2>1 DEF ServeBegin, Request
    <2>2. CASE ServeGet(t, c)
      BY <2>2 DEF ServeGet, Request
    <2>3. CASE ServePut(t, c)
      <3>1. Put(t, request[c].timestamp, request[c].batch) /\ request[c].type = "put"
        BY <2>3 DEF ServePut, Return
      <3>2. request[c] \in Requests(issued) /\ InTransaction(c)
        BY DEF ClientInv, ClientTypes
      <3>3. request[c].timestamp \in issued \cup {-1} /\ request[c].batch \in Batches
        BY <3>1, <3>2, PutRequestFields
      <3>4. request[c].timestamp = -1 => request[c].batch = EmptyMap
        BY <3>1, <3>2 DEF InTransaction
      <3>5. QED
        BY <3>1, <3>3, <3>4 DEF Request
    <2>4. QED
      BY <1>2, <2>1, <2>2, <2>3 DEF Serve
  <1>3. ASSUME NEW t \in Threads, Internal(t)
        PROVE  Next
    BY <1>3 DEF Internal, Next
  <1>4. CASE UNCHANGED systemVars
    BY <1>4 DEF systemVars
  <1>5. CASE SystemNext
    BY <1>1, <1>2, <1>3, <1>5 DEF SystemNext, Next
  <1>6. QED
    BY <1>4, <1>5


LEMMA IssuedGrows ==
  ASSUME [Next]_serverVars
  PROVE  issued \subseteq issued'
  <1>1. ASSUME NEW t \in Threads, StartUp(t)
        PROVE  issued' = issued
    BY <1>1 DEF StartUp, Bind, EnterBarrier, RecheckBarrier, Subscribe, startupUnchanged
  <1>2. ASSUME NEW t \in Threads, WakeSpuriously(t)
        PROVE  issued' = issued
    BY <1>2 DEF WakeSpuriously, startupUnchanged
  <1>3. ASSUME NEW t \in Threads, NEW u \in Threads, SubscriptionArrives(t, u)
        PROVE  issued' = issued
    BY <1>3 DEF SubscriptionArrives, startupUnchanged
  <1>4. ASSUME NEW t \in Threads, Receive(t)
        PROVE  issued' = issued
    BY <1>4 DEF Receive, JoinGossip, CountGossip
  <1>5. ASSUME NEW t \in Threads, Request(t)
        PROVE  issued \subseteq issued'
    BY <1>5 DEF Request, BeginTransaction, GetOrNotSet, Put
  <1>6. CASE UNCHANGED serverVars
    BY <1>6 DEF serverVars
  <1>7. QED
    BY <1>1, <1>2, <1>3, <1>4, <1>5, <1>6 DEF Next

LEMMA ClientInvInit == SystemInit => ClientInv
  <1> SUFFICES ASSUME SystemInit PROVE ClientInv
    OBVIOUS
  <1>1. EmptyMap \in Batches
    BY EmptyBatch
  <1>2. NoMessage \in Requests(issued)
    BY DEF Requests
  <1>3. ClientTypes
    BY <1>1, <1>2 DEF SystemInit, ClientTypes
  <1>4. \A c \in Clients : InTransaction(c)
    BY RequestFields DEF SystemInit, InTransaction
  <1>5. QED
    BY <1>3, <1>4 DEF ClientInv

(* Calls and internal steps leave the issued timestamps alone. *)
LEMMA ClientInvCall ==
  ASSUME ClientInv, NEW c \in Clients, Call(c)
  PROVE  ClientInv'
  <1> USE DEF ClientInv, ClientTypes
  <1>1. issued' = issued
    BY DEF Call, begin, getLocal, getRemote, putThrough, putBuffered, end, Send, serverVars
  <1>2. InTransaction(c) /\ write_buffer_[c] \in Batches
        /\ current_timestamp_[c] \in issued \cup {-1}
    OBVIOUS
  <1>3. ASSUME NEW r, r \in Requests(issued), Send(c, r), UNCHANGED <<kind, current_timestamp_, write_buffer_, read_buffer_>>,
               r.type = "put" => /\ r.timestamp = current_timestamp_[c]
                                 /\ current_timestamp_[c] = -1 => r.batch = EmptyMap
        PROVE  ClientInv'
    <2>1. request' = [request EXCEPT ![c] = r]
      BY <1>3 DEF Send
    <2>2. request' \in [Clients -> Requests(issued)]
      BY <1>3, <2>1
    <2>3. ClientTypes'
      BY <1>1, <1>3, <2>2
    <2>4. ASSUME NEW d \in Clients PROVE InTransaction(d)'
      <3>1. CASE d = c
        <4>1. request'[d] = r
          BY <2>1, <3>1
        <4>2. QED
          BY <4>1, <3>1, <1>3, <1>2 DEF InTransaction
      <3>2. CASE d # c
        <4>1. request'[d] = request[d]
          BY <2>1, <3>2
        <4>2. InTransaction(d)
          OBVIOUS
        <4>3. QED
          BY <4>1, <4>2, <1>3 DEF InTransaction
      <3>3. QED
        BY <3>1, <3>2
    <2>5. QED
      BY <2>3, <2>4
  <1>4. CASE begin(c)
    <2>1. BeginRequest \in Requests(issued)
      BY DEF Requests
    <2>2. QED
      BY <1>3, <1>4, <2>1, RequestFields DEF begin, clientVars
  <1>5. ASSUME NEW k \in Keys, getLocal(c, k)
        PROVE  ClientInv'
    BY <1>1, <1>5 DEF getLocal, InTransaction
  <1>6. ASSUME NEW k \in Keys, getRemote(c, k)
        PROVE  ClientInv'
    <2>1. GetRequest(k) \in Requests(issued)
      BY DEF Requests
    <2>2. QED
      BY <1>3, <1>6, <2>1, RequestFields DEF getRemote, clientVars
  <1>7. ASSUME NEW k \in Keys, NEW v \in Values, putThrough(c, k, v)
        PROVE  ClientInv'
    <2> DEFINE r == PutRequest(current_timestamp_[c], [j \in {k} |-> v])
    <2>1. [j \in {k} |-> v] \in Batches
      <3>1. [j \in {k} |-> v] \in [{k} -> Values] /\ {k} \in SUBSET Keys
        OBVIOUS
      <3>2. QED
        BY <3>1 DEF Batches
    <2>2. r \in Requests(issued)
      BY <1>2, <2>1 DEF Requests
    <2>3. current_timestamp_[c] # -1
      BY <1>7 DEF putThrough
    <2>4. r.type = "put" /\ r.timestamp = current_timestamp_[c]
      BY RequestFields
    <2>5. Send(c, r) /\ UNCHANGED clientVars
      BY <1>7 DEF putThrough
    <2>6. QED
      BY <1>3, <2>2, <2>3, <2>4, <2>5 DEF clientVars
  <1>8. ASSUME NEW k \in Keys, NEW v \in Values, putBuffered(c, k, v)
        PROVE  ClientInv'
    <2>1. Assign(write_buffer_[c], k, v) \in Batches
      BY <1>2, AssignType
    <2>2. write_buffer_' = [write_buffer_ EXCEPT ![c] = Assign(write_buffer_[c], k, v)]
          /\ current_timestamp_[c] # -1
      BY <1>8 DEF putBuffered
    <2>3. write_buffer_' \in [Clients -> Batches]
      BY <2>1, <2>2
    <2>4. UNCHANGED <<kind, current_timestamp_, read_buffer_, request>>
      BY <1>8 DEF putBuffered
    <2>5. ASSUME NEW d \in Clients PROVE InTransaction(d)'
      BY <2>2, <2>4 DEF InTransaction
    <2>6. QED
      BY <1>1, <2>3, <2>4, <2>5
  <1>9. CASE end(c)
    <2> DEFINE r == PutRequest(current_timestamp_[c], write_buffer_[c])
    <2>1. r \in Requests(issued)
      BY <1>2 DEF Requests
    <2>2. r.type = "put" /\ r.timestamp = current_timestamp_[c] /\ r.batch = write_buffer_[c]
      BY RequestFields
    <2>3. Send(c, r) /\ UNCHANGED <<kind, current_timestamp_, write_buffer_, read_buffer_>>
      BY <1>9 DEF end
    <2>4. current_timestamp_[c] = -1 => r.batch = EmptyMap
      BY <2>2, <1>2 DEF InTransaction
    <2>5. QED
      BY <1>3, <2>1, <2>2, <2>3, <2>4
  <1>10. QED
    BY <1>4, <1>5, <1>6, <1>7, <1>8, <1>9 DEF Call


LEMMA ClientInvInternal ==
  ASSUME ClientInv, [Next]_serverVars, UNCHANGED <<clientVars, request>>
  PROVE  ClientInv'
  <1>1. issued \subseteq issued'
    BY IssuedGrows
  <1>2. Requests(issued) \subseteq Requests(issued')
    BY <1>1, RequestsMonotone
  <1>3. ClientTypes'
    BY <1>1, <1>2 DEF ClientInv, ClientTypes, clientVars
  <1>4. \A c \in Clients : InTransaction(c)'
    BY DEF ClientInv, InTransaction, clientVars
  <1>5. QED
    BY <1>3, <1>4 DEF ClientInv

LEMMA ClientInvServe ==
  ASSUME TypeInv, ClientInv, [Next]_serverVars, NEW t \in Threads, NEW c \in Clients, Serve(t, c)
  PROVE  ClientInv'
  <1>1. issued \subseteq issued'
    BY IssuedGrows
  <1>2. Requests(issued) \subseteq Requests(issued')
    BY <1>1, RequestsMonotone
  <1>3. request' = [request EXCEPT ![c] = NoMessage] /\ kind' = kind
    BY DEF Serve, ServeBegin, ServeGet, ServePut, Return
  <1>4. request' \in [Clients -> Requests(issued')]
    <2>1. NoMessage \in Requests(issued')
      BY DEF Requests
    <2>2. request \in [Clients -> Requests(issued')]
      BY <1>2 DEF ClientInv, ClientTypes
    <2>3. QED
      BY <1>3, <2>1, <2>2
  <1>5. request'[c].type = "none" /\ \A d \in Clients : d # c => request'[d] = request[d]
    BY <1>3, RequestFields DEF ClientInv, ClientTypes
  <1>6. CASE ServeBegin(t, c)
    <2>1. current_timestamp_' = [current_timestamp_ EXCEPT ![c] = NewTimestamp(t)]
          /\ UNCHANGED <<write_buffer_, read_buffer_>>
      BY <1>6 DEF ServeBegin, BeginResponse
    <2>2. NewTimestamp(t) \in issued'
      BY <1>6 DEF ServeBegin, BeginTransaction
    <2>3. NewTimestamp(t) # -1
      <3>1. local_timestamp[t] \in 0..MaxLocal /\ t \in 0..9
        BY ThreadIds DEF TypeInv, TypeOK
      <3>2. QED
        BY <3>1, MaxLocalAssumption DEF NewTimestamp
    <2>4. ClientTypes'
      BY <1>1, <1>3, <1>4, <2>1, <2>2 DEF ClientInv, ClientTypes
    <2>5. ASSUME NEW d \in Clients PROVE InTransaction(d)'
      <3>1. CASE d = c
        <4>1. current_timestamp_'[d] = NewTimestamp(t)
          BY <2>1, <3>1 DEF ClientInv, ClientTypes
        <4>2. QED
          BY <4>1, <2>3, <1>5, <3>1 DEF InTransaction
      <3>2. CASE d # c
        <4>1. current_timestamp_'[d] = current_timestamp_[d] /\ InTransaction(d)
          BY <2>1, <3>2 DEF ClientInv, ClientTypes
        <4>2. QED
          BY <4>1, <1>5, <2>1, <3>2 DEF InTransaction
      <3>3. QED
        BY <3>1, <3>2
    <2>6. QED
      BY <2>4, <2>5 DEF ClientInv
  <1>7. ASSUME current_timestamp_' = current_timestamp_,
               write_buffer_' \in [Clients -> Batches],
               read_buffer_' \in [Clients -> Batches],
               \A d \in Clients : write_buffer_'[d] \in {write_buffer_[d], EmptyMap}
        PROVE  ClientInv'
    <2>1. ClientTypes'
      BY <1>1, <1>3, <1>4, <1>7 DEF ClientInv, ClientTypes
    <2>2. ASSUME NEW d \in Clients PROVE InTransaction(d)'
      <3>1. InTransaction(d) /\ write_buffer_'[d] \in {write_buffer_[d], EmptyMap}
        BY <1>7 DEF ClientInv
      <3>2. QED
        BY <3>1, <1>5, <1>7 DEF InTransaction
    <2>3. QED
      BY <2>1, <2>2 DEF ClientInv
  <1>8. CASE ServeGet(t, c)
    <2> DEFINE k == request[c].key
               r == GetResponse(t, k)
    <2>1. UNCHANGED <<current_timestamp_, write_buffer_>>
      BY <1>8 DEF ServeGet
    <2>2. k \in Keys
      BY <1>8, GetRequestFields DEF ServeGet, Return, ClientInv, ClientTypes
    <2>3. r.succeed => r.value \in Values
      <3>1. CASE k \in DOMAIN kvs[t]
        <4>1. kvs[t] \in Database
          BY DEF TypeInv, TypeOK
        <4>2. kvs[t][k] \in Entry
          BY <3>1, <4>1 DEF Database
        <4>3. QED
          BY <3>1, <4>2 DEF GetResponse, Entry
      <3>2. CASE k \notin DOMAIN kvs[t]
        BY <3>2 DEF GetResponse
      <3>3. QED
        BY <3>1, <3>2
    <2>4. read_buffer_ \in [Clients -> Batches]
      BY DEF ClientInv, ClientTypes
    <2>5. \/ read_buffer_' = read_buffer_
          \/ /\ r.succeed
             /\ read_buffer_' = [read_buffer_ EXCEPT ![c] = Assign(read_buffer_[c], k, r.value)]
      BY <1>8 DEF ServeGet
    <2> HIDE DEF k, r
    <2>6. read_buffer_' \in [Clients -> Batches]
      <3>1. CASE read_buffer_' = read_buffer_
        BY <2>4, <3>1
      <3>2. CASE r.succeed /\ read_buffer_' = [read_buffer_ EXCEPT ![c] = Assign(read_buffer_[c], k, r.value)]
        <4>1. Assign(read_buffer_[c], k, r.value) \in Batches
          BY <2>2, <2>3, <2>4, <3>2, AssignType
        <4>2. QED
          BY <2>4, <3>2, <4>1
      <3>3. QED
        BY <2>5, <3>1, <3>2
    <2>7. QED
      BY <1>7, <2>1, <2>6 DEF ClientInv, ClientTypes
  <1>9. CASE ServePut(t, c)
    <2>1. write_buffer_ \in [Clients -> Batches] /\ read_buffer_ \in [Clients -> Batches]
      BY DEF ClientInv, ClientTypes
    <2>2. current_timestamp_' = current_timestamp_
          /\ write_buffer_' \in {write_buffer_, [write_buffer_ EXCEPT ![c] = EmptyMap]}
          /\ read_buffer_' \in {read_buffer_, [read_buffer_ EXCEPT ![c] = EmptyMap]}
      BY <1>9 DEF ServePut
    <2>3. write_buffer_' \in [Clients -> Batches] /\ read_buffer_' \in [Clients -> Batches]
      BY <2>1, <2>2, EmptyBatch
    <2>4. \A d \in Clients : write_buffer_'[d] \in {write_buffer_[d], EmptyMap}
      BY <2>1, <2>2
    <2>5. QED
      BY <1>7, <2>2, <2>3, <2>4
  <1>10. QED
    BY <1>6, <1>8, <1>9 DEF Serve

SystemInv == TypeInv /\ ClientInv

LEMMA SystemCases ==
  ASSUME [SystemNext]_systemVars
  PROVE  \/ \E c \in Clients : Call(c)
         \/ \E t \in Threads, c \in Clients : Serve(t, c)
         \/ UNCHANGED <<clientVars, request>>
  BY DEF SystemNext, Internal, systemVars

LEMMA SystemInvInit == SystemInit => SystemInv
  BY TypeInit, ClientInvInit DEF SystemInit, SystemInv

LEMMA SystemInvStep ==
  ASSUME SystemInv, [SystemNext]_systemVars
  PROVE  SystemInv' /\ [Next]_serverVars
  <1>1. TypeInv /\ ClientInv
    BY DEF SystemInv
  <1>2. [Next]_serverVars
    BY <1>1, ServerStep
  <1>3. TypeInv'
    BY <1>1, <1>2, TypeStep
  <1>4. ClientInv'
    BY <1>1, <1>2, SystemCases, ClientInvCall, ClientInvServe, ClientInvInternal
  <1>5. QED
    BY <1>2, <1>3, <1>4 DEF SystemInv

(* The clients keep the server's assumptions: a Put carries a timestamp that *)
(* a BEGIN returned, or is an empty batch, so every behaviour of the system  *)
(* is a behaviour of the server on its own.                                  *)
THEOREM SystemImplementsServer == SystemSpec => ServerRefinement
  <1>1. SystemInit => SystemInv /\ Init
    BY SystemInvInit DEF SystemInit
  <1>2. SystemInv /\ [SystemNext]_systemVars => SystemInv' /\ [Next]_serverVars
    BY SystemInvStep
  <1>3. QED
    BY <1>1, <1>2, PTL DEF SystemSpec, ServerRefinement, Spec

(* The members of the clients and the requests they send keep their types. *)
THEOREM SystemInvariant == SystemSpec => []SystemInv
  <1>1. SystemInv /\ [SystemNext]_systemVars => SystemInv'
    BY SystemInvStep
  <1>2. QED
    BY <1>1, SystemInvInit, PTL DEF SystemSpec


-----------------------------------------------------------------------------
(* Transactions have different timestamps. *)

(* A client's timestamp changes only when a BEGIN of its own is served. *)
LEMMA TimestampStep ==
  ASSUME SystemInv, [SystemNext]_systemVars
  PROVE  \/ current_timestamp_' = current_timestamp_
         \/ \E t \in Threads, c \in Clients :
              /\ ServeBegin(t, c)
              /\ current_timestamp_' = [current_timestamp_ EXCEPT ![c] = NewTimestamp(t)]
  <1>1. ASSUME NEW c \in Clients, Call(c)
        PROVE  current_timestamp_' = current_timestamp_
    BY <1>1 DEF Call, begin, getLocal, getRemote, putThrough, putBuffered, end, clientVars
  <1>2. ASSUME NEW t \in Threads, NEW c \in Clients, Serve(t, c)
        PROVE  \/ current_timestamp_' = current_timestamp_
               \/ /\ ServeBegin(t, c)
                  /\ current_timestamp_' = [current_timestamp_ EXCEPT ![c] = NewTimestamp(t)]
    BY <1>2 DEF Serve, ServeBegin, ServeGet, ServePut, BeginResponse
  <1>3. CASE UNCHANGED <<clientVars, request>>
    BY <1>3 DEF clientVars
  <1>4. QED
    BY <1>1, <1>2, <1>3, SystemCases

LEMMA UniqueStep ==
  ASSUME SystemInv, FreshTimestamp, UniqueTransactions, [SystemNext]_systemVars
  PROVE  UniqueTransactions'
  <1>1. CASE current_timestamp_' = current_timestamp_
    BY <1>1 DEF UniqueTransactions
  <1>2. ASSUME NEW t \in Threads, NEW c \in Clients,
               current_timestamp_' = [current_timestamp_ EXCEPT ![c] = NewTimestamp(t)]
        PROVE  UniqueTransactions'
    <2>1. NewTimestamp(t) \notin issued
      BY DEF FreshTimestamp
    <2>2. current_timestamp_ \in [Clients -> issued \cup {-1}]
      BY DEF SystemInv, ClientInv, ClientTypes
    <2>3. ASSUME NEW d \in Clients, NEW e \in Clients, d # e,
                 current_timestamp_'[d] = current_timestamp_'[e]
          PROVE  current_timestamp_'[d] = -1
      BY <1>2, <2>1, <2>2, <2>3 DEF UniqueTransactions
    <2>4. QED
      BY <2>3 DEF UniqueTransactions
  <1>3. QED
    BY <1>1, <1>2, TimestampStep

(* No two clients are ever in a transaction with the same timestamp, because *)
(* the timestamps of different threads differ in the last digit and those of *)
(* one thread in the rest.                                                   *)
THEOREM TransactionsUnique == SystemSpec => []UniqueTransactions
  <1>1. SystemInit => UniqueTransactions
    BY DEF SystemInit, UniqueTransactions
  <1>2. SystemInv /\ FreshTimestamp /\ UniqueTransactions /\ [SystemNext]_systemVars
          => UniqueTransactions'
    BY UniqueStep
  <1>3. SystemSpec => []FreshTimestamp
    BY SystemImplementsServer, TimestampsFresh DEF ServerRefinement
  <1>4. QED
    BY <1>1, <1>2, <1>3, SystemInvariant, PTL DEF SystemSpec

-----------------------------------------------------------------------------
(* Repeated reads: what an ici client has found or written in this           *)
(* transaction is in its buffers.                                            *)

ViewOK(c, k) ==
  /\ view[c][k] \subseteq IF Buffered(c, k) THEN {Printed(BufferedValue(c, k))} ELSE {}
  /\ request[c] = GetRequest(k) => ~Buffered(c, k)
  /\ kind[c] # "ici" => view[c][k] = {}

ViewInv ==
  /\ view \in [Clients -> [Keys -> SUBSET Outcomes]]
  /\ \A c \in Clients, k \in Keys : ViewOK(c, k)

LEMMA ViewInit == SystemInit => ViewInv
  <1> SUFFICES ASSUME SystemInit PROVE ViewInv
    OBVIOUS
  <1>1. view = [c \in Clients |-> [k \in Keys |-> {}]]
    BY DEF SystemInit
  <1>2. \A c \in Clients, k \in Keys : request[c] # GetRequest(k)
    BY RequestFields DEF SystemInit
  <1>3. QED
    BY <1>1, <1>2 DEF ViewInv, ViewOK

(* A step that leaves a client's buffers and what it saw of k alone, and     *)
(* asks for nothing new, keeps the invariant for it.                         *)
LEMMA ViewUnchanged ==
  ASSUME NEW c \in Clients, NEW k \in Keys, ViewOK(c, k),
         write_buffer_'[c] = write_buffer_[c], read_buffer_'[c] = read_buffer_[c],
         view'[c][k] \subseteq view[c][k], kind' = kind,
         request'[c] = request[c] \/ request'[c] # GetRequest(k)
  PROVE  ViewOK(c, k)'
  BY DEF ViewOK, Buffered, BufferedValue

LEMMA BufferedType ==
  ASSUME SystemInv, NEW c \in Clients, NEW k \in Keys, Buffered(c, k)
  PROVE  BufferedValue(c, k) \in Values
  <1>1. write_buffer_[c] \in Batches /\ read_buffer_[c] \in Batches
    BY DEF SystemInv, ClientInv, ClientTypes
  <1>2. \A b \in Batches : k \in DOMAIN b => b[k] \in Values
    BY DEF Batches
  <1>3. QED
    BY <1>1, <1>2 DEF Buffered, BufferedValue

(* The history after Observe. *)
LEMMA ObserveView ==
  ASSUME view \in [Clients -> [Keys -> SUBSET Outcomes]],
         NEW c \in Clients, NEW k \in Keys, NEW vs \in SUBSET Outcomes, Observe(c, k, vs)
  PROVE  /\ view' \in [Clients -> [Keys -> SUBSET Outcomes]]
         /\ \A d \in Clients : d # c => view'[d] = view[d]
         /\ \A j \in Keys : j # k => view'[c][j] = view[c][j]
         /\ view'[c][k] = IF kind[c] = "ici" THEN vs ELSE view[c][k]
  BY DEF Observe

LEMMA ViewCall ==
  ASSUME SystemInv, ViewInv, NEW c \in Clients, Call(c)
  PROVE  ViewInv'
  <1>1. /\ view \in [Clients -> [Keys -> SUBSET Outcomes]]
        /\ \A d \in Clients, k \in Keys : ViewOK(d, k)
        /\ request \in [Clients -> Requests(issued)]
        /\ write_buffer_ \in [Clients -> Batches]
    BY DEF ViewInv, SystemInv, ClientInv, ClientTypes
  <1>2. ASSUME NEW r, Send(c, r), UNCHANGED <<kind, write_buffer_, read_buffer_, view>>,
               \A k \in Keys : r = GetRequest(k) => ~Buffered(c, k)
        PROVE  ViewInv'
    <2>1. request' = [request EXCEPT ![c] = r]
      BY <1>2 DEF Send
    <2>2. ASSUME NEW d \in Clients, NEW k \in Keys
          PROVE  ViewOK(d, k)'
      <3>1. ViewOK(d, k) /\ request'[d] = IF d = c THEN r ELSE request[d]
        BY <1>1, <2>1
      <3>2. CASE d = c /\ r = GetRequest(k)
        BY <1>2, <3>1, <3>2 DEF ViewOK, Buffered, BufferedValue
      <3>3. CASE ~(d = c /\ r = GetRequest(k))
        BY <1>2, <3>1, <3>3, ViewUnchanged
      <3>4. QED
        BY <3>2, <3>3
    <2>3. QED
      BY <1>1, <1>2, <2>2 DEF ViewInv
  <1>3. CASE begin(c)
    BY <1>2, <1>3, RequestFields DEF begin, clientVars
  <1>4. ASSUME NEW k \in Keys, getLocal(c, k)
        PROVE  ViewInv'
    <2> DEFINE vs == view[c][k] \cup {Printed(BufferedValue(c, k))}
    <2>1. /\ Observe(c, k, vs) /\ Buffered(c, k)
          /\ UNCHANGED <<kind, write_buffer_, read_buffer_, request>>
      BY <1>4 DEF getLocal
    <2>2. vs \in SUBSET Outcomes
      BY <1>1, <2>1, BufferedType DEF Outcomes
    <2> HIDE DEF vs
    <2>3. /\ view' \in [Clients -> [Keys -> SUBSET Outcomes]]
          /\ \A d \in Clients : d # c => view'[d] = view[d]
          /\ \A j \in Keys : j # k => view'[c][j] = view[c][j]
          /\ view'[c][k] = IF kind[c] = "ici" THEN vs ELSE view[c][k]
      BY <1>1, <2>1, <2>2, ObserveView
    <2>4. ASSUME NEW d \in Clients, NEW j \in Keys
          PROVE  ViewOK(d, j)'
      <3>1. ViewOK(d, j)
        BY <1>1
      <3>2. CASE d = c /\ j = k
        BY <2>1, <2>3, <3>1, <3>2 DEF ViewOK, Buffered, BufferedValue, vs
      <3>3. CASE ~(d = c /\ j = k)
        <4>1. view'[d][j] = view[d][j]
          BY <2>3, <3>3
        <4>2. QED
          BY <2>1, <3>1, <4>1, ViewUnchanged
      <3>4. QED
        BY <3>2, <3>3
    <2>5. QED
      BY <2>3, <2>4 DEF ViewInv
  <1>5. ASSUME NEW k \in Keys, getRemote(c, k)
        PROVE  ViewInv'
    <2>1. \A j \in Keys : GetRequest(k) = GetRequest(j) => ~Buffered(c, j)
      BY <1>5, RequestFields DEF getRemote
    <2>2. QED
      BY <1>2, <1>5, <2>1 DEF getRemote, clientVars
  <1>6. ASSUME NEW k \in Keys, NEW v \in Values, putThrough(c, k, v)
        PROVE  ViewInv'
    <2> DEFINE r == PutRequest(current_timestamp_[c], [j \in {k} |-> v])
    <2>1. \A j \in Keys : r # GetRequest(j)
      BY RequestFields
    <2>2. Send(c, r) /\ UNCHANGED clientVars
      BY <1>6 DEF putThrough
    <2> HIDE DEF r
    <2>3. QED
      BY <1>2, <2>1, <2>2 DEF clientVars
  <1>7. ASSUME NEW k \in Keys, NEW v \in Values, putBuffered(c, k, v)
        PROVE  ViewInv'
    <2>1. /\ Observe(c, k, {Printed(v)}) /\ UNCHANGED <<kind, read_buffer_, request>>
          /\ write_buffer_' = [write_buffer_ EXCEPT ![c] = Assign(write_buffer_[c], k, v)]
          /\ request[c] = NoMessage
      BY <1>7 DEF putBuffered, Idle
    <2>2. /\ view' \in [Clients -> [Keys -> SUBSET Outcomes]]
          /\ \A d \in Clients : d # c => view'[d] = view[d]
          /\ \A j \in Keys : j # k => view'[c][j] = view[c][j]
          /\ view'[c][k] = IF kind[c] = "ici" THEN {Printed(v)} ELSE view[c][k]
      BY <1>1, <2>1, ObserveView DEF Outcomes
    <2>3. ASSUME NEW d \in Clients, NEW j \in Keys
          PROVE  ViewOK(d, j)'
      <3>1. ViewOK(d, j)
        BY <1>1
      <3>2. CASE d # c
        <4>1. view'[d] = view[d] /\ write_buffer_'[d] = write_buffer_[d]
          BY <1>1, <2>1, <2>2, <3>2
        <4>2. QED
          BY <2>1, <3>1, <4>1, ViewUnchanged
      <3>3. CASE d = c
        <4>1. write_buffer_'[c] = Assign(write_buffer_[c], k, v)
          BY <1>1, <2>1
        <4>2. /\ k \in DOMAIN write_buffer_'[c] /\ write_buffer_'[c][k] = v
              /\ \A i : i # k =>
                   /\ i \in DOMAIN write_buffer_'[c] <=> i \in DOMAIN write_buffer_[c]
                   /\ i \in DOMAIN write_buffer_[c] => write_buffer_'[c][i] = write_buffer_[c][i]
          BY <4>1 DEF Assign
        <4>3. request'[c] # GetRequest(j)
          BY <2>1, RequestFields
        <4>4. CASE j = k
          BY <2>1, <2>2, <3>1, <3>3, <4>2, <4>3, <4>4 DEF ViewOK, Buffered, BufferedValue
        <4>5. CASE j # k
          BY <2>1, <2>2, <3>1, <3>3, <4>2, <4>3, <4>5 DEF ViewOK, Buffered, BufferedValue
        <4>6. QED
          BY <4>4, <4>5
      <3>4. QED
        BY <3>2, <3>3
    <2>4. QED
      BY <2>2, <2>3 DEF ViewInv
  <1>8. CASE end(c)
    <2> DEFINE r == PutRequest(current_timestamp_[c], write_buffer_[c])
    <2>1. \A j \in Keys : r # GetRequest(j)
      BY RequestFields
    <2>2. Send(c, r) /\ UNCHANGED <<kind, write_buffer_, read_buffer_, view>>
      BY <1>8 DEF end
    <2> HIDE DEF r
    <2>3. QED
      BY <1>2, <2>1, <2>2
  <1>9. QED
    BY <1>3, <1>4, <1>5, <1>6, <1>7, <1>8 DEF Call


LEMMA ViewServe ==
  ASSUME SystemInv, ViewInv, NEW t \in Threads, NEW c \in Clients, Serve(t, c)
  PROVE  ViewInv'
  <1>1. /\ view \in [Clients -> [Keys -> SUBSET Outcomes]]
        /\ \A d \in Clients, k \in Keys : ViewOK(d, k)
        /\ request \in [Clients -> Requests(issued)]
        /\ write_buffer_ \in [Clients -> Batches] /\ read_buffer_ \in [Clients -> Batches]
    BY DEF ViewInv, SystemInv, ClientInv, ClientTypes
  <1>2. request' = [request EXCEPT ![c] = NoMessage] /\ kind' = kind
    BY DEF Serve, ServeBegin, ServeGet, ServePut, Return
  <1>3. \A k \in Keys : request'[c] # GetRequest(k)
    BY <1>1, <1>2, RequestFields
  <1>4. \A d \in Clients : d # c => request'[d] = request[d]
    BY <1>1, <1>2
  <1>5. ASSUME UNCHANGED <<write_buffer_, read_buffer_, view>>
        PROVE  ViewInv'
    <2>1. ASSUME NEW d \in Clients, NEW k \in Keys
          PROVE  ViewOK(d, k)'
      BY <1>1, <1>2, <1>3, <1>4, <1>5, ViewUnchanged
    <2>2. QED
      BY <1>1, <1>5, <2>1 DEF ViewInv
  <1>6. CASE ServeBegin(t, c)
    BY <1>5, <1>6 DEF ServeBegin
  <1>7. CASE ServeGet(t, c)
    <2> DEFINE k == request[c].key
               r == GetResponse(t, k)
    <2>1. k \in Keys /\ request[c] = GetRequest(k)
      <3>1. request[c] \in Requests(issued) /\ request[c].type = "get"
        BY <1>1, <1>7 DEF ServeGet, Return
      <3>2. QED
        BY <3>1, RequestFields DEF Requests
    <2>2. write_buffer_' = write_buffer_
      BY <1>7 DEF ServeGet
    <2>3. CASE ~r.succeed
      <3>1. view[c][k] = {}
        BY <1>1, <2>1 DEF ViewOK
      <3>2. Observe(c, k, {}) /\ read_buffer_' = read_buffer_
        BY <1>7, <2>3, <3>1 DEF ServeGet
      <3>3. view' = view
        BY <1>1, <2>1, <3>1, <3>2 DEF Observe
      <3>4. QED
        BY <1>5, <2>2, <3>2, <3>3
    <2>4. CASE r.succeed
      <3>1. r.value \in Values
        <4>1. k \in DOMAIN kvs[t]
          BY <2>4 DEF GetResponse
        <4>2. kvs[t] \in Database
          BY DEF SystemInv, TypeInv, TypeOK
        <4>3. kvs[t][k] \in Entry
          BY <4>1, <4>2 DEF Database
        <4>4. QED
          BY <4>1, <4>3 DEF GetResponse, Entry
      <3>2. /\ read_buffer_' = IF kind[c] = "ici"
                               THEN [read_buffer_ EXCEPT ![c] = Assign(read_buffer_[c], k, r.value)]
                               ELSE read_buffer_
            /\ Observe(c, k, view[c][k] \cup {Printed(r.value)})
        BY <1>7, <2>4 DEF ServeGet
      <3>3. ViewOK(c, k) /\ ~Buffered(c, k) /\ view[c][k] = {}
        BY <1>1, <2>1 DEF ViewOK
      <3> HIDE DEF k, r
      <3>4. /\ view[c][k] \cup {Printed(r.value)} = {Printed(r.value)}
            /\ {Printed(r.value)} \in SUBSET Outcomes
        BY <3>1, <3>3 DEF Outcomes
      <3>5. /\ view' \in [Clients -> [Keys -> SUBSET Outcomes]]
            /\ \A d \in Clients : d # c => view'[d] = view[d]
            /\ \A j \in Keys : j # k => view'[c][j] = view[c][j]
            /\ view'[c][k] = IF kind[c] = "ici" THEN {Printed(r.value)} ELSE view[c][k]
        <4>1. Observe(c, k, {Printed(r.value)})
          BY <3>2, <3>4
        <4>2. QED
          BY <1>1, <2>1, <3>4, <4>1, ObserveView
      <3>6. ASSUME NEW d \in Clients, NEW j \in Keys
            PROVE  ViewOK(d, j)'
        <4>1. ViewOK(d, j)
          BY <1>1
        <4>2. CASE d # c
          <5>1. read_buffer_'[d] = read_buffer_[d] /\ view'[d] = view[d] /\ request'[d] = request[d]
            BY <1>1, <1>4, <3>2, <3>5, <4>2
          <5>2. QED
            BY <1>2, <2>2, <4>1, <5>1, ViewUnchanged
        <4>3. CASE d = c /\ kind[c] # "ici"
          <5>1. read_buffer_' = read_buffer_ /\ view'[c][j] = view[c][j]
            BY <3>2, <3>5, <4>3
          <5>2. QED
            BY <1>2, <1>3, <2>2, <4>1, <4>3, <5>1, ViewUnchanged
        <4>4. CASE d = c /\ kind[c] = "ici"
          <5>1. read_buffer_'[c] = Assign(read_buffer_[c], k, r.value)
            BY <1>1, <3>2, <4>4
          <5>2. /\ k \in DOMAIN read_buffer_'[c] /\ read_buffer_'[c][k] = r.value
                /\ \A i : i # k =>
                     /\ i \in DOMAIN read_buffer_'[c] <=> i \in DOMAIN read_buffer_[c]
                     /\ i \in DOMAIN read_buffer_[c] => read_buffer_'[c][i] = read_buffer_[c][i]
            BY <5>1 DEF Assign
          <5>3. CASE j = k
            BY <1>2, <1>3, <2>1, <2>2, <3>3, <3>5, <4>4, <5>2, <5>3
            DEF ViewOK, Buffered, BufferedValue
          <5>4. CASE j # k
            BY <1>2, <1>3, <2>2, <3>5, <4>1, <4>4, <5>2, <5>4
            DEF ViewOK, Buffered, BufferedValue
          <5>5. QED
            BY <5>3, <5>4
        <4>5. QED
          BY <4>2, <4>3, <4>4
      <3>7. QED
        BY <3>5, <3>6 DEF ViewInv
    <2>5. QED
      BY <2>3, <2>4
  <1>8. CASE ServePut(t, c)
    <2>1. CASE kind[c] = "ruc"
      BY <1>5, <1>8, <2>1 DEF ServePut
    <2>2. CASE kind[c] # "ruc"
      <3>1. /\ write_buffer_' = [write_buffer_ EXCEPT ![c] = EmptyMap]
            /\ read_buffer_' = [read_buffer_ EXCEPT ![c] = EmptyMap]
            /\ view' = [view EXCEPT ![c] = [k \in Keys |-> {}]]
        BY <1>8, <2>2 DEF ServePut
      <3>2. view' \in [Clients -> [Keys -> SUBSET Outcomes]]
        BY <1>1, <3>1
      <3>3. ASSUME NEW d \in Clients, NEW k \in Keys
            PROVE  ViewOK(d, k)'
        <4>1. CASE d = c
          <5>1. view'[d][k] = {} /\ request'[d] # GetRequest(k)
            BY <1>1, <1>3, <3>1, <4>1
          <5>2. QED
            BY <1>2, <5>1 DEF ViewOK
        <4>2. CASE d # c
          <5>1. UNCHANGED <<write_buffer_[d], read_buffer_[d], view[d], request[d]>>
            BY <1>1, <1>4, <3>1, <4>2
          <5>2. QED
            BY <1>1, <1>2, <5>1, ViewUnchanged
        <4>3. QED
          BY <4>1, <4>2
      <3>4. QED
        BY <3>2, <3>3 DEF ViewInv
    <2>3. QED
      BY <2>1, <2>2
  <1>9. QED
    BY <1>6, <1>7, <1>8 DEF Serve

LEMMA ViewStep ==
  ASSUME SystemInv, ViewInv, [SystemNext]_systemVars
  PROVE  ViewInv'
  <1>1. CASE UNCHANGED <<clientVars, request>>
    <2>1. ASSUME NEW c \in Clients, NEW k \in Keys
          PROVE  ViewOK(c, k)'
      BY <1>1 DEF ViewInv, ViewOK, Buffered, BufferedValue, clientVars
    <2>2. QED
      BY <1>1, <2>1 DEF ViewInv, clientVars
  <1>2. QED
    BY <1>1, SystemCases, ViewCall, ViewServe

(* ici_client.cc:43-60: whatever other clients write and whichever replicas  *)
(* answer, an ici client that has read a value of a key reads it again in    *)
(* its transaction, and neither another one nor ERROR, unless it wrote the   *)
(* key itself in between.                                                    *)
THEOREM ReadsRepeat == SystemSpec => []CachedReadsRepeat
  <1>1. ASSUME ViewInv PROVE CachedReadsRepeat
    <2>1. ASSUME NEW c \in Clients, NEW k \in Keys
          PROVE  Cardinality(view[c][k]) <= 1
      <3>1. PICK v : view[c][k] \subseteq {v}
        BY <1>1 DEF ViewInv, ViewOK
      <3>2. CASE view[c][k] = {}
        BY <3>2, FS_EmptySet
      <3>3. CASE view[c][k] = {v}
        <4>1. Cardinality({v}) = 1
          BY FS_Singleton
        <4>2. QED
          BY <3>3, <4>1
      <3>4. QED
        BY <3>1, <3>2, <3>3
    <2>2. QED
      BY <2>1 DEF CachedReadsRepeat
  <1>2. SystemInv /\ ViewInv /\ [SystemNext]_systemVars => ViewInv'
    BY ViewStep
  <1>3. QED
    BY <1>1, <1>2, ViewInit, SystemInvariant, PTL DEF SystemSpec


-----------------------------------------------------------------------------
(* Read committed: what is written under the timestamp of a buffering client *)
(* went through an END of that client.                                       *)

(* The record an END leaves of one of its writes. *)
Commit(timestamp, batch, k) == [key |-> k, entry |-> PutEntries(timestamp, batch)[k]]

CommittedBy(c) ==
  /\ \A w \in writes :
       w.entry.timestamp = current_timestamp_[c] => [key |-> w.key, entry |-> w.entry] \in committed
  /\ request[c].type = "put" =>
       \A k \in DOMAIN request[c].batch :
         Commit(request[c].timestamp, request[c].batch, k) \in committed

CommitInv ==
  /\ \A w \in writes : w.entry.timestamp \in issued
  /\ \A c \in Clients : kind[c] # "ruc" => CommittedBy(c)

LEMMA CommitInit == SystemInit => CommitInv
  BY RequestFields DEF SystemInit, Init, CommitInv, CommittedBy

(* Only handling a put request adds writes. *)
LEMMA WritesStep ==
  ASSUME [SystemNext]_systemVars
  PROVE  \/ writes' = writes
         \/ \E t \in Threads, c \in Clients : ServePut(t, c)
  <1>1. ASSUME NEW c \in Clients, Call(c)
        PROVE  writes' = writes
    BY <1>1 DEF Call, begin, getLocal, getRemote, putThrough, putBuffered, end, Send, serverVars
  <1>2. ASSUME NEW t \in Threads, NEW c \in Clients, Serve(t, c), ~ServePut(t, c)
        PROVE  writes' = writes
    BY <1>2 DEF Serve, ServeBegin, ServeGet, BeginTransaction, GetOrNotSet
  <1>3. ASSUME NEW t \in Threads, Internal(t)
        PROVE  writes' = writes
    <2>1. CASE StartUp(t)
      BY <2>1 DEF StartUp, Bind, EnterBarrier, RecheckBarrier, Subscribe, startupUnchanged
    <2>2. CASE WakeSpuriously(t)
      BY <2>2 DEF WakeSpuriously, startupUnchanged
    <2>3. CASE \E u \in Threads : SubscriptionArrives(t, u)
      BY <2>3 DEF SubscriptionArrives, startupUnchanged
    <2>4. CASE Receive(t)
      BY <2>4 DEF Receive, JoinGossip, CountGossip
    <2>5. QED
      BY <1>3, <2>1, <2>2, <2>3, <2>4 DEF Internal
  <1>4. CASE UNCHANGED systemVars
    BY <1>4 DEF systemVars, serverVars
  <1>5. QED
    BY <1>1, <1>2, <1>3, <1>4 DEF SystemNext

(* A step keeps what is committed, and a put request a buffering client has  *)
(* outstanding afterwards is committed.                                      *)
LEMMA CommittedStep ==
  ASSUME SystemInv, CommitInv, [SystemNext]_systemVars
  PROVE  /\ kind' = kind
         /\ committed \subseteq committed'
         /\ \A c \in Clients : kind[c] # "ruc" /\ request'[c].type = "put" =>
              \A k \in DOMAIN request'[c].batch :
                Commit(request'[c].timestamp, request'[c].batch, k) \in committed'
  <1>1. request \in [Clients -> Requests(issued)]
    BY DEF SystemInv, ClientInv, ClientTypes
  <1>2. \A c \in Clients : kind[c] # "ruc" /\ request[c].type = "put" =>
          \A k \in DOMAIN request[c].batch :
            Commit(request[c].timestamp, request[c].batch, k) \in committed
    BY DEF CommitInv, CommittedBy
  <1>3. ASSUME NEW c \in Clients, NEW r, request' = [request EXCEPT ![c] = r],
               r.type # "put" \/ kind[c] = "ruc", UNCHANGED <<kind, committed>>
        PROVE  \A d \in Clients : kind[d] # "ruc" /\ request'[d].type = "put" =>
                 \A k \in DOMAIN request'[d].batch :
                   Commit(request'[d].timestamp, request'[d].batch, k) \in committed'
    <2>1. \A d \in Clients : request'[d] = IF d = c THEN r ELSE request[d]
      BY <1>1, <1>3
    <2>2. QED
      BY <1>2, <1>3, <2>1
  <1>4. ASSUME NEW c \in Clients, Call(c), ~end(c)
        PROVE  \/ UNCHANGED <<kind, committed, request>>
               \/ \E r : /\ request' = [request EXCEPT ![c] = r]
                         /\ r.type # "put" \/ kind[c] = "ruc"
                         /\ UNCHANGED <<kind, committed>>
    BY <1>4, RequestFields
    DEF Call, begin, getLocal, getRemote, putThrough, putBuffered, Send, clientVars
  <1>5. ASSUME NEW c \in Clients, end(c)
        PROVE  /\ kind' = kind
               /\ committed \subseteq committed'
               /\ \A d \in Clients : kind[d] # "ruc" /\ request'[d].type = "put" =>
                    \A k \in DOMAIN request'[d].batch :
                      Commit(request'[d].timestamp, request'[d].batch, k) \in committed'
    <2> DEFINE ts == current_timestamp_[c]
               b == write_buffer_[c]
    <2>1. /\ request' = [request EXCEPT ![c] = PutRequest(ts, b)]
          /\ committed' = committed \cup {Commit(ts, b, k) : k \in DOMAIN b}
          /\ kind' = kind
      BY <1>5 DEF end, Send, Commit
    <2> HIDE DEF ts, b
    <2>2. request'[c] = PutRequest(ts, b) /\ \A d \in Clients : d # c => request'[d] = request[d]
      BY <1>1, <2>1
    <2>3. request'[c].timestamp = ts /\ request'[c].batch = b
      BY <2>2, RequestFields
    <2>4. \A k \in DOMAIN b : Commit(ts, b, k) \in committed'
      BY <2>1
    <2>5. QED
      BY <1>2, <2>1, <2>2, <2>3, <2>4
  <1>6. ASSUME NEW t \in Threads, NEW c \in Clients, Serve(t, c)
        PROVE  request' = [request EXCEPT ![c] = NoMessage] /\ UNCHANGED <<kind, committed>>
    BY <1>6 DEF Serve, ServeBegin, ServeGet, ServePut, Return
  <1>7. CASE UNCHANGED <<clientVars, request>>
    BY <1>2, <1>7 DEF clientVars
  <1>8. CASE \E c \in Clients : Call(c)
    <2>1. PICK c \in Clients : Call(c)
      BY <1>8
    <2>2. CASE end(c)
      BY <1>5, <2>2
    <2>3. CASE ~end(c)
      BY <1>2, <1>3, <1>4, <2>1, <2>3
    <2>4. QED
      BY <2>2, <2>3
  <1>9. CASE \E t \in Threads, c \in Clients : Serve(t, c)
    <2>1. PICK t \in Threads, c \in Clients : Serve(t, c)
      BY <1>9
    <2>2. request' = [request EXCEPT ![c] = NoMessage] /\ UNCHANGED <<kind, committed>>
      BY <1>6, <2>1
    <2>3. NoMessage.type # "put"
      BY RequestFields
    <2>4. QED
      BY <1>3, <2>2, <2>3
  <1>10. QED
    BY <1>7, <1>8, <1>9, SystemCases

LEMMA CommitStep ==
  ASSUME SystemInv, FreshTimestamp, UniqueTransactions, CommitInv, [SystemNext]_systemVars
  PROVE  CommitInv'
  <1>1. /\ kind' = kind
        /\ committed \subseteq committed'
        /\ \A c \in Clients : kind[c] # "ruc" /\ request'[c].type = "put" =>
             \A k \in DOMAIN request'[c].batch :
               Commit(request'[c].timestamp, request'[c].batch, k) \in committed'
    BY CommittedStep
  <1>2. issued \subseteq issued'
    BY SystemInvStep, IssuedGrows
  <1>3. /\ \A w \in writes : w.entry.timestamp \in issued
        /\ \A c \in Clients, w \in writes :
             kind[c] # "ruc" /\ w.entry.timestamp = current_timestamp_[c] =>
               [key |-> w.key, entry |-> w.entry] \in committed
    BY DEF CommitInv, CommittedBy
  <1>4. CASE writes' = writes
    <2>1. ASSUME NEW c \in Clients, NEW w \in writes', kind[c] # "ruc",
                 w.entry.timestamp = current_timestamp_'[c]
          PROVE  [key |-> w.key, entry |-> w.entry] \in committed'
      <3>1. CASE current_timestamp_'[c] = current_timestamp_[c]
        BY <1>1, <1>3, <1>4, <2>1, <3>1
      <3>2. CASE current_timestamp_'[c] # current_timestamp_[c]
        <4>1. PICK t \in Threads, d \in Clients :
                current_timestamp_' = [current_timestamp_ EXCEPT ![d] = NewTimestamp(t)]
          BY <3>2, TimestampStep
        <4>2. current_timestamp_'[c] \in {current_timestamp_[c], NewTimestamp(t)}
          BY <4>1 DEF SystemInv, ClientInv, ClientTypes
        <4>3. current_timestamp_'[c] \notin issued
          BY <3>2, <4>2 DEF FreshTimestamp
        <4>4. QED
          BY <1>3, <1>4, <2>1, <4>3
      <3>3. QED
        BY <3>1, <3>2
    <2>2. QED
      BY <1>1, <1>2, <1>3, <1>4, <2>1 DEF CommitInv, CommittedBy
  <1>5. ASSUME NEW t \in Threads, NEW d \in Clients, ServePut(t, d)
        PROVE  CommitInv'
    <2> DEFINE ts == request[d].timestamp
               b == request[d].batch
    <2>1. /\ request[d].type = "put"
          /\ writes' = writes \cup
               {[origin |-> t, key |-> k, entry |-> PutEntries(ts, b)[k]] : k \in DOMAIN b}
          /\ current_timestamp_' = current_timestamp_
      BY <1>5 DEF ServePut, Return, Put
    <2>2. InTransaction(d) /\ request[d] \in Requests(issued)
      BY DEF SystemInv, ClientInv, ClientTypes
    <2>3. ts = current_timestamp_[d] /\ ts \in issued \cup {-1}
          /\ (ts = -1 => b = EmptyMap)
      BY <2>1, <2>2, PutRequestFields DEF InTransaction
    <2>4. kind[d] # "ruc" => \A k \in DOMAIN b : Commit(ts, b, k) \in committed
      BY <2>1 DEF CommitInv, CommittedBy
    <2> HIDE DEF ts, b
    <2>5. ASSUME NEW w \in writes', w \notin writes
          PROVE  /\ \E k \in DOMAIN b : [key |-> w.key, entry |-> w.entry] = Commit(ts, b, k)
                 /\ w.entry.timestamp = ts /\ ts \in issued
      <3>1. PICK k \in DOMAIN b : w = [origin |-> t, key |-> k, entry |-> PutEntries(ts, b)[k]]
        BY <2>1, <2>5
      <3>2. w.key = k /\ w.entry = PutEntries(ts, b)[k]
        BY <3>1
      <3>3. PutEntries(ts, b)[k].timestamp = ts
        BY <3>1 DEF PutEntries
      <3>4. b # EmptyMap
        BY <3>1 DEF EmptyMap
      <3>5. QED
        BY <2>3, <3>1, <3>2, <3>3, <3>4 DEF Commit
    <2>6. ASSUME NEW c \in Clients, NEW w \in writes', kind[c] # "ruc",
                 w.entry.timestamp = current_timestamp_'[c]
          PROVE  [key |-> w.key, entry |-> w.entry] \in committed'
      <3>1. CASE w \in writes
        BY <1>1, <1>3, <2>1, <2>6, <3>1
      <3>2. CASE w \notin writes
        <4>1. w.entry.timestamp = ts /\ ts \in issued
              /\ \E k \in DOMAIN b : [key |-> w.key, entry |-> w.entry] = Commit(ts, b, k)
          BY <2>5, <3>2
        <4>2. CASE c = d
          BY <1>1, <2>4, <2>6, <4>1, <4>2
        <4>3. CASE c # d
          <5>1. current_timestamp_[c] = current_timestamp_[d]
            BY <2>1, <2>3, <2>6, <4>1
          <5>2. ts = -1
            BY <2>3, <4>3, <5>1 DEF UniqueTransactions
          <5>3. \A k : k \notin DOMAIN b
            BY <2>3, <5>2 DEF EmptyMap
          <5>4. QED
            BY <4>1, <5>3
        <4>4. QED
          BY <4>2, <4>3
      <3>3. QED
        BY <3>1, <3>2
    <2>7. \A w \in writes' : w.entry.timestamp \in issued'
      BY <1>2, <1>3, <2>5
    <2>8. QED
      BY <1>1, <2>6, <2>7 DEF CommitInv, CommittedBy
  <1>6. QED
    BY <1>4, <1>5, WritesStep

(* No replica ever holds a value that an rc or ici client put in its current *)
(* transaction but did not ask to commit with END: joining invents nothing   *)
(* (Provenance), timestamps identify the writer (UniqueTransactions), and    *)
(* that writer only sends its buffer from END.                               *)
THEOREM ReadsCommitted == SystemSpec => []ReadCommitted
  <1>1. ASSUME CommitInv, Provenance PROVE ReadCommitted
    <2>1. ASSUME NEW t \in Threads, NEW k \in DOMAIN kvs[t],
                 NEW c \in Clients, kind[c] # "ruc",
                 current_timestamp_[c] = kvs[t][k].timestamp
          PROVE  [key |-> k, entry |-> kvs[t][k]] \in committed
      <3>1. PICK w \in writes : w.key = k /\ w.entry = kvs[t][k]
        BY <1>1 DEF Provenance, Written
      <3>2. QED
        BY <1>1, <2>1, <3>1 DEF CommitInv, CommittedBy
    <2>2. QED
      BY <2>1 DEF ReadCommitted, Buffering
  <1>2. SystemInv /\ FreshTimestamp /\ UniqueTransactions /\ CommitInv
          /\ [SystemNext]_systemVars => CommitInv'
    BY CommitStep
  <1>3. SystemSpec => []FreshTimestamp
    BY SystemImplementsServer, TimestampsFresh DEF ServerRefinement
  <1>4. SystemSpec => [](Provenance /\ NoWriteLost)
    BY SystemImplementsServer, WritesAccounted DEF ServerRefinement
  <1>5. QED
    BY <1>1, <1>2, <1>3, <1>4, CommitInit, SystemInvariant, TransactionsUnique, PTL
    DEF SystemSpec


-----------------------------------------------------------------------------
(* Types. *)

CommittedType == \A w \in committed : w.key \in Keys /\ w.entry \in Entry

LEMMA CommittedTypeStep ==
  ASSUME SystemInv, CommittedType, [SystemNext]_systemVars
  PROVE  CommittedType'
  <1>1. ASSUME NEW c \in Clients, Call(c), ~end(c)
        PROVE  committed' = committed
    BY <1>1 DEF Call, begin, getLocal, getRemote, putThrough, putBuffered, clientVars
  <1>2. ASSUME NEW c \in Clients, end(c)
        PROVE  CommittedType'
    <2> DEFINE ts == current_timestamp_[c]
               b == write_buffer_[c]
    <2>1. committed' = committed \cup {Commit(ts, b, k) : k \in DOMAIN b}
      BY <1>2 DEF end, Commit
    <2>2. b \in Batches /\ InTransaction(c) /\ ts \in issued \cup {-1} /\ issued \subseteq Timestamps
      BY DEF SystemInv, ClientInv, ClientTypes, TypeInv, TypeOK
    <2>3. ts \in Timestamps \/ b = EmptyMap
      BY <2>2 DEF InTransaction
    <2> HIDE DEF ts, b
    <2>4. ASSUME NEW k \in DOMAIN b
          PROVE  Commit(ts, b, k).key \in Keys /\ Commit(ts, b, k).entry \in Entry
      <3>1. k \in Keys /\ b[k] \in Values
        BY <2>2, <2>4 DEF Batches
      <3>2. ts \in Timestamps
        BY <2>3, <2>4 DEF EmptyMap
      <3>3. QED
        BY <2>4, <3>1, <3>2 DEF Commit, PutEntries, Entry
    <2>5. QED
      BY <2>1, <2>4 DEF CommittedType
  <1>3. ASSUME NEW t \in Threads, NEW c \in Clients, Serve(t, c)
        PROVE  committed' = committed
    BY <1>3 DEF Serve, ServeBegin, ServeGet, ServePut, Return
  <1>4. CASE UNCHANGED <<clientVars, request>>
    BY <1>4 DEF clientVars, CommittedType
  <1>5. QED
    BY <1>1, <1>2, <1>3, <1>4, SystemCases DEF CommittedType

(* The clients' members, their requests and the histories keep their types. *)
THEOREM SystemTypes == SystemSpec => []SystemTypeOK
  <1>1. ASSUME SystemInv, ViewInv, CommittedType PROVE SystemTypeOK
    <2>1. issued \subseteq Timestamps /\ TypeOK
      BY <1>1 DEF SystemInv, TypeInv, TypeOK
    <2>2. Requests(issued) \subseteq Requests(Timestamps)
      BY <2>1, RequestsMonotone
    <2>3. QED
      BY <1>1, <2>1, <2>2
      DEF SystemTypeOK, RequestMessages, SystemInv, ClientInv, ClientTypes, ViewInv, CommittedType
  <1>2. SystemInit => CommittedType
    BY DEF SystemInit, CommittedType
  <1>3. SystemInv /\ CommittedType /\ [SystemNext]_systemVars => CommittedType'
    BY CommittedTypeStep
  <1>4. SystemInv /\ ViewInv /\ [SystemNext]_systemVars => ViewInv'
    BY ViewStep
  <1>5. QED
    BY <1>1, <1>2, <1>3, <1>4, ViewInit, SystemInvariant, PTL DEF SystemSpec
=============================================================================
