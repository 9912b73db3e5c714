------------------------------ MODULE KVSystem ------------------------------
(***************************************************************************)
(* The whole key-value store: the server of KVServer, the broker of        *)
(* src/key_value_stores/msgqueue.cc and clients of the three programs      *)
(* ruc_client.cc (read uncommitted), rc_client.cc (read committed) and     *)
(* ici_client.cc (item cut isolation).                                     *)
(*                                                                         *)
(* A client's call that needs the server is two steps: it sends a request  *)
(* and blocks in recv_proto; later a server thread handles the request and *)
(* the call returns with the response (until it does the client does       *)
(* nothing and no one else reads its state, so the time the response takes *)
(* makes no difference).  The broker hands a request to any thread, not    *)
(* always the same one.                                                    *)
(***************************************************************************)
EXTENDS KVServer

CONSTANT Clients

ASSUME MaxLocalSuffices == MaxLocal >= MaxIssued

VARIABLES
  kind,               \* the program each client runs
  current_timestamp_, \* its members: the transaction's timestamp, or -1
  write_buffer_,      \* rc, ici: the writes to send at END
  read_buffer_,       \* ici: the values read in the transaction
  request,            \* the request each client waits for, or NoMessage
  view,               \* history: view[c][k], what gets of k by ici client c
                      \* printed in its transaction, from the first value on
                      \* and from c's last PUT of k on
  committed           \* history: what END calls asked to write

clientVars == <<kind, current_timestamp_, write_buffer_, read_buffer_, view, committed>>
systemVars == <<serverVars, clientVars, request>>

NoMessage == [type |-> "none"]
BeginRequest == [type |-> "begin"]
GetRequest(k) == [type |-> "get", key |-> k]
PutRequest(timestamp, batch) == [type |-> "put", timestamp |-> timestamp, batch |-> batch]

Requests(timestamps) ==
  {NoMessage, BeginRequest} \cup {GetRequest(k) : k \in Keys}
    \cup {PutRequest(timestamp, batch) : timestamp \in timestamps \cup {-1}, batch \in Batches}

RequestMessages == Requests(Timestamps)

(* What get prints: a value, or ERROR for a key the replica does not have. *)
Printed(v) == [succeed |-> TRUE, value |-> v]
Error == [succeed |-> FALSE]
Outcomes == {Printed(v) : v \in Values} \cup {Error}

SystemInit ==
  /\ Init
  /\ kind \in [Clients -> {"ruc", "rc", "ici"}]
  /\ current_timestamp_ = [c \in Clients |-> -1]
  /\ write_buffer_ = [c \in Clients |-> EmptyMap]
  /\ read_buffer_ = [c \in Clients |-> EmptyMap]
  /\ request = [c \in Clients |-> NoMessage]
  /\ view = [c \in Clients |-> [k \in Keys |-> {}]]
  /\ committed = {}

-----------------------------------------------------------------------------
(* The clients' calls, up to send_proto. *)

Idle(c) == request[c] = NoMessage

(* Bounds: clients ask for no more transactions and no more writes than the  *)
(* server's bounds let it handle.                                            *)
Outstanding(type) == {c \in Clients : request[c].type = type}
MayBegin == Cardinality(issued) + Cardinality(Outstanding("begin")) < MaxIssued
MayPut == Len(heap) + Cardinality(Outstanding("put")) < MaxGossip

Send(c, r) ==
  /\ request' = [request EXCEPT ![c] = r]
  /\ UNCHANGED serverVars

begin(c) ==
  /\ Idle(c) /\ MayBegin
  /\ Send(c, BeginRequest)
  /\ UNCHANGED clientVars

(* The history of k becomes seen. *)
Observe(c, k, seen) ==
  view' = IF kind[c] = "ici" THEN [view EXCEPT ![c][k] = seen] ELSE view

(* Mutant: the cache of reads is not consulted. *)
BufferedWritesOnly(c, k) == k \in DOMAIN write_buffer_[c]

(* The value get prints without asking the server, if any. *)
Buffered(c, k) == k \in DOMAIN write_buffer_[c] \cup DOMAIN read_buffer_[c]
BufferedValue(c, k) ==
  IF k \in DOMAIN write_buffer_[c] THEN write_buffer_[c][k] ELSE read_buffer_[c][k]

getLocal(c, k) ==
  /\ Idle(c) /\ Buffered(c, k)
  /\ Observe(c, k, view[c][k] \cup {Printed(BufferedValue(c, k))})
  /\ UNCHANGED <<serverVars, kind, current_timestamp_, write_buffer_, read_buffer_,
                 request, committed>>

getRemote(c, k) ==
  /\ Idle(c) /\ ~Buffered(c, k)
  /\ Send(c, GetRequest(k))
  /\ UNCHANGED clientVars

(* buffer[k] = v of a std::unordered_map *)
Assign(buffer, k, v) == [j \in DOMAIN buffer \cup {k} |-> IF j = k THEN v ELSE buffer[j]]

(* Mutant: put sends the write, whatever the isolation level. *)
putThroughAlways(c, k, v) ==
  /\ Idle(c) /\ current_timestamp_[c] # -1 /\ MayPut
  /\ Send(c, PutRequest(current_timestamp_[c], [j \in {k} |-> v]))
  /\ UNCHANGED clientVars

(* Mutant: put does not check that a transaction has begun. *)
putThroughUnchecked(c, k, v) ==
  /\ Idle(c) /\ kind[c] = "ruc" /\ MayPut
  /\ Send(c, PutRequest(current_timestamp_[c], [j \in {k} |-> v]))
  /\ UNCHANGED clientVars

(* put of a ruc client sends the write.  Without a BEGIN, put only prints a  *)
(* message.                                                                  *)
putThrough(c, k, v) ==
  /\ Idle(c) /\ kind[c] = "ruc" /\ current_timestamp_[c] # -1 /\ MayPut
  /\ Send(c, PutRequest(current_timestamp_[c], [j \in {k} |-> v]))
  /\ UNCHANGED clientVars

(* put of an rc or ici client buffers it. *)
putBuffered(c, k, v) ==
  /\ Idle(c) /\ kind[c] # "ruc" /\ current_timestamp_[c] # -1
  /\ write_buffer_' = [write_buffer_ EXCEPT ![c] = Assign(@, k, v)]
  /\ Observe(c, k, {Printed(v)})
  /\ UNCHANGED <<serverVars, kind, current_timestamp_, read_buffer_, request, committed>>

(* end of rc and ici clients; a ruc client only prints that it has none. *)
end(c) ==
  /\ Idle(c) /\ kind[c] # "ruc" /\ MayPut
  /\ Send(c, PutRequest(current_timestamp_[c], write_buffer_[c]))
  /\ committed' = committed \cup
       {[key |-> k, entry |-> PutEntries(current_timestamp_[c], write_buffer_[c])[k]] :
          k \in DOMAIN write_buffer_[c]}
  /\ UNCHANGED <<kind, current_timestamp_, write_buffer_, read_buffer_, view>>

-----------------------------------------------------------------------------
(* Thread t handles the request that the broker passed to it from c, and c   *)
(* does the rest of its call.                                                *)

Return(c, type) ==
  /\ request[c].type = type
  /\ request' = [request EXCEPT ![c] = NoMessage]
  /\ UNCHANGED <<kind, committed>>

ServeBegin(t, c) ==
  /\ Return(c, "begin")
  /\ BeginTransaction(t)
  /\ current_timestamp_' = [current_timestamp_ EXCEPT ![c] = BeginResponse(t).timestamp]
  /\ UNCHANGED <<write_buffer_, read_buffer_, view>>

(* Mutant: the (empty) value of a failed read is kept too. *)
ServeGetKeepsMisses(t, c) ==
  LET k == request[c].key
      response == GetResponse(t, k)
      value == IF response.succeed THEN response.value ELSE 0
  IN /\ Return(c, "get")
     /\ GetOrNotSet(t)
     /\ read_buffer_' = [read_buffer_ EXCEPT ![c] = Assign(@, k, value)]
     /\ Observe(c, k, view[c][k] \cup {Printed(value)})
     /\ UNCHANGED <<current_timestamp_, write_buffer_>>

(* Only an ici client keeps what it read, and only what it found. *)
ServeGet(t, c) ==
  LET k == request[c].key
      response == GetResponse(t, k)
  IN /\ Return(c, "get")
     /\ GetOrNotSet(t)
     /\ IF response.succeed
        THEN /\ read_buffer_' = IF kind[c] = "ici"
                                THEN [read_buffer_ EXCEPT ![c] = Assign(@, k, response.value)]
                                ELSE read_buffer_
             /\ Observe(c, k, view[c][k] \cup {Printed(response.value)})
        ELSE /\ UNCHANGED read_buffer_
             /\ Observe(c, k, IF view[c][k] = {} THEN {} ELSE view[c][k] \cup {Error})
     /\ UNCHANGED <<current_timestamp_, write_buffer_>>

(* put of a ruc client, end of the others. *)
ServePut(t, c) ==
  /\ Return(c, "put")
  /\ Put(t, request[c].timestamp, request[c].batch)
  /\ IF kind[c] = "ruc"
     THEN UNCHANGED <<write_buffer_, read_buffer_, view>>
     ELSE /\ write_buffer_' = [write_buffer_ EXCEPT ![c] = EmptyMap]
          /\ read_buffer_' = [read_buffer_ EXCEPT ![c] = EmptyMap]
          /\ view' = [view EXCEPT ![c] = [k \in Keys |-> {}]]
  /\ UNCHANGED current_timestamp_

-----------------------------------------------------------------------------
Call(c) ==
  \/ begin(c)
  \/ \E k \in Keys : getLocal(c, k)
  \/ \E k \in Keys : getRemote(c, k)
  \/ \E k \in Keys, v \in Values : putThrough(c, k, v)
  \/ \E k \in Keys, v \in Values : putBuffered(c, k, v)
  \/ end(c)

Serve(t, c) == ServeBegin(t, c) \/ ServeGet(t, c) \/ ServePut(t, c)

(* The steps of the server that no request triggers. *)
Internal(t) ==
  /\ \/ StartUp(t)
     \/ WakeSpuriously(t)
     \/ \E u \in Threads : SubscriptionArrives(t, u)
     \/ Receive(t)
  /\ UNCHANGED <<clientVars, request>>

SystemNext ==
  \/ \E c \in Clients : Call(c)
  \/ \E t \in Threads, c \in Clients : Serve(t, c)
  \/ \E t \in Threads : Internal(t)

SystemSpec == SystemInit /\ [][SystemNext]_systemVars

-----------------------------------------------------------------------------
SystemTypeOK ==
  /\ TypeOK
  /\ kind \in [Clients -> {"ruc", "rc", "ici"}]
  /\ current_timestamp_ \in [Clients -> Timestamps \cup {-1}]
  /\ write_buffer_ \in [Clients -> Batches]
  /\ read_buffer_ \in [Clients -> Batches]
  /\ request \in [Clients -> RequestMessages]
  /\ view \in [Clients -> [Keys -> SUBSET Outcomes]]
  /\ \A w \in committed : w.key \in Keys /\ w.entry \in Entry

(* Two clients are never in the same transaction: a timestamp is given to    *)
(* one BEGIN only, whichever threads the broker picked.                      *)
UniqueTransactions ==
  \A c, d \in Clients :
    c # d /\ current_timestamp_[c] = current_timestamp_[d] => current_timestamp_[c] = -1

(* ici_client.cc:3-6, 43-60.  Within a transaction, once an ici client has   *)
(* read a value of a key, it reads that value again, or the one it wrote     *)
(* itself since, and never ERROR, no matter what other clients write and     *)
(* which replica answers.  This is less than item cut isolation: a read that *)
(* finds nothing is not cached, so ERROR may come before the first value.    *)
CachedReadsRepeat ==
  \A c \in Clients : kind[c] = "ici" => \A k \in Keys : Cardinality(view[c][k]) <= 1

(* rc_client.cc:3-7.  What an rc or ici client wrote becomes readable only   *)
(* through an END that asked for exactly that write: no replica holds a      *)
(* value under its timestamp that was not in the buffer of some END.  After  *)
(* two ENDs under one timestamp that may be the value of either.             *)
Buffering(timestamp) ==
  \E c \in Clients : kind[c] # "ruc" /\ current_timestamp_[c] = timestamp

ReadCommitted ==
  \A t \in Threads : \A k \in DOMAIN kvs[t] :
    Buffering(kvs[t][k].timestamp) => [key |-> k, entry |-> kvs[t][k]] \in committed

(* The clients only send what KVServer assumes of its requests: the server   *)
(* inside the system behaves as the server on its own, and everything proved *)
(* of it holds here.                                                         *)
ServerRefinement == Spec
=============================================================================
