---------------------------- MODULE ClickServer -----------------------------
(***************************************************************************)
(* The server of src/click/example_server.cc: a driver whose thread pushes *)
(* each request to kNumWorkers workers, collects their answers in a        *)
(* GroupBy and answers the client twice: when a Dedup has counted enough   *)
(* answers, and when the request's timer runs out.                         *)
(*                                                                         *)
(* Everything a handler's Run does is in one thread, so a handler is one   *)
(* action.  A message is its sender: requests and answers are counted per  *)
(* client, and a sum is how many answers of each client it adds up.  The   *)
(* maps groups_ and counts_ are functions of the clients' connection ids;  *)
(* an id without a binding has nothing or 0.                               *)
(*                                                                         *)
(* ZeroMQ is external: a PUSH socket hands a message to some worker, and   *)
(* a PULL or ROUTER socket takes the next message of some peer.            *)
(***************************************************************************)
EXTENDS Driver, FiniteSets

CONSTANTS
  Clients,
  kNumWorkers,
  MaxRequests   \* bound: requests of all clients

ASSUME kNumWorkersAssumption == kNumWorkers \in Nat /\ kNumWorkers > 1
ASSUME MaxRequestsAssumption == MaxRequests \in Nat

NoClient == "none"

ASSUME ClientsAssumption == IsFiniteSet(Clients) /\ NoClient \notin Clients

Workers == 1..kNumWorkers

VARIABLES
  timer_event_handlers_, timer_id_,  \* the members of Timer
  expired,   \* the timer file descriptors that are readable
  groups_,   \* GroupBy: how many answers of each client a group holds
  counts_,   \* Dedup: the number of answers seen
  router,    \* requests that wait at the router socket
  source,    \* copies of requests on their way to the workers
  busy,      \* the client whose request a worker works on
  sink,      \* answers that wait at the sink socket
  asked,     \* history: requests sent by a client
  replies,   \* history: responses sent to a client
  summed     \* history: summed[c][d], answers to requests of d that were
             \* added up in the responses to c

timerVars == <<timer_event_handlers_, timer_id_, expired>>
socketVars == <<router, source, busy, sink, asked>>
replyVars == <<groups_, counts_, replies, summed>>
vars == <<driverVars, timerVars, socketVars, replyVars>>

Zero == [c \in Clients |-> 0]
Add(f, c, n) == [f EXCEPT ![c] = @ + n]

(* The message of c is taken from, or n messages of c are put into, a socket. *)
recv_enveloped_msg(socket, c) == socket[c] > 0 /\ socket' = Add(socket, c, -1)
send_enveloped_msg(socket, c, n) == socket' = Add(socket, c, n)

FromWorkers == [kind |-> "from_workers", id |-> -1]
In == [kind |-> "in", id |-> -1]
TimerHandler(id) == [kind |-> "timer", id |-> id]

Init ==
  /\ DriverInit(<<FromWorkers, In>>, <<SocketItem("sink"), SocketItem("router")>>)
  /\ timer_event_handlers_ = << >> /\ timer_id_ = 0 /\ expired = {}
  /\ groups_ = [k \in Clients |-> Zero] /\ counts_ = Zero
  /\ router = Zero /\ source = Zero /\ sink = Zero
  /\ busy = [w \in Workers |-> NoClient]
  /\ asked = Zero /\ replies = Zero /\ summed = [c \in Clients |-> Zero]

-----------------------------------------------------------------------------
(* The rest of the world: clients, workers and the clock. *)

Send(c) ==
  /\ FoldFunction(+, 0, asked) < MaxRequests
  /\ asked' = Add(asked, c, 1)
  /\ router' = Add(router, c, 1)
  /\ UNCHANGED <<driverVars, timerVars, replyVars, source, busy, sink>>

(* length_plus_i up to its sleep, and the rest. *)
Take(w, c) ==
  /\ busy[w] = NoClient
  /\ recv_enveloped_msg(source, c)
  /\ busy' = [busy EXCEPT ![w] = c]
  /\ UNCHANGED <<driverVars, timerVars, replyVars, router, sink, asked>>

Answer(w) ==
  /\ busy[w] # NoClient
  /\ send_enveloped_msg(sink, busy[w], 1)
  /\ busy' = [busy EXCEPT ![w] = NoClient]
  /\ UNCHANGED <<driverVars, timerVars, replyVars, router, source, asked>>

(* A timer runs out kDelay after it was set, so in the order of the ids. *)
fd(id) == timer_event_handlers_[id].timerfd_

Expire(id) ==
  /\ id \in DOMAIN timer_event_handlers_
  /\ fd(id) \notin expired
  /\ \A j \in DOMAIN timer_event_handlers_ : j < id => fd(j) \in expired
  /\ expired' = expired \cup {fd(id)}
  /\ UNCHANGED <<driverVars, timer_event_handlers_, timer_id_, socketVars, replyVars>>

-----------------------------------------------------------------------------
(* The elements. *)

(* The operator< of ConnectionId compares two empty ranges, the one before   *)
(* lhs's first element and the one behind rhs's last.                        *)
ConnectionIdLess(lhs, rhs) == FALSE

(* A std::map tells two keys apart when one is less than the other.  Key(c)  *)
(* stands for the keys it does not tell from c.                              *)
Key(c) == CHOOSE k \in Clients : ~ConnectionIdLess(c, k) /\ ~ConnectionIdLess(k, c)

(* The elements reduce and out: respond to c with the sum of group g. *)
reduce_group(c, g) ==
  /\ send_enveloped_msg(replies, c, 1)
  /\ summed' = [summed EXCEPT ![c] = [d \in Clients |-> @[d] + g[d]]]

(* GroupBy: the group that c's answer makes of c's group; and the group g of *)
(* c passed on and forgotten.                                                *)
push_call(c) == Add(groups_[Key(c)], c, 1)

end_call(c, g) ==
  /\ reduce_group(c, g)
  /\ groups_' = [groups_ EXCEPT ![Key(c)] = Zero]

(* Dedup::push, which passes every kNumWorkers-th on. *)
DedupPasses(c) == counts_[Key(c)] + 1 = kNumWorkers
DedupCount(c) == [counts_ EXCEPT ![Key(c)] = IF DedupPasses(c) THEN 0 ELSE @ + 1]

(* Mutant: the dedup branch of the tee comes first. *)
FromWorkersTeeSwapped(c) ==
  /\ counts_' = DedupCount(c)
  /\ IF DedupPasses(c)
     THEN /\ reduce_group(c, groups_[Key(c)])
          /\ groups_' = [groups_ EXCEPT ![Key(c)] = Add(Zero, c, 1)]
     ELSE /\ groups_' = [groups_ EXCEPT ![Key(c)] = Add(@, c, 1)]
          /\ UNCHANGED <<replies, summed>>

(* from_workers_tee: an answer goes to GroupBy::push_call and then, by its   *)
(* client, to the Dedup, which ends the group.                               *)
FromWorkersTee(c) ==
  LET g == push_call(c)
  IN /\ counts_' = DedupCount(c)
     /\ IF DedupPasses(c)
        THEN end_call(c, g)
        ELSE groups_' = [groups_ EXCEPT ![Key(c)] = g] /\ UNCHANGED <<replies, summed>>

(* timerfd_create: the lowest descriptor not in use. *)
OpenFds == {fd(id) : id \in DOMAIN timer_event_handlers_}
NewFd == CHOOSE n \in 1..(Cardinality(OpenFds) + 1) :
           n \notin OpenFds /\ \A m \in 1..(n - 1) : m \in OpenFds

(* Mutant: the new handler is not registered with the driver. *)
TimerPushUnregistered(c) ==
  /\ timer_event_handlers_' = [id \in DOMAIN timer_event_handlers_ \cup {timer_id_} |->
       IF id = timer_id_ THEN [x_ |-> c, timerfd_ |-> NewFd] ELSE timer_event_handlers_[id]]
  /\ timer_id_' = timer_id_ + 1
  /\ UNCHANGED <<event_handlers_, pollitems_, expired>>

(* Timer::push: a new handler, kept under its id and registered. *)
TimerPush(c) ==
  /\ timer_event_handlers_' = [id \in DOMAIN timer_event_handlers_ \cup {timer_id_} |->
       IF id = timer_id_ THEN [x_ |-> c, timerfd_ |-> NewFd] ELSE timer_event_handlers_[id]]
  /\ RegisterEventHandler(TimerHandler(timer_id_), TimerItem(NewFd))
  /\ timer_id_' = timer_id_ + 1
  /\ UNCHANGED expired

-----------------------------------------------------------------------------
(* The driver's thread. *)

Pending ==
  {SocketItem("sink") : c \in {d \in Clients : sink[d] > 0}}
    \cup {SocketItem("router") : c \in {d \in Clients : router[d] > 0}}
    \cup {TimerItem(n) : n \in expired}

PollEvents ==
  /\ Poll(Pending)
  /\ UNCHANGED <<timerVars, socketVars, replyVars>>

SkipHandler ==
  /\ Skip
  /\ UNCHANGED <<timerVars, socketVars, replyVars>>

FinishRound ==
  /\ EndRound
  /\ UNCHANGED <<timerVars, socketVars, replyVars>>

(* Run of the SocketRecv from_workers; recv takes the message of c. *)
RunFromWorkers(c) ==
  /\ Triggered /\ event_handlers[pos] = FromWorkers
  /\ recv_enveloped_msg(sink, c)
  /\ FromWorkersTee(c)
  /\ AfterRun(FALSE)
  /\ UNCHANGED <<event_handlers_, pollitems_, timerVars, router, source, busy, asked>>

(* Dup and, below it, to_workers. *)
DupToWorkers(c) == send_enveloped_msg(source, c, kNumWorkers)

(* Mutant: recv drains the socket. *)
RunInDrains(c) ==
  /\ Triggered /\ event_handlers[pos] = In
  /\ router[c] > 0
  /\ router' = [router EXCEPT ![c] = 0]
  /\ TimerPush(c)
  /\ DupToWorkers(c)
  /\ AfterRun(FALSE)
  /\ UNCHANGED <<busy, sink, asked, replyVars>>

(* Run of the SocketRecv in: in_tee passes the request to the timer and, by  *)
(* the dup, kNumWorkers times to the workers.                                *)
RunIn(c) ==
  /\ Triggered /\ event_handlers[pos] = In
  /\ recv_enveloped_msg(router, c)
  /\ TimerPush(c)
  /\ DupToWorkers(c)
  /\ AfterRun(FALSE)
  /\ UNCHANGED <<busy, sink, asked, replyVars>>

(* Run of a TimerEventHandler: end the group, leave the map, and free the    *)
(* handler, which closes its descriptor.                                     *)
RunTimer(id) ==
  /\ Triggered /\ event_handlers[pos] = TimerHandler(id)
  /\ LET c == timer_event_handlers_[id].x_ IN end_call(c, groups_[Key(c)])
  /\ timer_event_handlers_' = [j \in DOMAIN timer_event_handlers_ \ {id} |-> timer_event_handlers_[j]]
  /\ expired' = expired \ {fd(id)}
  /\ AfterRun(TRUE)
  /\ UNCHANGED <<event_handlers_, pollitems_, timer_id_, counts_, socketVars>>

DriverStep ==
  \/ PollEvents
  \/ SkipHandler
  \/ FinishRound
  \/ \E c \in Clients : RunFromWorkers(c)
  \/ \E c \in Clients : RunIn(c)
  \/ \E id \in DOMAIN timer_event_handlers_ : RunTimer(id)

Next ==
  \/ DriverStep
  \/ \E c \in Clients : Send(c)
  \/ \E w \in Workers, c \in Clients : Take(w, c)
  \/ \E w \in Workers : Answer(w)
  \/ \E id \in DOMAIN timer_event_handlers_ : Expire(id)

(* The driver's thread runs and timers run out; neither clients nor workers  *)
(* have to do anything.                                                      *)
Fairness ==
  /\ WF_vars(DriverStep)
  /\ WF_vars(\E id \in DOMAIN timer_event_handlers_ : Expire(id))

Spec == Init /\ [][Next]_vars /\ Fairness

-----------------------------------------------------------------------------
(* driver.h:46-47 and driver.cc:35-37.  Whatever handlers register and free  *)
(* while the loop runs, pollitems_[i] is the poll item of event_handlers_[i], *)
(* in the members and in Run's vectors, no freed handler is among them, and  *)
(* every handler that lives is there exactly once.                           *)
PollitemOf(h) ==
  CASE h.kind = "from_workers" -> SocketItem("sink")
    [] h.kind = "in" -> SocketItem("router")
    [] h.kind = "timer" -> TimerItem(fd(h.id))

LiveHandlers == {FromWorkers, In} \cup {TimerHandler(id) : id \in DOMAIN timer_event_handlers_}

HandlersPolled ==
  LET handlers == event_handlers_ \o event_handlers
      items == pollitems_ \o [i \in DOMAIN pollitems |-> pollitems[i].item]
  IN /\ Len(event_handlers_) = Len(pollitems_) /\ Len(handlers) = Len(items)
     /\ Len(handlers) = Cardinality(LiveHandlers)
     /\ {handlers[i] : i \in DOMAIN handlers} = LiveHandlers
     /\ \A i \in DOMAIN handlers : items[i] = PollitemOf(handlers[i])

(* event_handler.h:20-22: Run "won't be spuriously called".  Between the     *)
(* poll and the call, other handlers run; the event of a handler still to be *)
(* called is there when its turn comes, so no recv blocks the loop.          *)
NoSpuriousRun ==
  pos # 0 => \A i \in pos..Len(pollitems) : pollitems[i].revents => pollitems[i].item \in Pending

(* No worker's answer is lost or added up twice: every copy of a request the *)
(* server has taken is with the workers, on its way, in a group or in one    *)
(* response.                                                                 *)
Handled(c) == asked[c] - router[c]
SumOver(S, f) == FoldFunctionOnSet(+, 0, f, S)
AnswersOf(c, f) == SumOver(Clients, [k \in Clients |-> f[k][c]])

AnswersAccounted ==
  \A c \in Clients :
    kNumWorkers * Handled(c) =
      source[c] + Cardinality({w \in Workers : busy[w] = c}) + sink[c]
        + AnswersOf(c, groups_) + AnswersOf(c, summed)

(* The clients the maps do not tell apart get a response for each of their   *)
(* timers that ran out and one for every kNumWorkers answers, no more and no *)
(* fewer, and as long as none of their timers has run out every sum has      *)
(* kNumWorkers answers.                                                      *)
Fired(c) ==
  Handled(c) - Cardinality({id \in DOMAIN timer_event_handlers_ : timer_event_handlers_[id].x_ = c})

ResponsesAccounted ==
  \A k \in {Key(c) : c \in Clients} :
    LET class == {c \in Clients : Key(c) = k}
        Of(f) == SumOver(class, f)
        added == Of([c \in Clients |-> SumOver(Clients, summed[c])])
        fired == Of([c \in Clients |-> Fired(c)])
    IN /\ Of(replies) = fired + (added + SumOver(Clients, groups_[k])) \div kNumWorkers
       /\ fired = 0 => added = kNumWorkers * Of(replies)

(* Every request is answered, even if no worker ever answers. *)
RequestAnswered ==
  \A c \in Clients : \A n \in 1..MaxRequests : asked[c] >= n ~> replies[c] >= n

(* group_by.h:19-28: ending group 0 flushes what was pushed for 0 and leaves *)
(* what was pushed for 1.  Here the groups are the clients: a response to a  *)
(* client adds up answers to that client's requests only.                    *)
GroupsSeparate == \A c, d \in Clients : c # d => summed[c][d] = 0
=============================================================================
