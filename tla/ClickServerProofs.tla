-------------------------- MODULE ClickServerProofs --------------------------
(***************************************************************************)
(* Proofs about ClickServer, for any number of clients, workers and        *)
(* requests: whatever timers the handlers register and free while the      *)
(* driver's loop runs, handlers and poll items stay in step, and no        *)
(* handler is called without its event.  And whatever the workers' delays, *)
(* every answer is at one place or in one response, and the responses are  *)
(* as many as the answers and the timers account for.                      *)
(***************************************************************************)
EXTENDS ClickServer, SequenceTheorems, FiniteSetTheorems, WellFoundedInduction, TLAPS

-----------------------------------------------------------------------------
(* The inductive invariant.                                                *)

Handlers == {FromWorkers, In} \cup {TimerHandler(id) : id \in Nat}
Items == [socket : {"sink", "router", "nullptr"}, fd : Nat]

Types ==
  /\ event_handlers_ \in Seq(Handlers) /\ event_handlers \in Seq(Handlers)
  /\ pollitems_ \in Seq(Items) /\ pollitems \in Seq([item : Items, revents : BOOLEAN])
  /\ router \in [Clients -> Nat] /\ sink \in [Clients -> Nat]

(* The ids of the timers are older than the next one, and each has a         *)
(* descriptor of its own.                                                    *)
TimersOpen ==
  /\ timer_id_ \in Nat
  /\ DOMAIN timer_event_handlers_ \subseteq 0..(timer_id_ - 1)
  /\ \A id \in DOMAIN timer_event_handlers_ : fd(id) \in Nat \ {0}
  /\ \A i, j \in DOMAIN timer_event_handlers_ : fd(i) = fd(j) => i = j

(* Poll items are in step with handlers, in the members and in Run's vectors. *)
Aligned ==
  /\ Len(event_handlers_) = Len(pollitems_)
  /\ Len(event_handlers) = Len(pollitems)
  /\ \A i \in 1..Len(event_handlers_) : pollitems_[i] = PollitemOf(event_handlers_[i])
  /\ \A i \in 1..Len(event_handlers) : pollitems[i].item = PollitemOf(event_handlers[i])

(* Every handler that lives is in one of the two, and no other is...         *)
Registered ==
  /\ \A i \in 1..Len(event_handlers_) : event_handlers_[i] \in LiveHandlers
  /\ \A i \in 1..Len(event_handlers) : event_handlers[i] \in LiveHandlers
  /\ \A h \in LiveHandlers : \/ \E i \in 1..Len(event_handlers_) : event_handlers_[i] = h
                             \/ \E i \in 1..Len(event_handlers) : event_handlers[i] = h

(* ... at one place.                                                         *)
Once ==
  /\ \A i, j \in 1..Len(event_handlers_) : event_handlers_[i] = event_handlers_[j] => i = j
  /\ \A i, j \in 1..Len(event_handlers) : event_handlers[i] = event_handlers[j] => i = j
  /\ \A i \in 1..Len(event_handlers_), j \in 1..Len(event_handlers) :
       event_handlers_[i] # event_handlers[j]

(* Run's vectors are empty when the loop polls.                              *)
InLoop == pos \in 0..(Len(pollitems) + 1) /\ (pos = 0 => Len(pollitems) = 0)

Inv == Types /\ TimersOpen /\ Aligned /\ Registered /\ Once /\ InLoop /\ NoSpuriousRun

-----------------------------------------------------------------------------
(* Facts about sequences and the items of handlers.                        *)

LEMMA AppendFacts ==
  ASSUME NEW S, NEW s \in Seq(S), NEW x \in S
  PROVE  /\ Append(s, x) \in Seq(S) /\ Len(s) \in Nat /\ Len(Append(s, x)) = Len(s) + 1
         /\ \A i \in 1..Len(s) : Append(s, x)[i] = s[i]
         /\ Append(s, x)[Len(s) + 1] = x
OBVIOUS

LEMMA ConcatFacts ==
  ASSUME NEW S, NEW s \in Seq(S), NEW t \in Seq(S)
  PROVE  /\ s \o t \in Seq(S) /\ Len(s) \in Nat /\ Len(t) \in Nat
         /\ Len(s \o t) = Len(s) + Len(t)
         /\ \A i \in 1..Len(s) : (s \o t)[i] = s[i]
         /\ \A i \in 1..Len(t) : (s \o t)[Len(s) + i] = t[i]
         /\ \A i \in 1..(Len(s) + Len(t)) :
              i \in 1..Len(s) \/ \E j \in 1..Len(t) : i = Len(s) + j
<1>1. /\ s \o t \in Seq(S) /\ Len(s) \in Nat /\ Len(t) \in Nat
      /\ Len(s \o t) = Len(s) + Len(t)
      /\ \A i \in 1..Len(s) : (s \o t)[i] = s[i]
      /\ \A i \in 1..Len(t) : (s \o t)[Len(s) + i] = t[i]
      OBVIOUS
<1>2. ASSUME NEW i \in 1..(Len(s) + Len(t)), i \notin 1..Len(s)
      PROVE  \E j \in 1..Len(t) : i = Len(s) + j
  <2>1. i - Len(s) \in 1..Len(t) /\ i = Len(s) + (i - Len(s))
        BY <1>1, <1>2
  <2>2. QED  BY <2>1
<1>3. QED  BY <1>1, <1>2

LEMMA RemoveFacts ==
  ASSUME NEW S, NEW s \in Seq(S), NEW p \in 1..Len(s)
  PROVE  /\ RemoveAt(s, p) \in Seq(S) /\ Len(s) \in Nat \ {0}
         /\ Len(RemoveAt(s, p)) = Len(s) - 1
         /\ \A i \in 1..(Len(s) - 1) : RemoveAt(s, p)[i] = s[IF i < p THEN i ELSE i + 1]
<1>0. /\ p \in Int /\ Len(s) \in Int /\ \A i \in 1..(p - 1) : s[i] \in S
      /\ \A i \in (p + 1)..Len(s) : s[i] \in S
      OBVIOUS
<1>1. PICK a \in Seq(S) : a = SubSeq(s, 1, p - 1)
  <2>1. SubSeq(s, 1, p - 1) \in Seq(S)
        BY <1>0, SubSeqProperties
  <2>2. QED  BY <2>1
<1>2. PICK b \in Seq(S) : b = SubSeq(s, p + 1, Len(s))
  <2>1. SubSeq(s, p + 1, Len(s)) \in Seq(S)
        BY <1>0, SubSeqProperties
  <2>2. QED  BY <2>1
<1>3. /\ Len(s) \in Nat \ {0} /\ Len(a) = p - 1
      /\ \A i \in 1..(p - 1) : a[i] = s[i]
      BY <1>1
<1>4. /\ Len(b) = Len(s) - p
      /\ \A i \in 1..(Len(s) - p) : b[i] = s[p + i]
      BY <1>2
<1>5. RemoveAt(s, p) = a \o b
      BY <1>1, <1>2 DEF RemoveAt
<1>6. /\ a \o b \in Seq(S) /\ Len(a \o b) = Len(a) + Len(b)
      /\ \A i \in 1..Len(a) : (a \o b)[i] = a[i]
      /\ \A i \in 1..Len(b) : (a \o b)[Len(a) + i] = b[i]
      BY ConcatFacts
<1>7. ASSUME NEW i \in 1..(Len(s) - 1)
      PROVE  (a \o b)[i] = s[IF i < p THEN i ELSE i + 1]
  <2>1. CASE i < p
    <3>1. i \in 1..Len(a) /\ i \in 1..(p - 1)
          BY <1>3, <2>1
    <3>2. QED  BY <1>3, <1>6, <2>1, <3>1
  <2>2. CASE ~(i < p)
    <3>1. PICK j \in 1..Len(b) : i = Len(a) + j /\ p + j = i + 1
      <4>1. i - (p - 1) \in 1..Len(b) /\ i = Len(a) + (i - (p - 1)) /\ p + (i - (p - 1)) = i + 1
            BY <1>3, <1>4, <2>2
      <4>2. QED  BY <4>1
    <3>2. (a \o b)[i] = b[j] /\ b[j] = s[p + j]
          BY <1>4, <1>6, <3>1
    <3>3. QED  BY <2>2, <3>1, <3>2
  <2>3. QED  BY <2>1, <2>2
<1>8. QED  BY <1>3, <1>4, <1>5, <1>6, <1>7

LEMMA HandlerFacts ==
  /\ PollitemOf(FromWorkers) = SocketItem("sink") /\ PollitemOf(In) = SocketItem("router")
  /\ \A id : PollitemOf(TimerHandler(id)) = TimerItem(fd(id))
  /\ FromWorkers # In
  /\ \A id : TimerHandler(id) # FromWorkers /\ TimerHandler(id) # In
  /\ \A i, j : TimerHandler(i) = TimerHandler(j) => i = j
  /\ SocketItem("sink") # SocketItem("router")
  /\ \A n : TimerItem(n) # SocketItem("sink") /\ TimerItem(n) # SocketItem("router")
  /\ \A m, n : TimerItem(m) = TimerItem(n) => m = n
  /\ SocketItem("sink") \in Items /\ SocketItem("router") \in Items
  /\ \A n \in Nat : TimerItem(n) \in Items
BY DEF PollitemOf, FromWorkers, In, TimerHandler, SocketItem, TimerItem, Items

LEMMA LiveFacts ==
  \A h : h \in LiveHandlers <=>
        \/ h = FromWorkers \/ h = In
        \/ \E id \in DOMAIN timer_event_handlers_ : h = TimerHandler(id)
BY DEF LiveHandlers

(* Two handlers that live never share a poll item.                           *)
LEMMA ItemsDiffer ==
  ASSUME TimersOpen, NEW g \in LiveHandlers, NEW h \in LiveHandlers,
         PollitemOf(g) = PollitemOf(h)
  PROVE  g = h
BY HandlerFacts, LiveFacts DEF TimersOpen

LEMMA PendingFacts ==
  \A x : x \in Pending <=>
        \/ x = SocketItem("sink") /\ \E d \in Clients : sink[d] > 0
        \/ x = SocketItem("router") /\ \E d \in Clients : router[d] > 0
        \/ \E n \in expired : x = TimerItem(n)
BY DEF Pending

(* timerfd_create finds a descriptor that no timer has.                      *)
LEMMA NewFdFacts ==
  ASSUME TimersOpen
  PROVE  NewFd \in Nat \ {0} /\ NewFd \notin OpenFds
<1>1. IsFiniteSet(OpenFds)
  <2>1. IsFiniteSet(DOMAIN timer_event_handlers_)
    <3>1. timer_id_ - 1 \in Int /\ DOMAIN timer_event_handlers_ \subseteq 0..(timer_id_ - 1)
          BY DEF TimersOpen
    <3>2. IsFiniteSet(0..(timer_id_ - 1))
          BY <3>1, FS_Interval
    <3>3. QED  BY <3>1, <3>2, FS_Subset
  <2>2. PICK f : f = [id \in DOMAIN timer_event_handlers_ |-> fd(id)]
        OBVIOUS
  <2>3. f \in Surjection(DOMAIN timer_event_handlers_, OpenFds)
    <3>1. f \in [DOMAIN timer_event_handlers_ -> OpenFds]
          BY <2>2 DEF OpenFds
    <3>2. \A n \in OpenFds : \E id \in DOMAIN timer_event_handlers_ : f[id] = n
          BY <2>2 DEF OpenFds
    <3>3. QED  BY <3>1, <3>2 DEF Surjection
  <2>4. QED  BY <2>1, <2>3, FS_Surjection
<1>2. PICK c \in Nat : c = Cardinality(OpenFds)
      BY <1>1, FS_CardinalityType
<1>3. PICK k \in 1..(c + 1) : k \notin OpenFds
  <2>1. SUFFICES ASSUME 1..(c + 1) \subseteq OpenFds PROVE FALSE
        OBVIOUS
  <2>2. Cardinality(1..(c + 1)) <= c
        BY <1>1, <1>2, <2>1, FS_Subset
  <2>3. Cardinality(1..(c + 1)) = c + 1
        BY FS_Interval
  <2>4. QED  BY <2>2, <2>3
<1>4. PICK T : T = {n \in Nat \ {0} : n \notin OpenFds}
      OBVIOUS
<1>5. T \subseteq Nat /\ k \in T /\ T # {}
      BY <1>3, <1>4
<1>6. PICK n \in T : \A m \in T : ~(<<m, n>> \in OpToRel(<, Nat))
      BY <1>5, NatLessThanWellFounded, WFMin
<1>7. \A m \in T : ~(m < n)
      BY <1>5, <1>6 DEF OpToRel
<1>8. n \in 1..(c + 1) /\ n \notin OpenFds /\ \A m \in 1..(n - 1) : m \in OpenFds
      BY <1>3, <1>4, <1>5, <1>7
<1>9. \E x \in 1..(c + 1) : x \notin OpenFds /\ \A m \in 1..(x - 1) : m \in OpenFds
      BY <1>8
<1>10. NewFd \in 1..(c + 1) /\ NewFd \notin OpenFds
      BY <1>2, <1>9 DEF NewFd
<1>11. QED  BY <1>10

LEMMA InvInit == Init => Inv
<1> SUFFICES ASSUME Init PROVE Inv
    OBVIOUS
<1>1. /\ event_handlers_ = <<FromWorkers, In>>
      /\ pollitems_ = <<SocketItem("sink"), SocketItem("router")>>
      /\ event_handlers = << >> /\ pollitems = << >> /\ pos = 0
      /\ timer_event_handlers_ = << >> /\ timer_id_ = 0
      /\ router = Zero /\ sink = Zero
      BY DEF Init, DriverInit
<1>2. DOMAIN timer_event_handlers_ = {}
      BY <1>1
<1>3. Types
  <2>1. FromWorkers \in Handlers /\ In \in Handlers
        BY DEF Handlers
  <2>2. event_handlers_ \in Seq(Handlers) /\ event_handlers \in Seq(Handlers)
        BY <1>1, <2>1
  <2>3. pollitems_ \in Seq(Items) /\ pollitems \in Seq([item : Items, revents : BOOLEAN])
        BY <1>1, HandlerFacts
  <2>4. router \in [Clients -> Nat] /\ sink \in [Clients -> Nat]
        BY <1>1 DEF Zero
  <2>5. QED  BY <2>2, <2>3, <2>4 DEF Types
<1>4. TimersOpen
      BY <1>1, <1>2 DEF TimersOpen
<1>5. /\ Len(event_handlers_) = 2 /\ event_handlers_[1] = FromWorkers /\ event_handlers_[2] = In
      /\ Len(pollitems_) = 2 /\ Len(event_handlers) = 0 /\ Len(pollitems) = 0
      /\ pollitems_[1] = SocketItem("sink") /\ pollitems_[2] = SocketItem("router")
      BY <1>1
<1>6. Aligned
      BY <1>5, HandlerFacts DEF Aligned
<1>7. Registered
      BY <1>2, <1>5, LiveFacts DEF Registered
<1>8. Once
      BY <1>5, HandlerFacts DEF Once
<1>9. InLoop /\ NoSpuriousRun
      BY <1>1, <1>5 DEF InLoop, NoSpuriousRun
<1>10. QED  BY <1>3, <1>4, <1>6, <1>7, <1>8, <1>9 DEF Inv

-----------------------------------------------------------------------------
(* Steps that register and free nothing.                                   *)

(* An item stays an item as long as the timers do.                           *)
LEMMA ItemsStay ==
  ASSUME UNCHANGED timer_event_handlers_
  PROVE  /\ \A h : PollitemOf(h)' = PollitemOf(h)
         /\ LiveHandlers' = LiveHandlers
         /\ \A id : fd(id)' = fd(id)
BY DEF PollitemOf, LiveHandlers, fd

LEMMA VectorsStay ==
  ASSUME Inv, UNCHANGED <<event_handlers_, pollitems_, event_handlers, pollitems>>,
         UNCHANGED <<timer_event_handlers_, timer_id_>>,
         router' \in [Clients -> Nat], sink' \in [Clients -> Nat]
  PROVE  Types' /\ TimersOpen' /\ Aligned' /\ Registered' /\ Once'
<1>1. /\ \A h : PollitemOf(h)' = PollitemOf(h)
      /\ LiveHandlers' = LiveHandlers
      /\ \A id : fd(id)' = fd(id)
      BY ItemsStay
<1>2. Types'
      BY DEF Inv, Types
<1>3. TimersOpen'
      BY <1>1 DEF Inv, TimersOpen
<1>4. Aligned'
      BY <1>1 DEF Inv, Aligned
<1>5. Registered' /\ Once'
      BY <1>1 DEF Inv, Registered, Once
<1>6. QED  BY <1>2, <1>3, <1>4, <1>5

(* Clients, workers and the clock only add events.                           *)
LEMMA WorldSteps ==
  ASSUME Inv,
         \/ \E c \in Clients : Send(c)
         \/ \E w \in Workers, c \in Clients : Take(w, c)
         \/ \E w \in Workers : Answer(w)
         \/ \E id \in DOMAIN timer_event_handlers_ : Expire(id)
         \/ UNCHANGED vars
  PROVE  Inv'
<1>1. /\ UNCHANGED <<event_handlers_, pollitems_, event_handlers, pollitems, pos>>
      /\ UNCHANGED <<timer_event_handlers_, timer_id_>>
      /\ expired \subseteq expired'
      BY DEF Send, Take, Answer, Expire, vars, driverVars, timerVars
<1>2. router \in [Clients -> Nat] /\ sink \in [Clients -> Nat]
      BY DEF Inv, Types
<1>3. router' \in [Clients -> Nat] /\ \A d \in Clients : router[d] <= router'[d]
  <2>1. router' = router \/ \E c \in Clients : router' = [router EXCEPT ![c] = @ + 1]
        BY DEF Send, Take, Answer, Expire, vars, socketVars, Add
  <2>2. QED  BY <1>2, <2>1
<1>4. sink' \in [Clients -> Nat] /\ \A d \in Clients : sink[d] <= sink'[d]
  <2>1. sink' = sink \/ \E c : sink' = [sink EXCEPT ![c] = @ + 1]
        BY DEF Send, Take, Answer, Expire, vars, socketVars, send_enveloped_msg, Add
  <2>2. QED  BY <1>2, <2>1
<1>5. Types' /\ TimersOpen' /\ Aligned' /\ Registered' /\ Once'
      BY <1>1, <1>3, <1>4, VectorsStay
<1>6. InLoop'
      BY <1>1 DEF Inv, InLoop
<1>7. Pending \subseteq Pending'
  <2>1. \A d \in Clients : (router[d] > 0 => router'[d] > 0) /\ (sink[d] > 0 => sink'[d] > 0)
        BY <1>2, <1>3, <1>4
  <2>2. QED  BY <1>1, <2>1 DEF Pending, SocketItem, TimerItem
<1>8. NoSpuriousRun'
      BY <1>1, <1>7 DEF Inv, NoSpuriousRun
<1>9. QED  BY <1>5, <1>6, <1>8 DEF Inv

LEMMA SkipSteps ==
  ASSUME Inv, SkipHandler
  PROVE  Inv'
<1>1. /\ pos \in DOMAIN pollitems /\ pos' = pos + 1
      /\ UNCHANGED <<event_handlers_, pollitems_, event_handlers, pollitems>>
      /\ UNCHANGED <<timer_event_handlers_, timer_id_>>
      /\ UNCHANGED <<router, sink, expired>>
      BY DEF SkipHandler, Skip, timerVars, socketVars
<1>2. Types' /\ TimersOpen' /\ Aligned' /\ Registered' /\ Once'
  <2>1. router' \in [Clients -> Nat] /\ sink' \in [Clients -> Nat]
        BY <1>1 DEF Inv, Types
  <2>2. QED  BY <1>1, <2>1, VectorsStay
<1>3. Len(pollitems) \in Nat /\ pos \in 1..Len(pollitems)
      BY <1>1 DEF Inv, Types
<1>4. InLoop'
      BY <1>1, <1>3 DEF InLoop
<1>5. Pending' = Pending
      BY <1>1 DEF Pending
<1>6. NoSpuriousRun'
  <2>1. \A i \in (pos + 1)..Len(pollitems) : i \in pos..Len(pollitems)
        BY <1>3
  <2>2. QED  BY <1>1, <1>3, <1>5, <2>1 DEF Inv, NoSpuriousRun
<1>7. QED  BY <1>2, <1>4, <1>6 DEF Inv

(* A handler that is not one-off consumes its own event only.                *)
LEMMA FromWorkersSteps ==
  ASSUME Inv, NEW c \in Clients, RunFromWorkers(c)
  PROVE  Inv'
<1>1. /\ pos \in DOMAIN pollitems /\ pos' = pos + 1 /\ event_handlers[pos] = FromWorkers
      /\ UNCHANGED <<event_handlers_, pollitems_, event_handlers, pollitems>>
      /\ UNCHANGED <<timer_event_handlers_, timer_id_>>
      /\ UNCHANGED <<router, expired>>
      /\ sink[c] > 0 /\ sink' = [sink EXCEPT ![c] = @ + (-1)]
      BY DEF RunFromWorkers, Triggered, AfterRun, timerVars, recv_enveloped_msg, Add
<1>2. Types' /\ TimersOpen' /\ Aligned' /\ Registered' /\ Once'
  <2>1. router' \in [Clients -> Nat] /\ sink' \in [Clients -> Nat]
        BY <1>1 DEF Inv, Types
  <2>2. QED  BY <1>1, <2>1, VectorsStay
<1>3. Len(pollitems) \in Nat /\ pos \in 1..Len(pollitems) /\ Len(event_handlers) = Len(pollitems)
      BY <1>1 DEF Inv, Types, Aligned
<1>4. InLoop'
      BY <1>1, <1>3 DEF InLoop
<1>5. \A x \in Pending : x # SocketItem("sink") => x \in Pending'
      BY <1>1 DEF Pending, SocketItem, TimerItem
<1>6. ASSUME NEW i \in (pos + 1)..Len(pollitems), pollitems[i].revents
      PROVE  pollitems[i].item \in Pending'
  <2>1. i \in pos..Len(pollitems) /\ i \in 1..Len(pollitems) /\ i # pos /\ pos # 0
        BY <1>3
  <2>2. pollitems[i].item \in Pending
        BY <1>6, <2>1 DEF Inv, NoSpuriousRun
  <2>3. event_handlers[i] # FromWorkers
        BY <1>1, <1>3, <2>1 DEF Inv, Once
  <2>4. event_handlers[i] \in LiveHandlers /\ FromWorkers \in LiveHandlers
        BY <1>3, <2>1, LiveFacts DEF Inv, Registered
  <2>5. PollitemOf(event_handlers[i]) # PollitemOf(FromWorkers)
        BY <2>3, <2>4, ItemsDiffer DEF Inv
  <2>6. pollitems[i].item # SocketItem("sink")
        BY <1>3, <2>1, <2>5, HandlerFacts DEF Inv, Aligned
  <2>7. QED  BY <1>5, <2>2, <2>6
<1>7. NoSpuriousRun'
      BY <1>1, <1>6 DEF NoSpuriousRun
<1>8. QED  BY <1>2, <1>4, <1>7 DEF Inv

-----------------------------------------------------------------------------
(* The head and the tail of the loop: the handlers move as a whole.        *)

LEMMA PollSteps ==
  ASSUME Inv, PollEvents
  PROVE  Inv'
<1>1. /\ pos = 0 /\ pos' = 1 /\ event_handlers' = event_handlers_ /\ event_handlers_' = << >>
      /\ pollitems' = [i \in DOMAIN pollitems_ |->
                         [item |-> pollitems_[i], revents |-> pollitems_[i] \in Pending]]
      /\ pollitems_' = << >>
      /\ UNCHANGED <<timer_event_handlers_, timer_id_>>
      /\ UNCHANGED <<router, sink, expired>>
      BY DEF PollEvents, Poll, timerVars, socketVars
<1>2. /\ \A h : PollitemOf(h)' = PollitemOf(h)
      /\ LiveHandlers' = LiveHandlers
      /\ \A id : fd(id)' = fd(id)
      BY <1>1, ItemsStay
<1>3. /\ Len(event_handlers) = 0 /\ Len(event_handlers_) \in Nat
      /\ Len(pollitems_) = Len(event_handlers_)
      BY <1>1 DEF Inv, Types, InLoop, Aligned
<1>4. pollitems' \in Seq([item : Items, revents : BOOLEAN])
  <2>1. pollitems_ \in Seq(Items)
        BY DEF Inv, Types
  <2>2. ASSUME NEW i \in DOMAIN pollitems_
        PROVE  [item |-> pollitems_[i], revents |-> pollitems_[i] \in Pending]
                 \in [item : Items, revents : BOOLEAN]
    <3>1. pollitems_[i] \in Items
          BY <2>1
    <3>2. QED  BY <3>1
  <2>3. DOMAIN pollitems_ = 1..Len(pollitems_) /\ Len(pollitems_) \in Nat
        BY <2>1
  <2>4. pollitems' \in [1..Len(pollitems_) -> [item : Items, revents : BOOLEAN]]
        BY <1>1, <2>2, <2>3, Zenon
  <2>5. QED  BY <2>3, <2>4, SeqDef
<1>5. /\ Len(pollitems') = Len(pollitems_)
      /\ \A i \in 1..Len(pollitems_) : pollitems'[i].item = pollitems_[i]
      /\ \A i \in 1..Len(pollitems_) : pollitems'[i].revents => pollitems_[i] \in Pending
  <2>1. DOMAIN pollitems_ = 1..Len(pollitems_) /\ Len(pollitems_) \in Nat
        BY DEF Inv, Types
  <2>2. Len(pollitems') = Len(pollitems_)
        BY <1>1, <2>1
  <2>3. \A i \in 1..Len(pollitems_) :
          pollitems'[i] = [item |-> pollitems_[i], revents |-> pollitems_[i] \in Pending]
        BY <1>1, <2>1
  <2>4. ASSUME NEW i \in 1..Len(pollitems_)
        PROVE  /\ pollitems'[i].item = pollitems_[i]
               /\ pollitems'[i].revents => pollitems_[i] \in Pending
    <3>1. PICK x : x = pollitems_[i]
          OBVIOUS
    <3>2. PICK y : y = pollitems'[i]
          OBVIOUS
    <3>3. y = [item |-> x, revents |-> x \in Pending]
          BY <2>3, <3>1, <3>2
    <3>4. y.revents = (x \in Pending) /\ y.item = x
          BY <3>3
    <3>5. QED  BY <3>1, <3>2, <3>4, Zenon
  <2>5. QED  BY <2>2, <2>4
<1>6. Types'
  <2>1. << >> \in Seq(Handlers) /\ << >> \in Seq(Items)
        OBVIOUS
  <2>2. QED  BY <1>1, <1>4, <2>1 DEF Inv, Types
<1>7. TimersOpen'
      BY <1>1, <1>2 DEF Inv, TimersOpen
<1>8. Aligned'
      BY <1>1, <1>2, <1>3, <1>5 DEF Inv, Aligned
<1>9. Registered' /\ Once'
      BY <1>1, <1>2, <1>3 DEF Inv, Registered, Once
<1>10. InLoop'
      BY <1>1, <1>3, <1>5 DEF InLoop
<1>11. NoSpuriousRun'
  <2>1. Pending' = Pending
        BY <1>1 DEF Pending
  <2>2. ASSUME NEW i \in 1..Len(pollitems_), pollitems'[i].revents
        PROVE  pollitems'[i].item \in Pending'
        BY <1>5, <2>1, <2>2
  <2>3. \A i \in pos'..Len(pollitems') : i \in 1..Len(pollitems_)
        BY <1>1, <1>3, <1>5
  <2>4. QED  BY <2>2, <2>3 DEF NoSpuriousRun
<1>12. QED  BY <1>6, <1>7, <1>8, <1>9, <1>10, <1>11 DEF Inv

LEMMA FinishSteps ==
  ASSUME Inv, FinishRound
  PROVE  Inv'
<1>1. /\ pos' = 0 /\ event_handlers_' = event_handlers_ \o event_handlers
      /\ pollitems_' = pollitems_ \o [i \in DOMAIN pollitems |-> pollitems[i].item]
      /\ event_handlers' = << >> /\ pollitems' = << >>
      /\ UNCHANGED <<timer_event_handlers_, timer_id_>>
      /\ UNCHANGED <<router, sink, expired>>
      BY DEF FinishRound, EndRound, timerVars, socketVars
<1>2. /\ \A h : PollitemOf(h)' = PollitemOf(h)
      /\ LiveHandlers' = LiveHandlers
      /\ \A id : fd(id)' = fd(id)
      BY <1>1, ItemsStay
<1>3. PICK a \in Seq(Handlers), b \in Seq(Handlers) : a = event_handlers_ /\ b = event_handlers
      BY DEF Inv, Types
<1>4. PICK p \in Seq(Items), q \in Seq(Items) :
        p = pollitems_ /\ q = [i \in DOMAIN pollitems |-> pollitems[i].item]
  <2>1. pollitems \in Seq([item : Items, revents : BOOLEAN])
        BY DEF Inv, Types
  <2>2. [i \in DOMAIN pollitems |-> pollitems[i].item] \in Seq(Items)
    <3>1. DOMAIN pollitems = 1..Len(pollitems) /\ Len(pollitems) \in Nat
          BY <2>1
    <3>2. \A i \in 1..Len(pollitems) : pollitems[i].item \in Items
      <4>1. \A i \in 1..Len(pollitems) : pollitems[i] \in [item : Items, revents : BOOLEAN]
            BY <2>1, ElementOfSeq
      <4>2. QED  BY <4>1
    <3>3. [i \in DOMAIN pollitems |-> pollitems[i].item] \in [1..Len(pollitems) -> Items]
          BY <3>1, <3>2
    <3>4. QED  BY <3>1, <3>3, SeqDef
  <2>3. pollitems_ \in Seq(Items)
        BY DEF Inv, Types
  <2>4. QED  BY <2>2, <2>3
<1>5. /\ Len(p) = Len(a) /\ Len(q) = Len(b) /\ Len(a) \in Nat /\ Len(b) \in Nat
      /\ \A i \in 1..Len(a) : p[i] = PollitemOf(a[i])
      /\ \A i \in 1..Len(b) : q[i] = PollitemOf(b[i])
  <2>1. /\ Len(pollitems) \in Nat /\ DOMAIN pollitems = 1..Len(pollitems)
        /\ Len(a) \in Nat /\ Len(b) \in Nat
        BY DEF Inv, Types
  <2>2. Len(q) = Len(pollitems) /\ \A i \in 1..Len(pollitems) : q[i] = pollitems[i].item
        BY <1>4, <2>1
  <2>3. QED  BY <1>3, <1>4, <2>1, <2>2 DEF Inv, Aligned
<1>6. PICK c \in Seq(Handlers), r \in Seq(Items) : c = event_handlers_' /\ r = pollitems_'
  <2>1. a \o b \in Seq(Handlers) /\ p \o q \in Seq(Items)
        BY ConcatFacts
  <2>2. QED  BY <1>1, <1>3, <1>4, <2>1
<1>7. /\ Len(c) = Len(a) + Len(b) /\ Len(r) = Len(a) + Len(b)
      /\ \A i \in 1..Len(a) : c[i] = a[i] /\ r[i] = p[i]
      /\ \A i \in 1..Len(b) : c[Len(a) + i] = b[i] /\ r[Len(a) + i] = q[i]
      /\ \A i \in 1..Len(c) : i \in 1..Len(a) \/ \E j \in 1..Len(b) : i = Len(a) + j
  <2>1. c = a \o b /\ r = p \o q
        BY <1>1, <1>3, <1>4, <1>6
  <2>2. /\ Len(c) = Len(a) + Len(b)
        /\ \A i \in 1..Len(a) : c[i] = a[i]
        /\ \A i \in 1..Len(b) : c[Len(a) + i] = b[i]
        /\ \A i \in 1..(Len(a) + Len(b)) : i \in 1..Len(a) \/ \E j \in 1..Len(b) : i = Len(a) + j
        BY <2>1, ConcatFacts
  <2>3. /\ Len(r) = Len(p) + Len(q)
        /\ \A i \in 1..Len(p) : r[i] = p[i]
        /\ \A i \in 1..Len(q) : r[Len(p) + i] = q[i]
        BY <2>1, ConcatFacts
  <2>4. QED  BY <1>5, <2>2, <2>3
<1>8. \A i \in 1..Len(c) : r[i] = PollitemOf(c[i])
      BY <1>5, <1>7
<1>9. /\ \A i \in 1..Len(a) : a[i] \in LiveHandlers
      /\ \A i \in 1..Len(b) : b[i] \in LiveHandlers
      /\ \A h \in LiveHandlers : (\E i \in 1..Len(a) : a[i] = h) \/ \E i \in 1..Len(b) : b[i] = h
      /\ \A i, j \in 1..Len(a) : a[i] = a[j] => i = j
      /\ \A i, j \in 1..Len(b) : b[i] = b[j] => i = j
      /\ \A i \in 1..Len(a), j \in 1..Len(b) : a[i] # b[j]
      BY <1>3 DEF Inv, Registered, Once
<1>10. ASSUME NEW i \in 1..Len(c) PROVE c[i] \in LiveHandlers
  <2>1. CASE i \in 1..Len(a)
    <3>1. c[i] = a[i]
          BY <1>7, <2>1
    <3>2. QED  BY <1>9, <2>1, <3>1
  <2>2. CASE \E j \in 1..Len(b) : i = Len(a) + j
    <3>1. PICK j \in 1..Len(b) : i = Len(a) + j
          BY <2>2
    <3>2. c[i] = b[j]
          BY <1>7, <3>1
    <3>3. QED  BY <1>9, <3>2
  <2>3. QED  BY <1>7, <2>1, <2>2
<1>11. ASSUME NEW h \in LiveHandlers PROVE \E i \in 1..Len(c) : c[i] = h
  <2>1. \A i \in 1..Len(a) : i \in 1..Len(c)
        BY <1>5, <1>7
  <2>2. \A i \in 1..Len(b) : Len(a) + i \in 1..Len(c)
        BY <1>5, <1>7
  <2>3. CASE \E i \in 1..Len(a) : a[i] = h
        BY <1>7, <2>1, <2>3
  <2>4. CASE \E i \in 1..Len(b) : b[i] = h
    <3>1. PICK i \in 1..Len(b) : b[i] = h
          BY <2>4
    <3>2. c[Len(a) + i] = h
          BY <1>7, <3>1
    <3>3. QED  BY <2>2, <3>2
  <2>5. QED  BY <1>9, <2>3, <2>4
<1>12. ASSUME NEW i \in 1..Len(c), NEW j \in 1..Len(c), c[i] = c[j] PROVE i = j
  <2>1. CASE i \in 1..Len(a) /\ j \in 1..Len(a)
        BY <1>7, <1>9, <1>12, <2>1
  <2>2. ASSUME NEW k \in 1..Len(b), i = Len(a) + k PROVE i = j
    <3>1. c[i] = b[k]
          BY <1>7, <2>2
    <3>2. j \notin 1..Len(a)
          BY <1>7, <1>9, <1>12, <3>1
    <3>3. PICK l \in 1..Len(b) : j = Len(a) + l
          BY <1>7, <3>2
    <3>4. b[k] = b[l]
          BY <1>7, <1>12, <3>1, <3>3
    <3>5. QED  BY <1>9, <2>2, <3>3, <3>4
  <2>3. ASSUME NEW k \in 1..Len(b), j = Len(a) + k, i \in 1..Len(a) PROVE i = j
    <3>1. c[j] = b[k] /\ c[i] = a[i]
          BY <1>7, <2>3
    <3>2. QED  BY <1>9, <1>12, <2>3, <3>1
  <2>4. QED  BY <1>7, <2>1, <2>2, <2>3
<1>13. Types'
  <2>1. << >> \in Seq(Handlers) /\ << >> \in Seq([item : Items, revents : BOOLEAN])
        OBVIOUS
  <2>2. QED  BY <1>1, <1>6, <2>1 DEF Inv, Types
<1>14. TimersOpen'
      BY <1>1, <1>2 DEF Inv, TimersOpen
<1>15. Len(event_handlers') = 0 /\ Len(pollitems') = 0
      BY <1>1
<1>16. Aligned'
      BY <1>2, <1>6, <1>7, <1>8, <1>15 DEF Aligned
<1>17. Registered'
  <2>1. \A i \in 1..Len(c) : c[i] \in LiveHandlers'
        BY <1>2, <1>10
  <2>2. \A h \in LiveHandlers' : \E i \in 1..Len(c) : c[i] = h
        BY <1>2, <1>11
  <2>3. QED  BY <1>6, <1>15, <2>1, <2>2 DEF Registered
<1>18. Once'
      BY <1>6, <1>12, <1>15 DEF Once
<1>19. InLoop' /\ NoSpuriousRun'
      BY <1>1, <1>15 DEF InLoop, NoSpuriousRun
<1>20. QED  BY <1>13, <1>14, <1>16, <1>17, <1>18, <1>19 DEF Inv

-----------------------------------------------------------------------------
(* A handler that registers another, and one that frees itself.            *)

LEMMA InSteps ==
  ASSUME Inv, NEW c \in Clients, RunIn(c)
  PROVE  Inv'
<1>1. /\ pos \in DOMAIN pollitems /\ pos' = pos + 1 /\ event_handlers[pos] = In
      /\ UNCHANGED <<event_handlers, pollitems, sink, expired>>
      /\ router[c] > 0 /\ router' = [router EXCEPT ![c] = @ + (-1)]
      BY DEF RunIn, Triggered, AfterRun, TimerPush, recv_enveloped_msg, Add
<1>2. PICK k \in Nat, n \in Nat \ {0} : k = timer_id_ /\ n = NewFd /\ n \notin OpenFds
      BY NewFdFacts DEF Inv, TimersOpen
<1>3. PICK D : D = DOMAIN timer_event_handlers_
      OBVIOUS
<1>4. /\ timer_event_handlers_' = [id \in D \cup {k} |->
           IF id = k THEN [x_ |-> c, timerfd_ |-> n] ELSE timer_event_handlers_[id]]
      /\ timer_id_' = k + 1
      /\ event_handlers_' = Append(event_handlers_, TimerHandler(k))
      /\ pollitems_' = Append(pollitems_, TimerItem(n))
      BY <1>2, <1>3 DEF RunIn, TimerPush, RegisterEventHandler
<1>5. k \notin D /\ D \subseteq 0..(k - 1)
      BY <1>2, <1>3 DEF Inv, TimersOpen
<1>6. /\ DOMAIN timer_event_handlers_' = D \cup {k}
      /\ fd(k)' = n /\ \A id \in D : fd(id)' = fd(id)
      BY <1>4, <1>5 DEF fd
<1>7. \A id \in D : fd(id) # n
      BY <1>2, <1>3 DEF OpenFds
<1>8. TimersOpen'
  <2>1. timer_id_' \in Nat /\ D \cup {k} \subseteq 0..(timer_id_' - 1)
        BY <1>4, <1>5
  <2>2. \A id \in D \cup {k} : fd(id)' \in Nat \ {0}
        BY <1>3, <1>6 DEF Inv, TimersOpen
  <2>3. ASSUME NEW i \in D \cup {k}, NEW j \in D \cup {k}, fd(i)' = fd(j)'
        PROVE  i = j
        BY <1>3, <1>6, <1>7, <2>3 DEF Inv, TimersOpen
  <2>4. QED  BY <1>6, <2>1, <2>2, <2>3 DEF TimersOpen
<1>9. /\ \A h \in LiveHandlers : h \in LiveHandlers' /\ PollitemOf(h)' = PollitemOf(h)
      /\ TimerHandler(k) \in LiveHandlers' /\ TimerHandler(k) \notin LiveHandlers
      /\ PollitemOf(TimerHandler(k))' = TimerItem(n)
      /\ \A h \in LiveHandlers' : h \in LiveHandlers \/ h = TimerHandler(k)
  <2>1. \A h : h \in LiveHandlers' <=> h = FromWorkers \/ h = In
                 \/ \E id \in D \cup {k} : h = TimerHandler(id)
        BY <1>6 DEF LiveHandlers
  <2>2. \A h : h \in LiveHandlers <=> h = FromWorkers \/ h = In
                 \/ \E id \in D : h = TimerHandler(id)
        BY <1>3, LiveFacts
  <2>3. /\ PollitemOf(FromWorkers)' = PollitemOf(FromWorkers)
        /\ PollitemOf(In)' = PollitemOf(In)
        BY DEF PollitemOf, FromWorkers, In
  <2>4. \A id \in D \cup {k} : PollitemOf(TimerHandler(id))' = TimerItem(fd(id)')
        BY DEF PollitemOf, TimerHandler, fd
  <2>5. \A id \in D : PollitemOf(TimerHandler(id))' = PollitemOf(TimerHandler(id))
        BY <1>6, <2>4, HandlerFacts
  <2>6. TimerHandler(k) \notin LiveHandlers
        BY <1>5, <2>2, HandlerFacts
  <2>7. QED  BY <1>6, <2>1, <2>2, <2>3, <2>4, <2>5, <2>6
<1>10. PICK a \in Seq(Handlers), p \in Seq(Items) : a = event_handlers_ /\ p = pollitems_
      BY DEF Inv, Types
<1>11. TimerHandler(k) \in Handlers /\ TimerItem(n) \in Items
      BY HandlerFacts DEF Handlers
<1>12. PICK b \in Seq(Handlers), q \in Seq(Items) :
        /\ b = event_handlers_' /\ q = pollitems_'
        /\ Len(a) \in Nat /\ Len(b) = Len(a) + 1 /\ b[Len(a) + 1] = TimerHandler(k)
        /\ \A i \in 1..Len(a) : b[i] = a[i]
        /\ Len(q) = Len(p) + 1 /\ q[Len(p) + 1] = TimerItem(n)
        /\ \A i \in 1..Len(p) : q[i] = p[i]
  <2>1. PICK h \in Handlers, t \in Items : h = TimerHandler(k) /\ t = TimerItem(n)
        BY <1>11
  <2>2. /\ Append(a, h) \in Seq(Handlers) /\ Len(a) \in Nat /\ Len(Append(a, h)) = Len(a) + 1
        /\ \A i \in 1..Len(a) : Append(a, h)[i] = a[i]
        /\ Append(a, h)[Len(a) + 1] = h
        BY AppendFacts
  <2>3. /\ Append(p, t) \in Seq(Items) /\ Len(Append(p, t)) = Len(p) + 1
        /\ \A i \in 1..Len(p) : Append(p, t)[i] = p[i]
        /\ Append(p, t)[Len(p) + 1] = t
        BY AppendFacts
  <2>4. event_handlers_' = Append(a, h) /\ pollitems_' = Append(p, t)
        BY <1>4, <1>10, <2>1
  <2>5. QED  BY <2>1, <2>2, <2>3, <2>4
<1>13. \A i \in 1..Len(b) : i \in 1..Len(a) \/ i = Len(a) + 1
      BY <1>12
<1>14. /\ Len(a) = Len(p) /\ \A i \in 1..Len(a) : p[i] = PollitemOf(a[i])
       /\ \A i \in 1..Len(a) : a[i] \in LiveHandlers
       /\ \A i, j \in 1..Len(a) : a[i] = a[j] => i = j
      BY <1>10 DEF Inv, Aligned, Registered, Once
<1>15. Types'
  <2>1. router' \in [Clients -> Nat]
        BY <1>1 DEF Inv, Types
  <2>2. QED  BY <1>1, <1>12, <2>1 DEF Inv, Types
<1>16. Aligned'
  <2>1. PICK e : e = event_handlers
        OBVIOUS
  <2>2. ASSUME NEW i \in 1..Len(e) PROVE pollitems[i].item = PollitemOf(e[i])'
    <3>1. PICK h : h = e[i]
          OBVIOUS
    <3>2. h \in LiveHandlers /\ pollitems[i].item = PollitemOf(h)
          BY <2>1, <3>1 DEF Inv, Registered, Aligned
    <3>3. PollitemOf(h)' = PollitemOf(h)
          BY <1>9, <3>2
    <3>4. QED  BY <3>1, <3>2, <3>3
  <2>3. ASSUME NEW i \in 1..Len(b) PROVE q[i] = PollitemOf(b[i])'
    <3>1. CASE i \in 1..Len(a)
      <4>1. q[i] = p[i] /\ b[i] = a[i]
            BY <1>12, <1>14, <3>1
      <4>2. PollitemOf(a[i])' = PollitemOf(a[i])
            BY <1>9, <1>14, <3>1
      <4>3. PollitemOf(b[i])' = PollitemOf(a[i])'
            BY <4>1
      <4>4. QED  BY <1>14, <3>1, <4>1, <4>2, <4>3
    <3>2. CASE i = Len(a) + 1
      <4>1. q[i] = TimerItem(n) /\ b[i] = TimerHandler(k)
            BY <1>12, <1>14, <3>2
      <4>2. PollitemOf(b[i])' = PollitemOf(TimerHandler(k))'
            BY <4>1
      <4>3. QED  BY <1>9, <4>1, <4>2
    <3>3. QED  BY <1>13, <3>1, <3>2
  <2>4. Len(b) = Len(q) /\ Len(event_handlers) = Len(pollitems)
        BY <1>12, <1>14 DEF Inv, Aligned
  <2>5. QED  BY <1>1, <1>12, <2>1, <2>2, <2>3, <2>4 DEF Aligned
<1>17. Registered'
  <2>1. \A i \in 1..Len(b) : b[i] \in LiveHandlers'
        BY <1>9, <1>12, <1>13, <1>14
  <2>2. \A i \in 1..Len(event_handlers) : event_handlers[i] \in LiveHandlers'
        BY <1>9 DEF Inv, Registered
  <2>3. ASSUME NEW h \in LiveHandlers'
        PROVE  \/ \E i \in 1..Len(b) : b[i] = h
               \/ \E i \in 1..Len(event_handlers) : event_handlers[i] = h
    <3>1. CASE h = TimerHandler(k)
      <4>1. Len(a) + 1 \in 1..Len(b)
            BY <1>12
      <4>2. QED  BY <1>12, <3>1, <4>1
    <3>2. CASE h \in LiveHandlers
      <4>1. \/ \E i \in 1..Len(a) : a[i] = h
            \/ \E i \in 1..Len(event_handlers) : event_handlers[i] = h
            BY <1>10, <3>2 DEF Inv, Registered
      <4>2. \A i \in 1..Len(a) : i \in 1..Len(b)
            BY <1>12
      <4>3. QED  BY <1>12, <4>1, <4>2
    <3>3. QED  BY <1>9, <3>1, <3>2
  <2>4. QED  BY <1>1, <1>12, <2>1, <2>2, <2>3 DEF Registered
<1>18. Once'
  <2>1. \A i, j \in 1..Len(b) : b[i] = b[j] => i = j
        BY <1>9, <1>12, <1>13, <1>14
  <2>2. ASSUME NEW i \in 1..Len(b), NEW j \in 1..Len(event_handlers)
        PROVE  b[i] # event_handlers[j]
    <3>1. CASE i \in 1..Len(a)
          BY <1>10, <1>12, <3>1 DEF Inv, Once
    <3>2. CASE i = Len(a) + 1
          BY <1>9, <1>12, <3>2 DEF Inv, Registered
    <3>3. QED  BY <1>13, <3>1, <3>2
  <2>3. QED  BY <1>1, <1>12, <2>1, <2>2 DEF Inv, Once
<1>19. Len(pollitems) \in Nat /\ pos \in 1..Len(pollitems) /\ Len(event_handlers) = Len(pollitems)
      BY <1>1 DEF Inv, Types, Aligned
<1>20. InLoop'
      BY <1>1, <1>19 DEF InLoop
<1>21. \A x \in Pending : x # SocketItem("router") => x \in Pending'
      BY <1>1 DEF Pending, SocketItem, TimerItem
<1>22. ASSUME NEW i \in (pos + 1)..Len(pollitems), pollitems[i].revents
       PROVE  pollitems[i].item \in Pending'
  <2>1. i \in pos..Len(pollitems) /\ i \in 1..Len(pollitems) /\ i # pos /\ pos # 0
        BY <1>19
  <2>2. pollitems[i].item \in Pending
        BY <1>22, <2>1 DEF Inv, NoSpuriousRun
  <2>3. event_handlers[i] # In
        BY <1>1, <1>19, <2>1 DEF Inv, Once
  <2>4. event_handlers[i] \in LiveHandlers /\ In \in LiveHandlers
        BY <1>19, <2>1, LiveFacts DEF Inv, Registered
  <2>5. PollitemOf(event_handlers[i]) # PollitemOf(In)
        BY <2>3, <2>4, ItemsDiffer DEF Inv
  <2>6. pollitems[i].item # SocketItem("router")
        BY <1>19, <2>1, <2>5, HandlerFacts DEF Inv, Aligned
  <2>7. QED  BY <1>21, <2>2, <2>6
<1>23. NoSpuriousRun'
      BY <1>1, <1>22 DEF NoSpuriousRun
<1>24. QED  BY <1>8, <1>15, <1>16, <1>17, <1>18, <1>20, <1>23 DEF Inv

LEMMA TimerSteps ==
  ASSUME Inv, NEW id \in DOMAIN timer_event_handlers_, RunTimer(id)
  PROVE  Inv'
<1>1. /\ pos \in DOMAIN pollitems /\ pos' = pos /\ event_handlers[pos] = TimerHandler(id)
      /\ event_handlers' = RemoveAt(event_handlers, pos)
      /\ pollitems' = RemoveAt(pollitems, pos)
      /\ UNCHANGED <<event_handlers_, pollitems_, timer_id_, router, sink>>
      /\ expired' = expired \ {fd(id)}
      BY DEF RunTimer, Triggered, AfterRun, socketVars
<1>2. PICK D : D = DOMAIN timer_event_handlers_
      OBVIOUS
<1>3. /\ DOMAIN timer_event_handlers_' = D \ {id}
      /\ \A j \in D \ {id} : fd(j)' = fd(j)
      BY <1>2 DEF RunTimer, fd
<1>4. TimersOpen'
      BY <1>1, <1>2, <1>3 DEF Inv, TimersOpen
<1>5. /\ \A h : h \in LiveHandlers' <=> h \in LiveHandlers /\ h # TimerHandler(id)
      /\ \A h \in LiveHandlers' : PollitemOf(h)' = PollitemOf(h)
  <2>1. \A h : h \in LiveHandlers' <=> h = FromWorkers \/ h = In
                 \/ \E j \in D \ {id} : h = TimerHandler(j)
        BY <1>3 DEF LiveHandlers
  <2>2. \A h : h \in LiveHandlers <=> h = FromWorkers \/ h = In
                 \/ \E j \in D : h = TimerHandler(j)
        BY <1>2, LiveFacts
  <2>3. /\ PollitemOf(FromWorkers)' = PollitemOf(FromWorkers)
        /\ PollitemOf(In)' = PollitemOf(In)
        BY DEF PollitemOf, FromWorkers, In
  <2>4. \A j \in D : PollitemOf(TimerHandler(j))' = TimerItem(fd(j)')
        BY DEF PollitemOf, TimerHandler, fd
  <2>5. \A j \in D \ {id} : PollitemOf(TimerHandler(j))' = PollitemOf(TimerHandler(j))
        BY <1>3, <2>4, HandlerFacts
  <2>6. \A h : h \in LiveHandlers' <=> h \in LiveHandlers /\ h # TimerHandler(id)
        BY <2>1, <2>2, HandlerFacts
  <2>7. QED  BY <2>1, <2>3, <2>5, <2>6
<1>6. PICK b \in Seq(Handlers), q \in Seq([item : Items, revents : BOOLEAN]), p \in Nat :
        b = event_handlers /\ q = pollitems /\ p = pos
  <2>1. pos \in Nat
        BY DEF Inv, Types, InLoop
  <2>2. QED  BY <2>1 DEF Inv, Types
<1>7. Len(b) \in Nat /\ Len(q) = Len(b) /\ p \in 1..Len(b) /\ p \in 1..Len(q)
      BY <1>1, <1>6 DEF Inv, Aligned
<1>8. PICK c \in Seq(Handlers), r \in Seq([item : Items, revents : BOOLEAN]) :
        /\ c = event_handlers' /\ r = pollitems'
        /\ Len(c) = Len(b) - 1 /\ Len(r) = Len(b) - 1
        /\ \A i \in 1..(Len(b) - 1) : c[i] = b[IF i < p THEN i ELSE i + 1]
        /\ \A i \in 1..(Len(b) - 1) : r[i] = q[IF i < p THEN i ELSE i + 1]
  <2>1. /\ RemoveAt(b, p) \in Seq(Handlers) /\ Len(RemoveAt(b, p)) = Len(b) - 1
        /\ \A i \in 1..(Len(b) - 1) : RemoveAt(b, p)[i] = b[IF i < p THEN i ELSE i + 1]
        BY <1>7, RemoveFacts
  <2>2. PICK S : S = [item : Items, revents : BOOLEAN]
        OBVIOUS
  <2>3. q \in Seq(S)
        BY <2>2
  <2>4. /\ RemoveAt(q, p) \in Seq(S) /\ Len(RemoveAt(q, p)) = Len(q) - 1
        /\ \A i \in 1..(Len(q) - 1) : RemoveAt(q, p)[i] = q[IF i < p THEN i ELSE i + 1]
        BY <1>7, <2>3, RemoveFacts
  <2>5. event_handlers' = RemoveAt(b, p) /\ pollitems' = RemoveAt(q, p)
        BY <1>1, <1>6
  <2>6. QED  BY <1>7, <2>1, <2>2, <2>4, <2>5
<1>9. ASSUME NEW i \in 1..Len(c)
      PROVE  \E j \in 1..Len(b) : j # p /\ c[i] = b[j] /\ r[i] = q[j] /\ (i >= p => j > p)
                                   /\ j = IF i < p THEN i ELSE i + 1
  <2>1. i \in 1..(Len(b) - 1)
        BY <1>8
  <2>2. PICK j \in 1..Len(b) : j = (IF i < p THEN i ELSE i + 1) /\ j # p /\ (i >= p => j > p)
    <3>1. (IF i < p THEN i ELSE i + 1) \in 1..Len(b)
          BY <1>7, <2>1
    <3>2. QED  BY <1>7, <2>1, <3>1
  <2>3. c[i] = b[j] /\ r[i] = q[j]
        BY <1>8, <2>1, <2>2
  <2>4. QED  BY <2>2, <2>3
<1>10. /\ b[p] = TimerHandler(id)
       /\ \A i \in 1..Len(b) : b[i] \in LiveHandlers /\ q[i].item = PollitemOf(b[i])
       /\ \A i, j \in 1..Len(b) : b[i] = b[j] => i = j
      BY <1>1, <1>6 DEF Inv, Registered, Aligned, Once
<1>11. ASSUME NEW j \in 1..Len(b), j # p
       PROVE  /\ b[j] \in LiveHandlers' /\ q[j].item = PollitemOf(b[j])'
              /\ q[j].item # TimerItem(fd(id))
  <2>1. PICK h : h = b[j]
        OBVIOUS
  <2>2. h \in LiveHandlers /\ h # TimerHandler(id)
        BY <1>7, <1>10, <1>11, <2>1
  <2>3. h \in LiveHandlers' /\ PollitemOf(h)' = PollitemOf(h)
        BY <1>5, <2>2
  <2>4. TimerHandler(id) \in LiveHandlers
        BY LiveFacts
  <2>5. PollitemOf(h) # PollitemOf(TimerHandler(id))
        BY <2>2, <2>4, ItemsDiffer DEF Inv
  <2>6. PollitemOf(h) # TimerItem(fd(id))
        BY <2>5, HandlerFacts
  <2>7. q[j].item = PollitemOf(h)
        BY <1>10, <2>1
  <2>8. QED  BY <2>1, <2>3, <2>6, <2>7
<1>12. PICK a \in Seq(Handlers) : a = event_handlers_
      BY DEF Inv, Types
<1>13. /\ \A i \in 1..Len(a) : a[i] \in LiveHandlers /\ pollitems_[i] = PollitemOf(a[i])
       /\ \A i \in 1..Len(a) : a[i] # b[p]
       /\ \A i, j \in 1..Len(a) : a[i] = a[j] => i = j
       /\ \A i \in 1..Len(a), j \in 1..Len(b) : a[i] # b[j]
      BY <1>6, <1>7, <1>12 DEF Inv, Registered, Aligned, Once
<1>14. ASSUME NEW i \in 1..Len(a)
       PROVE  a[i] \in LiveHandlers' /\ pollitems_[i] = PollitemOf(a[i])'
  <2>1. PICK h : h = a[i]
        OBVIOUS
  <2>2. h \in LiveHandlers /\ h # TimerHandler(id) /\ pollitems_[i] = PollitemOf(h)
        BY <1>10, <1>13, <2>1
  <2>3. h \in LiveHandlers' /\ PollitemOf(h)' = PollitemOf(h)
        BY <1>5, <2>2
  <2>4. QED  BY <2>1, <2>2, <2>3
<1>15. ASSUME NEW i \in 1..Len(c)
       PROVE  c[i] \in LiveHandlers' /\ r[i].item = PollitemOf(c[i])'
  <2>1. PICK j \in 1..Len(b) : j # p /\ c[i] = b[j] /\ r[i] = q[j]
        BY <1>9
  <2>2. b[j] \in LiveHandlers' /\ q[j].item = PollitemOf(b[j])'
        BY <1>11, <2>1
  <2>3. PollitemOf(c[i])' = PollitemOf(b[j])'
        BY <2>1
  <2>4. QED  BY <2>1, <2>2, <2>3
<1>16. Types'
      BY <1>1, <1>8 DEF Inv, Types
<1>17. Aligned'
  <2>1. Len(a) = Len(pollitems_) /\ Len(c) = Len(r)
        BY <1>8, <1>12 DEF Inv, Aligned
  <2>2. QED  BY <1>1, <1>8, <1>12, <1>14, <1>15, <2>1 DEF Aligned
<1>18. Registered'
  <2>1. ASSUME NEW h \in LiveHandlers'
        PROVE  (\E i \in 1..Len(a) : a[i] = h) \/ \E i \in 1..Len(c) : c[i] = h
    <3>1. h \in LiveHandlers /\ h # b[p]
          BY <1>5, <1>10
    <3>2. (\E i \in 1..Len(a) : a[i] = h) \/ \E i \in 1..Len(b) : b[i] = h
          BY <1>6, <1>12, <3>1 DEF Inv, Registered
    <3>3. ASSUME NEW j \in 1..Len(b), b[j] = h
          PROVE  \E i \in 1..Len(c) : c[i] = h
      <4>1. j # p
            BY <3>1, <3>3
      <4>2. CASE j < p
        <5>1. j \in 1..(Len(b) - 1) /\ j \in 1..Len(c)
              BY <1>7, <1>8, <4>2
        <5>2. c[j] = b[j]
              BY <1>8, <4>2, <5>1
        <5>3. QED  BY <3>3, <5>1, <5>2
      <4>3. CASE j > p
        <5>1. PICK i \in 1..(Len(b) - 1) : i + 1 = j /\ ~(i < p)
          <6>1. j - 1 \in 1..(Len(b) - 1) /\ (j - 1) + 1 = j /\ ~(j - 1 < p)
                BY <1>7, <4>3
          <6>2. QED  BY <6>1
        <5>2. c[i] = b[j] /\ i \in 1..Len(c)
              BY <1>8, <5>1
        <5>3. QED  BY <3>3, <5>2
      <4>4. QED  BY <1>7, <4>1, <4>2, <4>3
    <3>4. QED  BY <3>2, <3>3
  <2>2. QED  BY <1>1, <1>8, <1>12, <1>14, <1>15, <2>1 DEF Registered
<1>19. Once'
  <2>1. ASSUME NEW i \in 1..Len(c), NEW j \in 1..Len(c), c[i] = c[j] PROVE i = j
    <3>1. PICK k \in 1..Len(b) : c[i] = b[k] /\ k = IF i < p THEN i ELSE i + 1
          BY <1>9
    <3>2. PICK l \in 1..Len(b) : c[j] = b[l] /\ l = IF j < p THEN j ELSE j + 1
          BY <1>9
    <3>3. k = l
          BY <1>10, <2>1, <3>1, <3>2
    <3>4. i \in Int /\ j \in Int
          OBVIOUS
    <3>5. QED  BY <3>1, <3>2, <3>3, <3>4
  <2>2. ASSUME NEW i \in 1..Len(a), NEW j \in 1..Len(c) PROVE a[i] # c[j]
    <3>1. PICK k \in 1..Len(b) : c[j] = b[k]
          BY <1>9
    <3>2. QED  BY <1>13, <3>1
  <2>3. QED  BY <1>1, <1>8, <1>12, <1>13, <2>1, <2>2 DEF Once
<1>20. InLoop'
      BY <1>1, <1>6, <1>7, <1>8 DEF InLoop
<1>21. \A x \in Pending : x # TimerItem(fd(id)) => x \in Pending'
      BY <1>1 DEF Pending
<1>22. ASSUME NEW i \in p..Len(r), r[i].revents
       PROVE  r[i].item \in Pending'
  <2>1. i \in 1..Len(c) /\ i >= p
        BY <1>7, <1>8
  <2>2. PICK j \in 1..Len(b) : j # p /\ r[i] = q[j] /\ j > p
        BY <1>9, <2>1
  <2>3. j \in p..Len(q) /\ p # 0 /\ q[j].revents
        BY <1>7, <1>22, <2>2
  <2>4. q[j].item \in Pending
        BY <1>6, <2>3 DEF Inv, NoSpuriousRun
  <2>5. q[j].item # TimerItem(fd(id))
        BY <1>11, <2>2
  <2>6. QED  BY <1>21, <2>2, <2>4, <2>5
<1>23. NoSpuriousRun'
      BY <1>1, <1>6, <1>8, <1>22 DEF NoSpuriousRun
<1>24. QED  BY <1>4, <1>16, <1>17, <1>18, <1>19, <1>20, <1>23 DEF Inv

LEMMA InvNext == Inv /\ [Next]_vars => Inv'
<1> SUFFICES ASSUME Inv, [Next]_vars PROVE Inv'
    OBVIOUS
<1>1. CASE PollEvents
      BY <1>1, PollSteps
<1>2. CASE SkipHandler
      BY <1>2, SkipSteps
<1>3. CASE FinishRound
      BY <1>3, FinishSteps
<1>4. CASE \E c \in Clients : RunFromWorkers(c)
      BY <1>4, FromWorkersSteps
<1>5. CASE \E c \in Clients : RunIn(c)
      BY <1>5, InSteps
<1>6. CASE \E id \in DOMAIN timer_event_handlers_ : RunTimer(id)
      BY <1>6, TimerSteps
<1>7. CASE \/ \E c \in Clients : Send(c)
           \/ \E w \in Workers, c \in Clients : Take(w, c)
           \/ \E w \in Workers : Answer(w)
           \/ \E id \in DOMAIN timer_event_handlers_ : Expire(id)
           \/ UNCHANGED vars
      BY <1>7, WorldSteps
<1>8. QED  BY <1>1, <1>2, <1>3, <1>4, <1>5, <1>6, <1>7 DEF Next, DriverStep

LEMMA Invariance == Spec => []Inv
BY InvInit, InvNext, PTL DEF Spec

-----------------------------------------------------------------------------
(* event_handler.h:20-22, driver.cc:19-33: while the loop calls the handlers *)
(* the poll found, earlier ones take messages, free themselves and shift the *)
(* rest; still no handler is called whose event is gone, so Run's recv never *)
(* blocks the driver's thread.                                               *)
THEOREM RunsNotSpurious == Spec => []NoSpuriousRun
BY Invariance, PTL DEF Inv

LEMMA HandlersMatch == Inv => HandlersPolled
<1> SUFFICES ASSUME Inv PROVE HandlersPolled
    OBVIOUS
<1>1. PICK a \in Seq(Handlers), b \in Seq(Handlers) : a = event_handlers_ /\ b = event_handlers
      BY DEF Inv, Types
<1>2. PICK p \in Seq(Items), q \in Seq(Items) :
        /\ p = pollitems_ /\ q = [i \in DOMAIN pollitems |-> pollitems[i].item]
        /\ Len(p) = Len(a) /\ Len(q) = Len(b)
        /\ \A i \in 1..Len(a) : p[i] = PollitemOf(a[i])
        /\ \A i \in 1..Len(b) : q[i] = PollitemOf(b[i])
  <2>1. pollitems \in Seq([item : Items, revents : BOOLEAN]) /\ pollitems_ \in Seq(Items)
        BY DEF Inv, Types
  <2>2. DOMAIN pollitems = 1..Len(pollitems) /\ Len(pollitems) \in Nat
        BY <2>1
  <2>3. \A i \in 1..Len(pollitems) : pollitems[i].item \in Items
    <3>1. \A i \in 1..Len(pollitems) : pollitems[i] \in [item : Items, revents : BOOLEAN]
          BY <2>1, ElementOfSeq
    <3>2. QED  BY <3>1
  <2>4. PICK q : q = [i \in 1..Len(pollitems) |-> pollitems[i].item]
        OBVIOUS
  <2>5. q \in Seq(Items) /\ Len(q) = Len(pollitems)
    <3>1. q \in [1..Len(pollitems) -> Items]
          BY <2>3, <2>4
    <3>2. q \in Seq(Items)
          BY <2>2, <3>1, SeqDef
    <3>3. QED  BY <2>2, <2>4, <3>2
  <2>6. \A i \in 1..Len(pollitems) : q[i] = pollitems[i].item
        BY <2>4
  <2>7. /\ Len(pollitems_) = Len(a) /\ Len(pollitems) = Len(b)
        /\ \A i \in 1..Len(a) : pollitems_[i] = PollitemOf(a[i])
        /\ \A i \in 1..Len(b) : pollitems[i].item = PollitemOf(b[i])
        BY <1>1 DEF Inv, Aligned
  <2>8. q = [i \in DOMAIN pollitems |-> pollitems[i].item]
        BY <2>2, <2>4
  <2>9. QED  BY <2>1, <2>5, <2>6, <2>7, <2>8
<1>3. PICK c \in Seq(Handlers), r \in Seq(Items) : c = a \o b /\ r = p \o q
  <2>1. a \o b \in Seq(Handlers) /\ p \o q \in Seq(Items)
        BY ConcatFacts
  <2>2. QED  BY <2>1
<1>4. /\ Len(c) \in Nat /\ Len(c) = Len(a) + Len(b) /\ Len(r) = Len(c)
      /\ \A i \in 1..Len(a) : c[i] = a[i] /\ r[i] = p[i] /\ i \in 1..Len(c)
      /\ \A i \in 1..Len(b) : c[Len(a) + i] = b[i] /\ r[Len(a) + i] = q[i]
                                /\ Len(a) + i \in 1..Len(c)
      /\ \A i \in 1..Len(c) : i \in 1..Len(a) \/ \E j \in 1..Len(b) : i = Len(a) + j
  <2>1. /\ Len(a) \in Nat /\ Len(b) \in Nat /\ Len(c) = Len(a) + Len(b)
        /\ \A i \in 1..Len(a) : c[i] = a[i]
        /\ \A i \in 1..Len(b) : c[Len(a) + i] = b[i]
        /\ \A i \in 1..(Len(a) + Len(b)) : i \in 1..Len(a) \/ \E j \in 1..Len(b) : i = Len(a) + j
        BY <1>3, ConcatFacts
  <2>2. /\ Len(r) = Len(p) + Len(q)
        /\ \A i \in 1..Len(p) : r[i] = p[i]
        /\ \A i \in 1..Len(q) : r[Len(p) + i] = q[i]
        BY <1>3, ConcatFacts
  <2>3. Len(c) \in Nat /\ Len(r) = Len(c)
        BY <1>2, <2>1, <2>2
  <2>4. \A i \in 1..Len(a) : i \in 1..Len(c)
        BY <2>1
  <2>5. \A i \in 1..Len(b) : Len(a) + i \in 1..Len(c)
        BY <2>1
  <2>6. QED  BY <1>2, <2>1, <2>2, <2>3, <2>4, <2>5
<1>5. /\ \A i \in 1..Len(a) : a[i] \in LiveHandlers
      /\ \A i \in 1..Len(b) : b[i] \in LiveHandlers
      /\ \A h \in LiveHandlers : (\E i \in 1..Len(a) : a[i] = h) \/ \E i \in 1..Len(b) : b[i] = h
      /\ \A i, j \in 1..Len(a) : a[i] = a[j] => i = j
      /\ \A i, j \in 1..Len(b) : b[i] = b[j] => i = j
      /\ \A i \in 1..Len(a), j \in 1..Len(b) : a[i] # b[j]
      BY <1>1 DEF Inv, Registered, Once
<1>6. ASSUME NEW i \in 1..Len(c)
      PROVE  c[i] \in LiveHandlers /\ r[i] = PollitemOf(c[i])
  <2>1. CASE i \in 1..Len(a)
    <3>1. c[i] = a[i] /\ r[i] = p[i]
          BY <1>4, <2>1
    <3>2. QED  BY <1>2, <1>5, <2>1, <3>1
  <2>2. CASE \E j \in 1..Len(b) : i = Len(a) + j
    <3>1. PICK j \in 1..Len(b) : i = Len(a) + j
          BY <2>2
    <3>2. c[i] = b[j] /\ r[i] = q[j]
          BY <1>4, <3>1
    <3>3. QED  BY <1>2, <1>5, <3>2
  <2>3. QED  BY <1>4, <2>1, <2>2
<1>7. ASSUME NEW h \in LiveHandlers PROVE \E i \in 1..Len(c) : c[i] = h
  <2>1. CASE \E i \in 1..Len(a) : a[i] = h
    <3>1. PICK i \in 1..Len(a) : a[i] = h
          BY <2>1
    <3>2. c[i] = h /\ i \in 1..Len(c)
          BY <1>4, <3>1
    <3>3. QED  BY <3>2
  <2>2. CASE \E i \in 1..Len(b) : b[i] = h
    <3>1. PICK i \in 1..Len(b) : b[i] = h
          BY <2>2
    <3>2. c[Len(a) + i] = h /\ Len(a) + i \in 1..Len(c)
          BY <1>4, <3>1
    <3>3. QED  BY <3>2
  <2>3. QED  BY <1>5, <2>1, <2>2
<1>8. ASSUME NEW i \in 1..Len(c), NEW j \in 1..Len(c), c[i] = c[j] PROVE i = j
  <2>1. CASE i \in 1..Len(a) /\ j \in 1..Len(a)
        BY <1>4, <1>5, <1>8, <2>1
  <2>2. ASSUME NEW k \in 1..Len(b), i = Len(a) + k PROVE i = j
    <3>1. c[i] = b[k]
          BY <1>4, <2>2
    <3>2. ASSUME j \in 1..Len(a) PROVE FALSE
      <4>1. c[j] = a[j]
            BY <1>4, <3>2
      <4>2. QED  BY <1>5, <1>8, <3>1, <3>2, <4>1
    <3>3. PICK l \in 1..Len(b) : j = Len(a) + l
          BY <1>4, <3>2
    <3>4. b[k] = b[l]
          BY <1>4, <1>8, <3>1, <3>3
    <3>5. QED  BY <1>5, <2>2, <3>3, <3>4
  <2>3. ASSUME NEW k \in 1..Len(b), j = Len(a) + k, i \in 1..Len(a) PROVE i = j
    <3>1. c[j] = b[k] /\ c[i] = a[i]
          BY <1>4, <2>3
    <3>2. QED  BY <1>5, <1>8, <2>3, <3>1
  <2>4. QED  BY <1>4, <2>1, <2>2, <2>3
<1>9. DOMAIN c = 1..Len(c)
      OBVIOUS
<1>10. {c[i] : i \in DOMAIN c} = LiveHandlers
      BY <1>6, <1>7, <1>9
<1>11. Len(c) = Cardinality(LiveHandlers)
  <2>1. c \in Bijection(1..Len(c), LiveHandlers)
    <3>1. c \in [1..Len(c) -> LiveHandlers]
          BY <1>6, <1>9
    <3>2. c \in Injection(1..Len(c), LiveHandlers)
          BY <1>8, <3>1 DEF Injection, IsInjective
    <3>3. c \in Surjection(1..Len(c), LiveHandlers)
          BY <1>7, <3>1 DEF Surjection
    <3>4. QED  BY <3>2, <3>3 DEF Bijection
  <2>2. IsFiniteSet(1..Len(c)) /\ Cardinality(1..Len(c)) = Len(c)
        BY <1>4, FS_Interval
  <2>3. Cardinality(LiveHandlers) = Cardinality(1..Len(c))
        BY <2>1, <2>2, FS_Bijection DEF ExistsBijection
  <2>4. QED  BY <2>2, <2>3
<1>12. /\ Len(event_handlers_) = Len(pollitems_)
       /\ c = event_handlers_ \o event_handlers
       /\ r = pollitems_ \o [i \in DOMAIN pollitems |-> pollitems[i].item]
      BY <1>1, <1>2, <1>3
<1>13. /\ Len(c) = Len(r) /\ \A i \in DOMAIN c : r[i] = PollitemOf(c[i])
      BY <1>4, <1>6, <1>9
<1>14. QED  BY <1>10, <1>11, <1>12, <1>13 DEF HandlersPolled

(* driver.h:46-47, driver.cc:35-37: pollitems_[i] stays the poll item of     *)
(* event_handlers_[i] however many timers are registered while the handlers  *)
(* run and freed by the loop, every handler that lives is polled exactly     *)
(* once, and a freed one never is.                                           *)
THEOREM HandlersInStep == Spec => []HandlersPolled
BY Invariance, HandlersMatch, PTL
-----------------------------------------------------------------------------
(* Induction over numbers and finite sets, with the predicate as a set.    *)

(* The element that a fold takes first.                                      *)
First(s) == CHOOSE x \in s : TRUE

LEMMA LeastNat ==
  ASSUME NEW N, N \subseteq Nat, N # {}
  PROVE  \E n \in N : n \in Nat /\ \A m \in N : m >= n
<1>1. PICK n \in N : \A m \in N : ~(<<m, n>> \in OpToRel(<, Nat))
      BY NatLessThanWellFounded, WFMin
<1>2. \A m \in N : ~(m < n)
      BY <1>1 DEF OpToRel
<1>3. QED  BY <1>2

LEMMA NatSetInduction ==
  ASSUME NEW T, T \subseteq Nat, 0 \in T, \A n \in T : n + 1 \in T
  PROVE  T = Nat
<1>1. SUFFICES ASSUME Nat \ T # {} PROVE FALSE
      OBVIOUS
<1>2. Nat \ T \subseteq Nat
      OBVIOUS
<1>3. PICK n \in Nat \ T : n \in Nat /\ \A m \in Nat \ T : m >= n
      BY <1>1, <1>2, LeastNat, Zenon
<1>4. n # 0 /\ n - 1 \in Nat /\ ~(n - 1 >= n) /\ (n - 1) + 1 = n
      BY <1>3
<1>5. n - 1 \in T
      BY <1>3, <1>4
<1>6. QED  BY <1>3, <1>4, <1>5

(* Induction over the subsets of a finite set, along the elements a fold takes. *)
LEMMA SubsetInduction ==
  ASSUME NEW S, IsFiniteSet(S), NEW T, {} \in T,
         \A s \in SUBSET S : s # {} /\ s \ {First(s)} \in T => s \in T
  PROVE  \A s \in SUBSET S : s \in T
<1>1. SUFFICES ASSUME NEW s \in SUBSET S, s \notin T PROVE FALSE
      OBVIOUS
<1>2. \A t \in SUBSET S : IsFiniteSet(t) /\ Cardinality(t) \in Nat
      BY FS_Subset, FS_CardinalityType
<1>3. PICK N : N = {n \in Nat : \E t \in SUBSET S : t \notin T /\ Cardinality(t) = n}
      OBVIOUS
<1>4. N \subseteq Nat /\ Cardinality(s) \in N
      BY <1>1, <1>2, <1>3
<1>5. PICK n \in N : n \in Nat /\ \A m \in N : m >= n
      BY <1>4, LeastNat, Zenon
<1>6. PICK t \in SUBSET S : t \notin T /\ Cardinality(t) = n
      BY <1>3, <1>5
<1>7. t # {} /\ First(t) \in t
  <2>1. t # {}
        BY <1>6
  <2>2. QED  BY <2>1 DEF First
<1>8. Cardinality(t \ {First(t)}) = n - 1 /\ t \ {First(t)} \in SUBSET S
      BY <1>2, <1>6, <1>7, FS_RemoveElement
<1>9. t \ {First(t)} \notin T
      BY <1>6, <1>7
<1>10. n \in Nat /\ n - 1 \in Nat /\ n - 1 \in N
      BY <1>2, <1>3, <1>4, <1>5, <1>6, <1>8, <1>9
<1>11. QED  BY <1>5, <1>10

(* The partial sums of f: of every subset of S, its elements taken in order. *)
PartialSums(g, f, S) ==
  g = [s \in SUBSET S |-> IF s = {} THEN 0 ELSE f[First(s)] + g[s \ {First(s)}]]

(* The same, of the subsets with at most n elements only.                    *)
SumsUpTo(g, f, S, n) ==
  g = [s \in {t \in SUBSET S : Cardinality(t) <= n} |->
         IF s = {} THEN 0 ELSE f[First(s)] + g[s \ {First(s)}]]

LEMMA SumsUpToNext ==
  ASSUME NEW S, IsFiniteSet(S), NEW f, NEW n \in Nat, NEW g, SumsUpTo(g, f, S, n)
  PROVE  \E h : SumsUpTo(h, f, S, n + 1)
<1> DEFINE D(m) == {t \in SUBSET S : Cardinality(t) <= m}
<1>1. \A s \in SUBSET S : IsFiniteSet(s) /\ Cardinality(s) \in Nat
      BY FS_Subset, FS_CardinalityType
<1>2. \A s \in SUBSET S : s # {} => /\ s \ {First(s)} \in SUBSET S
                                    /\ Cardinality(s \ {First(s)}) = Cardinality(s) - 1
  <2>1. \A s : s # {} => First(s) \in s
        BY DEF First
  <2>2. QED  BY <1>1, <2>1, FS_RemoveElement
<1>3. PICK h : h = [s \in D(n + 1) |-> IF s = {} THEN 0 ELSE f[First(s)] + g[s \ {First(s)}]]
      OBVIOUS
<1>4. \A s \in D(n) : s \in D(n + 1)
      BY <1>1
<1>5. \A s \in D(n) : g[s] = IF s = {} THEN 0 ELSE f[First(s)] + g[s \ {First(s)}]
      BY Zenon DEF SumsUpTo
<1>6. \A s \in D(n + 1) : h[s] = IF s = {} THEN 0 ELSE f[First(s)] + g[s \ {First(s)}]
      BY <1>3, Zenon
<1>7. \A s \in D(n) : h[s] = g[s]
      BY <1>4, <1>5, <1>6, Zenon
<1>8. \A s \in D(n + 1) : s # {} => s \ {First(s)} \in D(n)
      BY <1>1, <1>2
<1>9. \A s \in D(n + 1) : s # {} => h[s \ {First(s)}] = g[s \ {First(s)}]
      BY <1>7, <1>8, Zenon
<1>10. SumsUpTo(h, f, S, n + 1)
      BY <1>3, <1>9 DEF SumsUpTo
<1>11. QED  BY <1>10, Zenon

LEMMA PartialSumsExist ==
  ASSUME NEW S, IsFiniteSet(S), NEW f
  PROVE  \E g : PartialSums(g, f, S)
<1>1. \A s \in SUBSET S : IsFiniteSet(s) /\ Cardinality(s) \in Nat /\ Cardinality(s) <= Cardinality(S)
      BY FS_Subset, FS_CardinalityType
<1>2. PICK T : T = {n \in Nat : \E g : SumsUpTo(g, f, S, n)}
      OBVIOUS
<1>3. 0 \in T
  <2>1. \A s \in {t \in SUBSET S : Cardinality(t) <= 0} : s = {}
        BY <1>1, FS_EmptySet
  <2>2. PICK g : g = [s \in {t \in SUBSET S : Cardinality(t) <= 0} |-> 0]
        OBVIOUS
  <2>3. SumsUpTo(g, f, S, 0)
        BY <2>1, <2>2 DEF SumsUpTo
  <2>4. QED  BY <1>2, <2>3
<1>4. ASSUME NEW n \in T PROVE n + 1 \in T
  <2>1. n \in Nat /\ \E g : SumsUpTo(g, f, S, n)
        BY <1>2, Zenon
  <2>2. \E g : SumsUpTo(g, f, S, n + 1)
        BY <2>1, SumsUpToNext
  <2>3. n + 1 \in Nat
        BY <2>1
  <2>4. QED  BY <1>2, <2>2, <2>3, Zenon
<1>5. T = Nat
      BY <1>2, <1>3, <1>4, NatSetInduction
<1>6. PICK g : SumsUpTo(g, f, S, Cardinality(S))
      BY <1>1, <1>2, <1>5
<1>7. {t \in SUBSET S : Cardinality(t) <= Cardinality(S)} = SUBSET S
      BY <1>1
<1>8. PartialSums(g, f, S)
      BY <1>6, <1>7, Zenon DEF SumsUpTo, PartialSums
<1>9. QED  BY <1>8, Zenon

SumsTo(g, f, S) ==
  /\ SumOver(S, f) = g[S] /\ g[{}] = 0
  /\ \A s \in SUBSET S : s # {} => g[s] = f[First(s)] + g[s \ {First(s)}]

LEMMA SumOverSteps ==
  ASSUME NEW S, IsFiniteSet(S), NEW f
  PROVE  \E g : SumsTo(g, f, S)
<1>1. PICK g : g = CHOOSE h : PartialSums(h, f, S)
      OBVIOUS
<1>2. PartialSums(g, f, S)
      BY <1>1, PartialSumsExist, Zenon
<1>3. SumOver(S, f) = g[S]
      BY <1>1, Zenon DEF SumOver, FoldFunctionOnSet, MapThenFoldSet, PartialSums, First
<1>4. \A s \in SUBSET S : g[s] = IF s = {} THEN 0 ELSE f[First(s)] + g[s \ {First(s)}]
      BY <1>2, Zenon DEF PartialSums
<1>5. SumsTo(g, f, S)
      BY <1>3, <1>4 DEF SumsTo
<1>6. QED  BY <1>5, Zenon

(* Sums add.                                                                 *)
AddsUp(S, f, g, h) == \A x \in S : f[x] \in Int /\ g[x] \in Int /\ h[x] = f[x] + g[x]

LEMMA SumAdd ==
  ASSUME NEW S, IsFiniteSet(S), NEW f, NEW g, NEW h, AddsUp(S, f, g, h)
  PROVE  /\ SumOver(S, f) \in Int /\ SumOver(S, g) \in Int
         /\ SumOver(S, h) = SumOver(S, f) + SumOver(S, g)
<1>1. PICK a : SumsTo(a, f, S)
      BY SumOverSteps
<1>2. PICK b : SumsTo(b, g, S)
      BY SumOverSteps
<1>3. PICK c : SumsTo(c, h, S)
      BY SumOverSteps
<1>4. PICK T : T = {s \in SUBSET S : a[s] \in Int /\ b[s] \in Int /\ c[s] = a[s] + b[s]}
      OBVIOUS
<1>5. {} \in T
      BY <1>1, <1>2, <1>3, <1>4 DEF SumsTo
<1>6. ASSUME NEW s \in SUBSET S, s # {}, s \ {First(s)} \in T PROVE s \in T
  <2>1. PICK x \in S : x = First(s)
        BY <1>6 DEF First
  <2>2. a[s] = f[x] + a[s \ {x}] /\ b[s] = g[x] + b[s \ {x}] /\ c[s] = h[x] + c[s \ {x}]
        BY <1>1, <1>2, <1>3, <1>6, <2>1 DEF SumsTo
  <2>3. a[s \ {x}] \in Int /\ b[s \ {x}] \in Int /\ c[s \ {x}] = a[s \ {x}] + b[s \ {x}]
        BY <1>4, <1>6, <2>1
  <2>4. f[x] \in Int /\ g[x] \in Int /\ h[x] = f[x] + g[x]
        BY DEF AddsUp
  <2>5. a[s] \in Int /\ b[s] \in Int /\ c[s] = a[s] + b[s]
        BY <2>2, <2>3, <2>4
  <2>6. QED  BY <1>4, <2>5
<1>7. S \in T
      BY <1>5, <1>6, SubsetInduction
<1>8. QED  BY <1>1, <1>2, <1>3, <1>4, <1>7 DEF SumsTo

(* A sum whose only term that counts is n, at c.                             *)
LEMMA SumPoint ==
  ASSUME NEW S, IsFiniteSet(S), NEW f, NEW c, NEW n \in Int,
         \A x \in S : f[x] = IF x = c THEN n ELSE 0
  PROVE  SumOver(S, f) = IF c \in S THEN n ELSE 0
<1>1. PICK a : SumsTo(a, f, S)
      BY SumOverSteps
<1>2. PICK T : T = {s \in SUBSET S : a[s] = IF c \in s THEN n ELSE 0}
      OBVIOUS
<1>3. {} \in T
      BY <1>1, <1>2 DEF SumsTo
<1>4. ASSUME NEW s \in SUBSET S, s # {}, s \ {First(s)} \in T PROVE s \in T
  <2>1. PICK x \in S : x = First(s) /\ x \in s
        BY <1>4 DEF First
  <2>2. a[s] = f[x] + a[s \ {x}]
        BY <1>1, <1>4, <2>1 DEF SumsTo
  <2>3. a[s \ {x}] = IF c \in s /\ c # x THEN n ELSE 0
        BY <1>2, <1>4, <2>1
  <2>4. f[x] = IF x = c THEN n ELSE 0
        OBVIOUS
  <2>5. a[s] = IF c \in s THEN n ELSE 0
        BY <2>1, <2>2, <2>3, <2>4
  <2>6. QED  BY <1>2, <2>5
<1>5. S \in T
      BY <1>3, <1>4, SubsetInduction
<1>6. QED  BY <1>1, <1>2, <1>5 DEF SumsTo

LEMMA SumZero ==
  ASSUME NEW S, IsFiniteSet(S), NEW f, \A x \in S : f[x] = 0
  PROVE  SumOver(S, f) = 0
<1>1. \A x \in S : f[x] = IF x = 0 THEN 0 ELSE 0
      OBVIOUS
<1>2. SumOver(S, f) = IF 0 \in S THEN 0 ELSE 0
      BY <1>1, SumPoint
<1>3. QED  BY <1>2

(* The sum follows a change of one term, which may be outside S.             *)
ChangesAt(S, f, h, c, n) ==
  /\ \A x \in S : f[x] \in Int
  /\ \A x \in S : x # c => h[x] = f[x]
  /\ c \in S => h[c] = f[c] + n

LEMMA SumChange ==
  ASSUME NEW S, IsFiniteSet(S), NEW f, NEW h, NEW c, NEW n \in Int, ChangesAt(S, f, h, c, n)
  PROVE  /\ SumOver(S, f) \in Int
         /\ c \in S => SumOver(S, h) = SumOver(S, f) + n
         /\ c \notin S => SumOver(S, h) = SumOver(S, f)
<1>1. PICK g : g = [x \in S |-> IF x = c THEN n ELSE 0]
      OBVIOUS
<1>2. \A x \in S : g[x] \in Int /\ h[x] = f[x] + g[x] /\ g[x] = IF x = c THEN n ELSE 0
  <2>1. ASSUME NEW x \in S
        PROVE  g[x] \in Int /\ h[x] = f[x] + g[x] /\ g[x] = IF x = c THEN n ELSE 0
    <3>1. f[x] \in Int /\ g[x] = IF x = c THEN n ELSE 0
          BY <1>1 DEF ChangesAt
    <3>2. CASE x = c
          BY <3>1, <3>2 DEF ChangesAt
    <3>3. CASE x # c
          BY <3>1, <3>3 DEF ChangesAt
    <3>4. QED  BY <3>2, <3>3
  <2>2. QED  BY <2>1
<1>3. /\ SumOver(S, f) \in Int
      /\ SumOver(S, h) = SumOver(S, f) + SumOver(S, g)
  <2>1. AddsUp(S, f, g, h)
        BY <1>2 DEF AddsUp, ChangesAt
  <2>2. QED  BY <2>1, SumAdd
<1>4. SumOver(S, g) = IF c \in S THEN n ELSE 0
      BY <1>2, SumPoint
<1>5. QED  BY <1>3, <1>4

LEMMA SumNat ==
  ASSUME NEW S, IsFiniteSet(S), NEW f, \A x \in S : f[x] \in Nat
  PROVE  SumOver(S, f) \in Nat
<1>1. PICK a : SumsTo(a, f, S)
      BY SumOverSteps
<1>2. PICK T : T = {s \in SUBSET S : a[s] \in Nat}
      OBVIOUS
<1>3. {} \in T
      BY <1>1, <1>2 DEF SumsTo
<1>4. ASSUME NEW s \in SUBSET S, s # {}, s \ {First(s)} \in T PROVE s \in T
  <2>1. PICK x \in S : x = First(s)
        BY <1>4 DEF First
  <2>2. a[s] = f[x] + a[s \ {x}] /\ f[x] \in Nat /\ a[s \ {x}] \in Nat
        BY <1>1, <1>2, <1>4, <2>1 DEF SumsTo
  <2>3. QED  BY <1>2, <2>2
<1>5. S \in T
      BY <1>3, <1>4, SubsetInduction
<1>6. QED  BY <1>1, <1>2, <1>5 DEF SumsTo

LEMMA Quotient ==
  ASSUME NEW W \in Nat, W > 1, NEW p \in Nat, NEW q \in Nat, NEW r \in 0..(W - 1), NEW s \in 0..(W - 1),
         W * p + r = W * q + s
  PROVE  p = q /\ r = s
<1>1. ASSUME NEW x \in Nat, NEW y \in Nat, x < y PROVE W * x + W <= W * y
   <2>1. PICK z \in Nat : y = x + 1 + z
     <3>1. y - x - 1 \in Nat /\ y = x + 1 + (y - x - 1)
         BY <1>1
     <3>2. QED BY <3>1
   <2>2. W * y = W * x + W + W * z /\ W * z \in Nat /\ W * x \in Nat
      BY <2>1
   <2>3. QED BY <2>2
<1>2. W * p \in Nat /\ W * q \in Nat
  OBVIOUS
<1>3. CASE p < q
   BY <1>1, <1>2, <1>3
<1>4. CASE q < p
   BY <1>1, <1>2, <1>4
<1>5. CASE p = q
   BY <1>2, <1>5
<1>6. QED BY <1>3, <1>4, <1>5
(* Counting on, modulo W.                                                    *)
LEMMA DivMod ==
  ASSUME NEW W \in Nat, W > 1, NEW b \in Nat
  PROVE  /\ b \div W \in Nat /\ (b % W) \in 0..(W - 1) /\ b = W * (b \div W) + (b % W)
         /\ (b % W) + 1 = W => (b + 1) \div W = (b \div W) + 1 /\ (b + 1) % W = 0
         /\ (b % W) + 1 # W => (b + 1) \div W = b \div W /\ (b + 1) % W = (b % W) + 1
<1>1. /\ b \div W \in Nat /\ (b % W) \in 0..(W - 1) /\ b = W * (b \div W) + (b % W)
      OBVIOUS
<1>2. /\ (b + 1) \div W \in Nat /\ ((b + 1) % W) \in 0..(W - 1)
      /\ b + 1 = W * ((b + 1) \div W) + ((b + 1) % W)
      OBVIOUS
<1>3. PICK p \in Nat, r \in 0..(W - 1), q \in Nat, s \in 0..(W - 1) :
        p = b \div W /\ r = b % W /\ q = (b + 1) \div W /\ s = (b + 1) % W
      BY <1>1, <1>2
<1>4. W * q + s = W * p + r + 1 /\ W * p \in Nat /\ W * (p + 1) = W * p + W
      BY <1>1, <1>2, <1>3
<1>5. CASE r + 1 = W
  <2>1. W * q + s = W * (p + 1) + 0 /\ p + 1 \in Nat /\ 0 \in 0..(W - 1)
        BY <1>4, <1>5
  <2>2. q = p + 1 /\ s = 0
        BY <2>1, Quotient
  <2>3. QED  BY <1>1, <1>3, <1>5, <2>2
<1>6. CASE r + 1 # W
  <2>1. W * q + s = W * p + (r + 1) /\ r + 1 \in 0..(W - 1)
        BY <1>4, <1>6
  <2>2. q = p /\ s = r + 1
        BY <2>1, Quotient
  <2>3. QED  BY <1>1, <1>3, <1>6, <2>2
<1>7. QED  BY <1>5, <1>6

-----------------------------------------------------------------------------
(* The accounts: where the answers to a request are, and what the clients  *)
(* of a group have been sent.                                              *)

Amounts == [Clients -> Nat]
TimersOf(T, c) == {id \in DOMAIN T : T[id].x_ = c}
BusyWith(b, c) == {w \in Workers : b[w] = c}
Class(k) == {c \in Clients : Key(c) = k}
AddedTo(k, s) == SumOver(Class(k), [c \in Clients |-> SumOver(Clients, s[c])])
FiredOf(k) == SumOver(Class(k), [c \in Clients |-> Fired(c)])
Seen(k) == AddedTo(k, summed) + SumOver(Clients, groups_[k])

AccountTypes ==
  /\ asked \in Amounts /\ source \in Amounts /\ counts_ \in Amounts /\ replies \in Amounts
  /\ busy \in [Workers -> Clients \cup {NoClient}]
  /\ groups_ \in [Clients -> Amounts] /\ summed \in [Clients -> Amounts]
  /\ \A id \in DOMAIN timer_event_handlers_ : timer_event_handlers_[id].x_ \in Clients
  /\ \A c \in Clients : Fired(c) \in Nat

(* The Dedup's count is what the answers seen leave over after the last      *)
(* response that it caused, and as long as no timer has run out that is what *)
(* the group holds.                                                          *)
GroupCounts ==
  \A k \in Clients :
    /\ SumOver(Class(k), replies) = FiredOf(k) + (Seen(k) \div kNumWorkers)
    /\ counts_[k] = Seen(k) % kNumWorkers
    /\ FiredOf(k) = 0 => SumOver(Clients, groups_[k]) = counts_[k]

Accounts == AccountTypes /\ AnswersAccounted /\ GroupCounts

LEMMA ConstantFacts ==
  /\ IsFiniteSet(Clients) /\ NoClient \notin Clients
  /\ kNumWorkers \in Nat /\ kNumWorkers > 1
  /\ IsFiniteSet(Workers)
  /\ \A c \in Clients : Key(c) \in Clients
  /\ \A k : Class(k) \subseteq Clients /\ IsFiniteSet(Class(k))
  /\ \A k : \A c \in Clients : c \in Class(k) <=> Key(c) = k
<1>1. IsFiniteSet(Clients) /\ NoClient \notin Clients /\ kNumWorkers \in Nat /\ kNumWorkers > 1
      BY ClientsAssumption, kNumWorkersAssumption
<1>2. IsFiniteSet(Workers)
      BY <1>1, FS_Interval DEF Workers
<1>3. \A c \in Clients : Key(c) \in Clients
      BY DEF Key, ConnectionIdLess
<1>4. \A k : Class(k) \subseteq Clients
      BY DEF Class
<1>5. \A k : IsFiniteSet(Class(k))
      BY <1>1, <1>4, FS_Subset
<1>6. QED  BY <1>1, <1>2, <1>3, <1>4, <1>5 DEF Class

(* A worker takes a request or is done with one.                             *)
LEMMA BusyChange ==
  ASSUME NEW b \in [Workers -> Clients \cup {NoClient}], NEW w \in Workers,
         NEW t \in [Workers -> Clients \cup {NoClient}],
         NEW x, b[w] # x, t[w] = x, \A v \in Workers : v # w => t[v] = b[v], NEW d \in Clients
  PROVE  /\ Cardinality(BusyWith(b, d)) \in Nat
         /\ Cardinality(BusyWith(t, d)) =
              IF d = x THEN Cardinality(BusyWith(b, d)) + 1
              ELSE IF d = b[w] THEN Cardinality(BusyWith(b, d)) - 1
              ELSE Cardinality(BusyWith(b, d))
<1>1. IsFiniteSet(BusyWith(b, d))
  <2>1. BusyWith(b, d) \subseteq Workers
        BY DEF BusyWith
  <2>2. QED  BY <2>1, ConstantFacts, FS_Subset
<1>2. Cardinality(BusyWith(b, d)) \in Nat
      BY <1>1, FS_CardinalityType
<1>3. CASE d = x
  <2>1. w \notin BusyWith(b, d) /\ BusyWith(t, d) = BusyWith(b, d) \cup {w}
        BY <1>3 DEF BusyWith
  <2>2. Cardinality(BusyWith(t, d)) = Cardinality(BusyWith(b, d)) + 1
        BY <1>1, <2>1, FS_AddElement
  <2>3. QED  BY <1>2, <1>3, <2>2
<1>4. CASE d # x /\ d = b[w]
  <2>1. w \in BusyWith(b, d) /\ BusyWith(t, d) = BusyWith(b, d) \ {w}
        BY <1>4 DEF BusyWith
  <2>2. QED  BY <1>1, <1>2, <1>4, <2>1, FS_RemoveElement
<1>5. CASE d # x /\ d # b[w]
  <2>1. BusyWith(t, d) = BusyWith(b, d)
        BY <1>5 DEF BusyWith
  <2>2. QED  BY <1>2, <1>5, <2>1
<1>6. QED  BY <1>3, <1>4, <1>5

(* The groups, or the sums, change for one client.                           *)
LEMMA AnswersChange ==
  ASSUME NEW s \in [Clients -> Amounts], NEW k \in Clients, NEW g \in Amounts, NEW d \in Clients
  PROVE  /\ AnswersOf(d, s) \in Int
         /\ AnswersOf(d, [s EXCEPT ![k] = g]) = AnswersOf(d, s) + (g[d] - s[k][d])
<1>1. PICK t : t = [s EXCEPT ![k] = g]
      OBVIOUS
<1>2. PICK f, h : f = [c \in Clients |-> s[c][d]] /\ h = [c \in Clients |-> t[c][d]]
      OBVIOUS
<1>3. PICK n \in Int : n = g[d] - s[k][d]
  <2>1. g[d] - s[k][d] \in Int
        BY DEF Amounts
  <2>2. QED  BY <2>1
<1>4. ChangesAt(Clients, f, h, k, n)
      BY <1>1, <1>2, <1>3 DEF Amounts, ChangesAt
<1>5. SumOver(Clients, f) \in Int /\ SumOver(Clients, h) = SumOver(Clients, f) + n
  <2>1. IsFiniteSet(Clients)
        BY ConstantFacts
  <2>2. QED  BY <1>4, <2>1, SumChange
<1>6. QED  BY <1>1, <1>2, <1>3, <1>5 DEF AnswersOf

AddsGroup(s, t, c, g) ==
  /\ \A d \in Clients : t[c][d] = s[c][d] + g[d]
  /\ \A d \in Clients : d # c => t[d] = s[d]

LEMMA AddedChange ==
  ASSUME NEW s \in [Clients -> Amounts], NEW t \in [Clients -> Amounts],
         NEW c \in Clients, NEW g \in Amounts, NEW k \in Clients, AddsGroup(s, t, c, g)
  PROVE  /\ AddedTo(k, s) \in Nat
         /\ Key(c) = k => AddedTo(k, t) = AddedTo(k, s) + SumOver(Clients, g)
         /\ Key(c) # k => AddedTo(k, t) = AddedTo(k, s)
<1>1. PICK r \in Amounts : r = t[c]
      OBVIOUS
<1>2. \A d \in Clients : r[d] = s[c][d] + g[d]
      BY <1>1 DEF AddsGroup
<1>3. PICK f, h : /\ f = [d \in Clients |-> SumOver(Clients, s[d])]
                  /\ h = [d \in Clients |-> SumOver(Clients, t[d])]
      OBVIOUS
<1>4. ASSUME NEW a \in Amounts PROVE SumOver(Clients, a) \in Nat
      BY ConstantFacts, SumNat DEF Amounts
<1>5. \A d \in Clients : f[d] \in Nat
      BY <1>3, <1>4
<1>6. SumOver(Clients, r) = SumOver(Clients, s[c]) + SumOver(Clients, g)
  <2>1. PICK q \in Amounts : q = s[c]
        OBVIOUS
  <2>2. AddsUp(Clients, q, g, r)
        BY <1>2, <2>1 DEF Amounts, AddsUp
  <2>3. SumOver(Clients, r) = SumOver(Clients, q) + SumOver(Clients, g)
        BY <2>2, ConstantFacts, SumAdd
  <2>4. QED  BY <2>1, <2>3
<1>7. PICK n \in Int : n = SumOver(Clients, g)
  <2>1. SumOver(Clients, g) \in Nat
        BY <1>4
  <2>2. QED  BY <2>1
<1>8. \A d \in Clients : h[d] = IF d = c THEN f[d] + n ELSE f[d]
      BY <1>1, <1>3, <1>6, <1>7 DEF AddsGroup
<1>9. \A d \in Class(k) : f[d] \in Nat /\ f[d] \in Int
      BY <1>5, ConstantFacts
<1>10. SumOver(Class(k), f) \in Nat
      BY <1>9, ConstantFacts, SumNat
<1>11. /\ Key(c) = k => SumOver(Class(k), h) = SumOver(Class(k), f) + n
       /\ Key(c) # k => SumOver(Class(k), h) = SumOver(Class(k), f)
  <2>1. PICK S : S = Class(k)
        OBVIOUS
  <2>2. IsFiniteSet(S) /\ (c \in S <=> Key(c) = k)
        BY <2>1, ConstantFacts
  <2>3. ChangesAt(S, f, h, c, n)
        BY <1>8, <1>9, <2>1, ConstantFacts DEF ChangesAt
  <2>4. /\ c \in S => SumOver(S, h) = SumOver(S, f) + n
        /\ c \notin S => SumOver(S, h) = SumOver(S, f)
        BY <2>2, <2>3, SumChange
  <2>5. QED  BY <2>1, <2>2, <2>4
<1>12. QED  BY <1>3, <1>7, <1>10, <1>11, ConstantFacts DEF AddedTo

-----------------------------------------------------------------------------
(* Every step keeps the accounts.                                          *)

LEMMA AccountsInit == Init => Accounts
<1> SUFFICES ASSUME Init PROVE Accounts
    OBVIOUS
<1>1. /\ timer_event_handlers_ = << >> /\ groups_ = [k \in Clients |-> Zero] /\ counts_ = Zero
      /\ router = Zero /\ source = Zero /\ sink = Zero /\ busy = [w \in Workers |-> NoClient]
      /\ asked = Zero /\ replies = Zero /\ summed = [c \in Clients |-> Zero]
      BY DEF Init
<1>2. Zero \in Amounts /\ \A c \in Clients : Zero[c] = 0
      BY DEF Zero, Amounts
<1>3. \A c \in Clients : Fired(c) = 0
  <2>1. \A c \in Clients :
          {id \in DOMAIN timer_event_handlers_ : timer_event_handlers_[id].x_ = c} = {}
        BY <1>1
  <2>2. \A c \in Clients : Fired(c) = asked[c] - router[c] - 0
        BY <2>1, FS_EmptySet DEF Fired, Handled
  <2>3. QED  BY <1>1, <1>2, <2>2
<1>4. AccountTypes
      BY <1>1, <1>2, <1>3 DEF AccountTypes
<1>5. \A S, f : IsFiniteSet(S) /\ (\A x \in S : f[x] = 0) => SumOver(S, f) = 0
      BY SumZero
<1>6. AnswersAccounted
  <2>1. SUFFICES ASSUME NEW c \in Clients
                 PROVE  kNumWorkers * Handled(c) =
                          source[c] + Cardinality({w \in Workers : busy[w] = c}) + sink[c]
                            + AnswersOf(c, groups_) + AnswersOf(c, summed)
        BY DEF AnswersAccounted
  <2>2. {w \in Workers : busy[w] = c} = {}
        BY <1>1, ConstantFacts
  <2>3. AnswersOf(c, groups_) = 0 /\ AnswersOf(c, summed) = 0
    <3>1. PICK f : f = [k \in Clients |-> groups_[k][c]]
          OBVIOUS
    <3>2. f = [k \in Clients |-> summed[k][c]] /\ \A k \in Clients : f[k] = 0
          BY <1>1, <1>2, <3>1
    <3>3. SumOver(Clients, f) = 0
          BY <3>2, ConstantFacts, SumZero
    <3>4. QED  BY <3>1, <3>2, <3>3 DEF AnswersOf
  <2>4. Handled(c) = 0 /\ source[c] = 0 /\ sink[c] = 0
        BY <1>1, <1>2 DEF Handled
  <2>5. Cardinality({w \in Workers : busy[w] = c}) = 0 /\ kNumWorkers * 0 = 0
        BY <2>2, ConstantFacts, FS_EmptySet
  <2>6. QED  BY <2>3, <2>4, <2>5
<1>7. GroupCounts
  <2>1. SUFFICES ASSUME NEW k \in Clients
                 PROVE  /\ SumOver(Class(k), replies) = FiredOf(k) + (Seen(k) \div kNumWorkers)
                        /\ counts_[k] = Seen(k) % kNumWorkers
                        /\ FiredOf(k) = 0 => SumOver(Clients, groups_[k]) = counts_[k]
        BY DEF GroupCounts
  <2>2. SumOver(Clients, Zero) = 0 /\ SumOver(Class(k), Zero) = 0
        BY <1>2, ConstantFacts, SumZero
  <2>3. FiredOf(k) = 0
    <3>1. PICK f : f = [c \in Clients |-> Fired(c)]
          OBVIOUS
    <3>2. \A c \in Class(k) : f[c] = 0
          BY <1>3, <3>1, ConstantFacts
    <3>3. QED  BY <3>1, <3>2, ConstantFacts, SumZero DEF FiredOf
  <2>4. AddedTo(k, summed) = 0
    <3>1. PICK f : f = [c \in Clients |-> SumOver(Clients, summed[c])]
          OBVIOUS
    <3>2. \A c \in Class(k) : f[c] = 0
          BY <1>1, <2>2, <3>1, ConstantFacts
    <3>3. QED  BY <3>1, <3>2, ConstantFacts, SumZero DEF AddedTo
  <2>5. Seen(k) = 0
        BY <1>1, <2>2, <2>4 DEF Seen
  <2>6. 0 \div kNumWorkers = 0 /\ 0 % kNumWorkers = 0
        BY ConstantFacts
  <2>7. QED  BY <1>1, <1>2, <2>2, <2>3, <2>5, <2>6
<1>8. QED  BY <1>4, <1>6, <1>7 DEF Accounts

LEMMA AccountNumbers ==
  ASSUME Inv, Accounts, NEW c \in Clients
  PROVE  /\ asked[c] \in Nat /\ router[c] \in Nat /\ source[c] \in Nat /\ sink[c] \in Nat
         /\ Cardinality(BusyWith(busy, c)) \in Nat
         /\ AnswersOf(c, groups_) \in Int /\ AnswersOf(c, summed) \in Int
         /\ kNumWorkers \in Nat /\ Handled(c) \in Int /\ kNumWorkers * Handled(c) \in Int
         /\ kNumWorkers * Handled(c) =
              source[c] + Cardinality(BusyWith(busy, c)) + sink[c]
                + AnswersOf(c, groups_) + AnswersOf(c, summed)
<1>1. asked[c] \in Nat /\ router[c] \in Nat /\ source[c] \in Nat /\ sink[c] \in Nat
      BY DEF Inv, Types, Accounts, AccountTypes, Amounts
<1>2. Cardinality(BusyWith(busy, c)) \in Nat
  <2>1. BusyWith(busy, c) \subseteq Workers
        BY DEF BusyWith
  <2>2. QED  BY <2>1, ConstantFacts, FS_Subset, FS_CardinalityType
<1>3. AnswersOf(c, groups_) \in Int /\ AnswersOf(c, summed) \in Int
  <2>1. groups_ \in [Clients -> Amounts] /\ summed \in [Clients -> Amounts]
        BY DEF Accounts, AccountTypes
  <2>2. PICK g \in Amounts : g = groups_[c]
        BY <2>1
  <2>3. QED  BY <2>1, AnswersChange
<1>4. kNumWorkers \in Nat /\ Handled(c) \in Int
      BY <1>1, ConstantFacts DEF Handled
<1>5. kNumWorkers * Handled(c) \in Int
      BY <1>4
<1>6. kNumWorkers * Handled(c) =
        source[c] + Cardinality(BusyWith(busy, c)) + sink[c]
          + AnswersOf(c, groups_) + AnswersOf(c, summed)
      BY DEF Accounts, AnswersAccounted, BusyWith
<1>7. QED  BY <1>1, <1>2, <1>3, <1>4, <1>5, <1>6

LEMMA AnswersPrimed ==
  ASSUME \A c \in Clients :
           kNumWorkers * Handled(c)' =
             source'[c] + Cardinality(BusyWith(busy', c)) + sink'[c]
               + AnswersOf(c, groups_') + AnswersOf(c, summed')
  PROVE  AnswersAccounted'
BY DEF AnswersAccounted, BusyWith

LEMMA FiredStays ==
  ASSUME \A c \in Clients : Fired(c)' = Fired(c)
  PROVE  \A k : FiredOf(k)' = FiredOf(k)
<1>1. [c \in Clients |-> Fired(c)]' = [c \in Clients |-> Fired(c)]
      OBVIOUS
<1>2. QED  BY <1>1 DEF FiredOf

(* What keeps the handled requests, the timers and the groups.               *)
LEMMA GroupsStay ==
  ASSUME Accounts, UNCHANGED replyVars, \A c \in Clients : Fired(c)' = Fired(c)
  PROVE  GroupCounts'
<1>1. UNCHANGED <<groups_, counts_, replies, summed>>
      BY DEF replyVars
<1>2. \A k : FiredOf(k)' = FiredOf(k)
      BY FiredStays
<1>3. \A k : Seen(k)' = Seen(k)
      BY <1>1 DEF Seen
<1>4. QED  BY <1>1, <1>2, <1>3 DEF Accounts, GroupCounts

LEMMA TimersStay ==
  ASSUME UNCHANGED timer_event_handlers_, \A c \in Clients : Handled(c)' = Handled(c)
  PROVE  \A c \in Clients : Fired(c)' = Fired(c)
BY DEF Fired

(* Clients and workers move messages.                                        *)
LEMMA SendAccounts ==
  ASSUME Inv, Accounts, NEW c \in Clients, Send(c)
  PROVE  Accounts'
<1>1. /\ asked' = [asked EXCEPT ![c] = @ + 1] /\ router' = [router EXCEPT ![c] = @ + 1]
      /\ UNCHANGED <<source, busy, sink>> /\ UNCHANGED timer_event_handlers_
      /\ UNCHANGED replyVars /\ UNCHANGED <<groups_, counts_, replies, summed>>
      BY DEF Send, Add, timerVars, replyVars
<1>2. asked \in Amounts /\ router \in Amounts
      BY DEF Inv, Types, Accounts, AccountTypes, Amounts
<1>3. asked' \in Amounts
      BY <1>1, <1>2 DEF Amounts
<1>4. \A d \in Clients : Handled(d)' = Handled(d)
      BY <1>1, <1>2 DEF Handled, Amounts
<1>5. \A d \in Clients : Fired(d)' = Fired(d)
      BY <1>1, <1>4, TimersStay
<1>6. AccountTypes'
      BY <1>1, <1>3, <1>5 DEF Accounts, AccountTypes
<1>7. GroupCounts'
      BY <1>1, <1>5, GroupsStay
<1>8. AnswersAccounted'
  <2>1. SUFFICES ASSUME NEW d \in Clients
                 PROVE  kNumWorkers * Handled(d)' =
                          source'[d] + Cardinality(BusyWith(busy', d)) + sink'[d]
                            + AnswersOf(d, groups_') + AnswersOf(d, summed')
        BY AnswersPrimed
  <2>2. QED  BY <1>1, <1>4, AccountNumbers
<1>9. QED  BY <1>6, <1>7, <1>8 DEF Accounts

LEMMA TakeAccounts ==
  ASSUME Inv, Accounts, NEW w \in Workers, NEW c \in Clients, Take(w, c)
  PROVE  Accounts'
<1>1. /\ busy[w] = NoClient /\ busy' = [busy EXCEPT ![w] = c]
      /\ source[c] > 0 /\ source' = [source EXCEPT ![c] = @ + (-1)]
      /\ UNCHANGED <<asked, router, sink>> /\ UNCHANGED timer_event_handlers_
      /\ UNCHANGED replyVars /\ UNCHANGED <<groups_, counts_, replies, summed>>
      BY DEF Take, recv_enveloped_msg, Add, timerVars, replyVars
<1>2. source \in Amounts /\ busy \in [Workers -> Clients \cup {NoClient}]
      BY DEF Accounts, AccountTypes
<1>3. source' \in Amounts /\ busy' \in [Workers -> Clients \cup {NoClient}]
      BY <1>1, <1>2 DEF Amounts
<1>4. \A d \in Clients : Handled(d)' = Handled(d)
      BY <1>1 DEF Handled
<1>5. \A d \in Clients : Fired(d)' = Fired(d)
      BY <1>1, <1>4, TimersStay
<1>6. AccountTypes'
      BY <1>1, <1>3, <1>5 DEF Accounts, AccountTypes
<1>7. GroupCounts'
      BY <1>1, <1>5, GroupsStay
<1>8. AnswersAccounted'
  <2>1. SUFFICES ASSUME NEW d \in Clients
                 PROVE  kNumWorkers * Handled(d)' =
                          source'[d] + Cardinality(BusyWith(busy', d)) + sink'[d]
                            + AnswersOf(d, groups_') + AnswersOf(d, summed')
        BY AnswersPrimed
  <2>2. d # NoClient /\ busy[w] # c
        BY <1>1, ConstantFacts
  <2>3. PICK b, t \in [Workers -> Clients \cup {NoClient}] : b = busy /\ t = busy'
        BY <1>2, <1>3
  <2>4. /\ Cardinality(BusyWith(b, d)) \in Nat
        /\ Cardinality(BusyWith(t, d)) =
             IF d = c THEN Cardinality(BusyWith(b, d)) + 1
             ELSE IF d = b[w] THEN Cardinality(BusyWith(b, d)) - 1
             ELSE Cardinality(BusyWith(b, d))
    <3>1. b[w] # c /\ t[w] = c /\ \A v \in Workers : v # w => t[v] = b[v]
          BY <1>1, <1>2, <2>2, <2>3
    <3>2. QED  BY <3>1, BusyChange
  <2>5. Cardinality(BusyWith(busy', d)) =
          IF d = c THEN Cardinality(BusyWith(busy, d)) + 1 ELSE Cardinality(BusyWith(busy, d))
        BY <1>1, <2>2, <2>3, <2>4
  <2>6. source'[d] = IF d = c THEN source[d] - 1 ELSE source[d]
        BY <1>1, <1>2 DEF Amounts
  <2>7. QED  BY <1>1, <1>4, <2>5, <2>6, AccountNumbers
<1>9. QED  BY <1>6, <1>7, <1>8 DEF Accounts

LEMMA AnswerAccounts ==
  ASSUME Inv, Accounts, NEW w \in Workers, Answer(w)
  PROVE  Accounts'
<1>1. /\ busy[w] # NoClient /\ busy' = [busy EXCEPT ![w] = NoClient]
      /\ sink' = [sink EXCEPT ![busy[w]] = @ + 1]
      /\ UNCHANGED <<asked, router, source>> /\ UNCHANGED timer_event_handlers_
      /\ UNCHANGED replyVars /\ UNCHANGED <<groups_, counts_, replies, summed>>
      BY DEF Answer, send_enveloped_msg, Add, timerVars, replyVars
<1>2. sink \in Amounts /\ busy \in [Workers -> Clients \cup {NoClient}]
      BY DEF Inv, Types, Accounts, AccountTypes, Amounts
<1>3. busy' \in [Workers -> Clients \cup {NoClient}] /\ busy[w] \in Clients
      BY <1>1, <1>2
<1>4. \A d \in Clients : Handled(d)' = Handled(d)
      BY <1>1 DEF Handled
<1>5. \A d \in Clients : Fired(d)' = Fired(d)
      BY <1>1, <1>4, TimersStay
<1>6. AccountTypes'
      BY <1>1, <1>3, <1>5 DEF Accounts, AccountTypes
<1>7. GroupCounts'
      BY <1>1, <1>5, GroupsStay
<1>8. AnswersAccounted'
  <2>1. SUFFICES ASSUME NEW d \in Clients
                 PROVE  kNumWorkers * Handled(d)' =
                          source'[d] + Cardinality(BusyWith(busy', d)) + sink'[d]
                            + AnswersOf(d, groups_') + AnswersOf(d, summed')
        BY AnswersPrimed
  <2>2. d # NoClient
        BY ConstantFacts
  <2>3. PICK b, t \in [Workers -> Clients \cup {NoClient}] : b = busy /\ t = busy'
        BY <1>2, <1>3
  <2>4. /\ Cardinality(BusyWith(b, d)) \in Nat
        /\ Cardinality(BusyWith(t, d)) =
             IF d = NoClient THEN Cardinality(BusyWith(b, d)) + 1
             ELSE IF d = b[w] THEN Cardinality(BusyWith(b, d)) - 1
             ELSE Cardinality(BusyWith(b, d))
    <3>1. b[w] # NoClient /\ t[w] = NoClient /\ \A v \in Workers : v # w => t[v] = b[v]
          BY <1>1, <1>2, <2>3
    <3>2. QED  BY <3>1, BusyChange
  <2>5. Cardinality(BusyWith(busy', d)) =
          IF d = busy[w] THEN Cardinality(BusyWith(busy, d)) - 1 ELSE Cardinality(BusyWith(busy, d))
        BY <1>1, <2>2, <2>3, <2>4
  <2>6. sink'[d] = IF d = busy[w] THEN sink[d] + 1 ELSE sink[d]
        BY <1>1, <1>2, <1>3 DEF Amounts
  <2>7. PICK c : c = busy[w]
        OBVIOUS
  <2>8. source'[d] + Cardinality(BusyWith(busy', d)) + sink'[d] =
          source[d] + Cardinality(BusyWith(busy, d)) + sink[d]
        BY <1>1, <2>5, <2>6, <2>7, AccountNumbers
  <2>9. QED  BY <1>1, <1>4, <2>8, AccountNumbers
<1>9. QED  BY <1>6, <1>7, <1>8 DEF Accounts

(* The head and the tail of the loop, and the clock.                         *)
LEMMA IdleAccounts ==
  ASSUME Accounts, UNCHANGED <<socketVars, replyVars>>, UNCHANGED timer_event_handlers_
  PROVE  Accounts'
<1>1. /\ UNCHANGED <<asked, router, source, busy, sink>> /\ UNCHANGED replyVars
      /\ UNCHANGED <<groups_, counts_, replies, summed>>
      BY DEF socketVars, replyVars
<1>2. \A d \in Clients : Handled(d)' = Handled(d)
      BY <1>1 DEF Handled
<1>3. \A d \in Clients : Fired(d)' = Fired(d)
      BY <1>2, TimersStay
<1>4. AccountTypes'
      BY <1>1, <1>3 DEF Accounts, AccountTypes
<1>5. GroupCounts'
      BY <1>1, <1>3, GroupsStay
<1>6. AnswersAccounted'
      BY <1>1, <1>2 DEF Accounts, AnswersAccounted
<1>7. QED  BY <1>4, <1>5, <1>6 DEF Accounts

LEMMA TimersFinite ==
  ASSUME TimersOpen, NEW c
  PROVE  /\ IsFiniteSet(TimersOf(timer_event_handlers_, c))
         /\ Cardinality(TimersOf(timer_event_handlers_, c)) \in Nat
         /\ Fired(c) = Handled(c) - Cardinality(TimersOf(timer_event_handlers_, c))
<1>1. /\ timer_id_ - 1 \in Int
      /\ TimersOf(timer_event_handlers_, c) \subseteq 0..(timer_id_ - 1)
      BY DEF TimersOpen, TimersOf
<1>2. IsFiniteSet(0..(timer_id_ - 1))
      BY <1>1, FS_Interval
<1>3. IsFiniteSet(TimersOf(timer_event_handlers_, c))
      BY <1>1, <1>2, FS_Subset
<1>4. Fired(c) = Handled(c) - Cardinality(TimersOf(timer_event_handlers_, c))
      BY DEF Fired, TimersOf
<1>5. QED  BY <1>3, <1>4, FS_CardinalityType

(* A request becomes kNumWorkers copies and a timer.                         *)
LEMMA InAccounts ==
  ASSUME Inv, Inv', Accounts, NEW c \in Clients, RunIn(c)
  PROVE  Accounts'
<1>1. /\ router[c] > 0 /\ router' = [router EXCEPT ![c] = @ + (-1)]
      /\ source' = [source EXCEPT ![c] = @ + kNumWorkers]
      /\ UNCHANGED <<busy, sink, asked>> /\ UNCHANGED replyVars
      /\ UNCHANGED <<groups_, counts_, replies, summed>>
      BY DEF RunIn, recv_enveloped_msg, send_enveloped_msg, DupToWorkers, Add, replyVars
<1>2. PICK D, k, T, U : /\ T = timer_event_handlers_ /\ U = timer_event_handlers_'
                        /\ D = DOMAIN T /\ k = timer_id_ /\ k \notin D
  <2>1. timer_id_ \notin DOMAIN timer_event_handlers_
        BY DEF Inv, TimersOpen
  <2>2. QED  BY <2>1
<1>3. /\ DOMAIN U = D \cup {k} /\ U[k].x_ = c
      /\ \A id \in D : U[id] = T[id]
      BY <1>2 DEF RunIn, TimerPush
<1>4. router \in Amounts /\ source \in Amounts /\ kNumWorkers \in Nat
      BY ConstantFacts DEF Inv, Types, Accounts, AccountTypes, Amounts
<1>5. source' \in Amounts
      BY <1>1, <1>4 DEF Amounts
<1>6. \A d \in Clients : Handled(d)' = IF d = c THEN Handled(d) + 1 ELSE Handled(d)
  <2>1. asked \in Amounts
        BY DEF Accounts, AccountTypes
  <2>2. QED  BY <1>1, <1>4, <2>1 DEF Handled, Amounts
<1>7. \A d \in Clients : Fired(d)' = Fired(d)
  <2>1. SUFFICES ASSUME NEW d \in Clients PROVE Fired(d)' = Fired(d)
        OBVIOUS
  <2>2. /\ IsFiniteSet(TimersOf(T, d)) /\ Cardinality(TimersOf(T, d)) \in Nat
        /\ Fired(d) = Handled(d) - Cardinality(TimersOf(T, d))
        BY <1>2, TimersFinite DEF Inv
  <2>3. Fired(d)' = Handled(d)' - Cardinality(TimersOf(U, d))
        BY <1>2 DEF Fired, TimersOf
  <2>4. Cardinality(TimersOf(U, d)) =
          IF d = c THEN Cardinality(TimersOf(T, d)) + 1 ELSE Cardinality(TimersOf(T, d))
    <3>1. CASE d = c
      <4>1. TimersOf(U, d) = TimersOf(T, d) \cup {k} /\ k \notin TimersOf(T, d)
            BY <1>2, <1>3, <3>1 DEF TimersOf
      <4>2. QED  BY <2>2, <3>1, <4>1, FS_AddElement
    <3>2. CASE d # c
      <4>1. TimersOf(U, d) = TimersOf(T, d)
            BY <1>2, <1>3, <3>2 DEF TimersOf
      <4>2. QED  BY <3>2, <4>1
    <3>3. QED  BY <3>1, <3>2
  <2>5. Handled(d) \in Int
        BY AccountNumbers
  <2>6. QED  BY <1>6, <2>2, <2>3, <2>4, <2>5
<1>8. AccountTypes'
  <2>1. \A id \in D \cup {k} : U[id].x_ \in Clients
        BY <1>2, <1>3 DEF Accounts, AccountTypes
  <2>2. QED  BY <1>1, <1>2, <1>3, <1>5, <1>7, <2>1 DEF Accounts, AccountTypes
<1>9. GroupCounts'
      BY <1>1, <1>7, GroupsStay
<1>10. AnswersAccounted'
  <2>1. SUFFICES ASSUME NEW d \in Clients
                 PROVE  kNumWorkers * Handled(d)' =
                          source'[d] + Cardinality(BusyWith(busy', d)) + sink'[d]
                            + AnswersOf(d, groups_') + AnswersOf(d, summed')
        BY AnswersPrimed
  <2>2. kNumWorkers * (Handled(d) + 1) = kNumWorkers * Handled(d) + kNumWorkers
        BY AccountNumbers
  <2>3. source'[d] = IF d = c THEN source[d] + kNumWorkers ELSE source[d]
        BY <1>1, <1>4 DEF Amounts
  <2>4. QED  BY <1>1, <1>6, <2>2, <2>3, AccountNumbers
<1>11. QED  BY <1>8, <1>9, <1>10 DEF Accounts

(* Group g of client c is summed up and forgotten.                           *)
LEMMA EndCall ==
  ASSUME Accounts, NEW c \in Clients, NEW g \in Amounts, end_call(c, g)
  PROVE  /\ replies' \in Amounts /\ groups_' \in [Clients -> Amounts]
         /\ summed' \in [Clients -> Amounts]
         /\ \A d \in Clients :
              /\ AnswersOf(d, groups_') = AnswersOf(d, groups_) - groups_[Key(c)][d]
              /\ AnswersOf(d, summed') = AnswersOf(d, summed) + g[d]
         /\ \A k \in Clients :
              /\ AddedTo(k, summed') =
                   IF Key(c) = k THEN AddedTo(k, summed) + SumOver(Clients, g) ELSE AddedTo(k, summed)
              /\ SumOver(Class(k), replies') =
                   IF Key(c) = k THEN SumOver(Class(k), replies) + 1 ELSE SumOver(Class(k), replies)
              /\ SumOver(Clients, groups_'[k]) =
                   IF Key(c) = k THEN 0 ELSE SumOver(Clients, groups_[k])
<1>1. PICK G, S \in [Clients -> Amounts], R \in Amounts, K \in Clients :
        G = groups_ /\ S = summed /\ R = replies /\ K = Key(c)
      BY ConstantFacts DEF Accounts, AccountTypes
<1>2. PICK r \in Amounts : r = [d \in Clients |-> S[c][d] + g[d]]
  <2>1. [d \in Clients |-> S[c][d] + g[d]] \in Amounts
        BY DEF Amounts
  <2>2. QED  BY <2>1
<1>3. /\ replies' = [R EXCEPT ![c] = @ + 1]
      /\ summed' = [S EXCEPT ![c] = r]
      /\ groups_' = [G EXCEPT ![K] = Zero]
  <2>1. /\ replies' = [replies EXCEPT ![c] = @ + 1]
        /\ summed' = [summed EXCEPT ![c] = [d \in Clients |-> summed[c][d] + g[d]]]
        /\ groups_' = [groups_ EXCEPT ![Key(c)] = Zero]
    <3>1. summed \in [Clients -> Amounts]
          BY DEF Accounts, AccountTypes
    <3>2. QED  BY <3>1 DEF end_call, reduce_group, send_enveloped_msg, Add
  <2>2. QED  BY <1>1, <1>2, <2>1
<1>4. Zero \in Amounts /\ \A d \in Clients : Zero[d] = 0
      BY DEF Zero, Amounts
<1>5. replies' \in Amounts /\ groups_' \in [Clients -> Amounts] /\ summed' \in [Clients -> Amounts]
  <2>1. replies' \in Amounts
        BY <1>3 DEF Amounts
  <2>2. QED  BY <1>3, <1>4, <2>1
<1>6. ASSUME NEW d \in Clients
      PROVE  /\ AnswersOf(d, groups_') = AnswersOf(d, groups_) - groups_[Key(c)][d]
             /\ AnswersOf(d, summed') = AnswersOf(d, summed) + g[d]
  <2>1. /\ AnswersOf(d, G) \in Int
        /\ AnswersOf(d, [G EXCEPT ![K] = Zero]) = AnswersOf(d, G) + (Zero[d] - G[K][d])
        BY <1>4, AnswersChange
  <2>2. /\ AnswersOf(d, S) \in Int
        /\ AnswersOf(d, [S EXCEPT ![c] = r]) = AnswersOf(d, S) + (r[d] - S[c][d])
        BY AnswersChange
  <2>3. G[K][d] \in Nat /\ S[c][d] \in Nat /\ g[d] \in Nat /\ r[d] = S[c][d] + g[d] /\ Zero[d] = 0
        BY <1>2, <1>4 DEF Amounts
  <2>4. QED  BY <1>1, <1>3, <2>1, <2>2, <2>3
<1>7. ASSUME NEW k \in Clients
      PROVE  /\ AddedTo(k, summed') =
                  IF Key(c) = k THEN AddedTo(k, summed) + SumOver(Clients, g) ELSE AddedTo(k, summed)
             /\ SumOver(Class(k), replies') =
                  IF Key(c) = k THEN SumOver(Class(k), replies) + 1 ELSE SumOver(Class(k), replies)
             /\ SumOver(Clients, groups_'[k]) =
                  IF Key(c) = k THEN 0 ELSE SumOver(Clients, groups_[k])
  <2>1. /\ Key(c) = k => AddedTo(k, summed') = AddedTo(k, S) + SumOver(Clients, g)
        /\ Key(c) # k => AddedTo(k, summed') = AddedTo(k, S)
    <3>1. PICK t \in [Clients -> Amounts] : t = summed'
          BY <1>5
    <3>2. AddsGroup(S, t, c, g)
          BY <1>2, <1>3, <3>1 DEF AddsGroup
    <3>3. /\ Key(c) = k => AddedTo(k, t) = AddedTo(k, S) + SumOver(Clients, g)
          /\ Key(c) # k => AddedTo(k, t) = AddedTo(k, S)
          BY <3>2, AddedChange
    <3>4. QED  BY <3>1, <3>3
  <2>2. PICK C, h : C = Class(k) /\ h = replies'
        OBVIOUS
  <2>3. IsFiniteSet(C) /\ (c \in C <=> Key(c) = k)
        BY <2>2, ConstantFacts
  <2>4. ChangesAt(C, R, h, c, 1)
        BY <1>3, <2>2, ConstantFacts DEF Amounts, ChangesAt
  <2>5. /\ c \in C => SumOver(C, h) = SumOver(C, R) + 1
        /\ c \notin C => SumOver(C, h) = SumOver(C, R)
        BY <2>3, <2>4, SumChange
  <2>6. SumOver(Clients, Zero) = 0
        BY <1>4, ConstantFacts, SumZero
  <2>7. groups_'[k] = IF K = k THEN Zero ELSE G[k]
        BY <1>3
  <2>8. QED  BY <1>1, <1>2, <1>3, <2>1, <2>2, <2>3, <2>5, <2>6, <2>7
<1>8. QED  BY <1>5, <1>6, <1>7

LEMMA GroupNumbers ==
  ASSUME Accounts, NEW k \in Clients
  PROVE  /\ SumOver(Class(k), replies) \in Nat /\ FiredOf(k) \in Nat
         /\ AddedTo(k, summed) \in Nat /\ SumOver(Clients, groups_[k]) \in Nat
         /\ Seen(k) = AddedTo(k, summed) + SumOver(Clients, groups_[k]) /\ Seen(k) \in Nat
         /\ counts_[k] \in Nat
         /\ SumOver(Class(k), replies) = FiredOf(k) + (Seen(k) \div kNumWorkers)
         /\ counts_[k] = Seen(k) % kNumWorkers
         /\ FiredOf(k) = 0 => SumOver(Clients, groups_[k]) = counts_[k]
<1>1. /\ replies \in Amounts /\ counts_ \in Amounts
      /\ groups_ \in [Clients -> Amounts] /\ summed \in [Clients -> Amounts]
      /\ \A c \in Clients : Fired(c) \in Nat
      BY DEF Accounts, AccountTypes
<1>2. ASSUME NEW a \in Amounts PROVE SumOver(Clients, a) \in Nat
      BY ConstantFacts, SumNat DEF Amounts
<1>3. PICK C : C = Class(k) /\ C \subseteq Clients /\ IsFiniteSet(C)
      BY ConstantFacts
<1>4. SumOver(C, replies) \in Nat
  <2>1. \A c \in C : replies[c] \in Nat
        BY <1>1, <1>3 DEF Amounts
  <2>2. QED  BY <1>3, <2>1, SumNat
<1>5. FiredOf(k) \in Nat
  <2>1. PICK f : f = [c \in Clients |-> Fired(c)]
        OBVIOUS
  <2>2. \A c \in C : f[c] \in Nat
        BY <1>1, <1>3, <2>1
  <2>3. SumOver(C, f) \in Nat
        BY <1>3, <2>2, SumNat
  <2>4. QED  BY <1>3, <2>1, <2>3 DEF FiredOf
<1>6. AddedTo(k, summed) \in Nat
  <2>1. PICK f : f = [c \in Clients |-> SumOver(Clients, summed[c])]
        OBVIOUS
  <2>2. \A c \in C : f[c] \in Nat
        BY <1>1, <1>2, <1>3, <2>1
  <2>3. SumOver(C, f) \in Nat
        BY <1>3, <2>2, SumNat
  <2>4. QED  BY <1>3, <2>1, <2>3 DEF AddedTo
<1>7. SumOver(Clients, groups_[k]) \in Nat /\ counts_[k] \in Nat
      BY <1>1, <1>2 DEF Amounts
<1>8. Seen(k) = AddedTo(k, summed) + SumOver(Clients, groups_[k]) /\ Seen(k) \in Nat
      BY <1>6, <1>7 DEF Seen
<1>9. QED  BY <1>3, <1>4, <1>5, <1>6, <1>7, <1>8 DEF Accounts, GroupCounts

(* An answer of c joins its group: every kNumWorkers-th ends it.             *)
LEMMA FromWorkersAccounts ==
  ASSUME Inv, Accounts, NEW c \in Clients, RunFromWorkers(c)
  PROVE  Accounts'
<1>1. /\ sink[c] > 0 /\ sink' = [sink EXCEPT ![c] = @ + (-1)]
      /\ FromWorkersTee(c)
      /\ UNCHANGED <<router, source, busy, asked>> /\ UNCHANGED timer_event_handlers_
      BY DEF RunFromWorkers, recv_enveloped_msg, Add, timerVars
<1>2. sink \in Amounts /\ counts_ \in Amounts /\ groups_ \in [Clients -> Amounts]
      BY DEF Inv, Types, Accounts, AccountTypes, Amounts
<1>3. PICK K \in Clients : K = Key(c)
      BY ConstantFacts
<1>4. PICK g \in Amounts : /\ g = push_call(c)
                           /\ \A d \in Clients : g[d] = IF d = c THEN groups_[K][d] + 1 ELSE groups_[K][d]
  <2>1. PICK q \in Amounts : q = groups_[K]
        BY <1>2
  <2>2. [q EXCEPT ![c] = @ + 1] \in Amounts
        BY DEF Amounts
  <2>3. push_call(c) = [q EXCEPT ![c] = @ + 1]
        BY <1>3, <2>1 DEF push_call, Add
  <2>4. \A d \in Clients : push_call(c)[d] = IF d = c THEN q[d] + 1 ELSE q[d]
        BY <2>3 DEF Amounts
  <2>5. QED  BY <2>1, <2>2, <2>3, <2>4
<1>5. SumOver(Clients, g) = SumOver(Clients, groups_[K]) + 1
  <2>1. PICK q \in Amounts : q = groups_[K]
        BY <1>2
  <2>2. ChangesAt(Clients, q, g, c, 1)
        BY <1>4, <2>1 DEF ChangesAt, Amounts
  <2>3. IsFiniteSet(Clients)
        BY ConstantFacts
  <2>4. SumOver(Clients, g) = SumOver(Clients, q) + 1
        BY <2>2, <2>3, SumChange
  <2>5. QED  BY <2>1, <2>4
<1>6. /\ \A d \in Clients : Handled(d)' = Handled(d)
      /\ \A d \in Clients : Fired(d)' = Fired(d)
  <2>1. \A d \in Clients : Handled(d)' = Handled(d)
        BY <1>1 DEF Handled
  <2>2. QED  BY <1>1, <2>1, TimersStay
<1>7. \A k : FiredOf(k)' = FiredOf(k)
      BY <1>6, FiredStays
<1>8. PICK W \in Nat : W = kNumWorkers /\ W > 1
      BY ConstantFacts
<1>9. CASE counts_[K] + 1 = W
  <2>1. end_call(c, g) /\ counts_' = [counts_ EXCEPT ![K] = 0]
        BY <1>1, <1>3, <1>4, <1>8, <1>9 DEF FromWorkersTee, DedupCount, DedupPasses
  <2>2. /\ replies' \in Amounts /\ groups_' \in [Clients -> Amounts]
        /\ summed' \in [Clients -> Amounts]
        /\ \A d \in Clients :
             /\ AnswersOf(d, groups_') = AnswersOf(d, groups_) - groups_[K][d]
             /\ AnswersOf(d, summed') = AnswersOf(d, summed) + g[d]
        /\ \A k \in Clients :
             /\ AddedTo(k, summed') =
                  IF K = k THEN AddedTo(k, summed) + SumOver(Clients, g) ELSE AddedTo(k, summed)
             /\ SumOver(Class(k), replies') =
                  IF K = k THEN SumOver(Class(k), replies) + 1 ELSE SumOver(Class(k), replies)
             /\ SumOver(Clients, groups_'[k]) =
                  IF K = k THEN 0 ELSE SumOver(Clients, groups_[k])
        BY <1>3, <2>1, EndCall
  <2>3. counts_' \in Amounts
        BY <1>2, <2>1 DEF Amounts
  <2>4. AccountTypes'
        BY <1>1, <1>6, <2>2, <2>3 DEF Accounts, AccountTypes
  <2>5. AnswersAccounted'
    <3>1. SUFFICES ASSUME NEW d \in Clients
                   PROVE  kNumWorkers * Handled(d)' =
                            source'[d] + Cardinality(BusyWith(busy', d)) + sink'[d]
                              + AnswersOf(d, groups_') + AnswersOf(d, summed')
          BY AnswersPrimed
    <3>2. PICK n \in Nat : n = groups_[K][d]
          BY <1>2 DEF Amounts
    <3>3. /\ AnswersOf(d, groups_') = AnswersOf(d, groups_) - n
          /\ AnswersOf(d, summed') = AnswersOf(d, summed) + IF d = c THEN n + 1 ELSE n
          BY <1>4, <2>2, <3>2
    <3>4. sink'[d] = IF d = c THEN sink[d] - 1 ELSE sink[d]
          BY <1>1, <1>2 DEF Amounts
    <3>5. QED  BY <1>1, <1>6, <3>3, <3>4, AccountNumbers
  <2>6. GroupCounts'
    <3>1. SUFFICES ASSUME NEW k \in Clients
                   PROVE  /\ SumOver(Class(k), replies') = FiredOf(k) + (Seen(k)' \div W)
                          /\ counts_'[k] = Seen(k)' % W
                          /\ FiredOf(k) = 0 => SumOver(Clients, groups_'[k]) = counts_'[k]
          BY <1>7, <1>8 DEF GroupCounts
    <3>2. Seen(k)' = AddedTo(k, summed') + SumOver(Clients, groups_'[k])
          BY DEF Seen, AddedTo
    <3>3. CASE k = K
      <4>1. Seen(k)' = Seen(k) + 1
            BY <1>5, <2>2, <3>2, <3>3, GroupNumbers
      <4>2. (Seen(k) + 1) \div W = (Seen(k) \div W) + 1 /\ (Seen(k) + 1) % W = 0
            /\ Seen(k) \div W \in Nat
        <5>1. PICK b \in Nat : b = Seen(k)
              BY GroupNumbers
        <5>2. (b % W) + 1 = W
              BY <1>8, <1>9, <3>3, <5>1, GroupNumbers
        <5>3. (b + 1) \div W = (b \div W) + 1 /\ (b + 1) % W = 0 /\ b \div W \in Nat
              BY <1>8, <5>2, DivMod
        <5>4. QED  BY <5>1, <5>3
      <4>3. counts_'[k] = 0
            BY <1>2, <2>1, <3>3 DEF Amounts
      <4>4. QED  BY <1>8, <2>2, <3>3, <4>1, <4>2, <4>3, GroupNumbers
    <3>4. CASE k # K
      <4>1. Seen(k)' = Seen(k)
            BY <2>2, <3>2, <3>4, GroupNumbers
      <4>2. counts_'[k] = counts_[k]
            BY <1>2, <2>1, <3>4 DEF Amounts
      <4>3. QED  BY <1>8, <2>2, <3>4, <4>1, <4>2, GroupNumbers
    <3>5. QED  BY <3>3, <3>4
  <2>7. QED  BY <2>4, <2>5, <2>6 DEF Accounts
<1>10. CASE counts_[K] + 1 # W
  <2>1. /\ groups_' = [groups_ EXCEPT ![K] = g] /\ UNCHANGED <<replies, summed>>
        /\ counts_' = [counts_ EXCEPT ![K] = @ + 1]
        BY <1>1, <1>3, <1>4, <1>8, <1>10 DEF FromWorkersTee, DedupCount, DedupPasses
  <2>2. counts_' \in Amounts /\ groups_' \in [Clients -> Amounts]
        BY <1>2, <2>1 DEF Amounts
  <2>3. AccountTypes'
        BY <1>1, <1>6, <2>1, <2>2 DEF Accounts, AccountTypes
  <2>4. AnswersAccounted'
    <3>1. SUFFICES ASSUME NEW d \in Clients
                   PROVE  kNumWorkers * Handled(d)' =
                            source'[d] + Cardinality(BusyWith(busy', d)) + sink'[d]
                              + AnswersOf(d, groups_') + AnswersOf(d, summed')
          BY AnswersPrimed
    <3>2. PICK n \in Nat : n = groups_[K][d]
          BY <1>2 DEF Amounts
    <3>3. AnswersOf(d, groups_') = AnswersOf(d, groups_) + (g[d] - n)
      <4>1. PICK G \in [Clients -> Amounts] : G = groups_
            BY <1>2
      <4>2. AnswersOf(d, [G EXCEPT ![K] = g]) = AnswersOf(d, G) + (g[d] - G[K][d])
            BY AnswersChange
      <4>3. QED  BY <2>1, <3>2, <4>1, <4>2
    <3>4. g[d] = IF d = c THEN n + 1 ELSE n
          BY <1>4, <3>2
    <3>5. sink'[d] = IF d = c THEN sink[d] - 1 ELSE sink[d]
          BY <1>1, <1>2 DEF Amounts
    <3>6. QED  BY <1>1, <1>6, <2>1, <3>3, <3>4, <3>5, AccountNumbers
  <2>5. GroupCounts'
    <3>1. SUFFICES ASSUME NEW k \in Clients
                   PROVE  /\ SumOver(Class(k), replies') = FiredOf(k) + (Seen(k)' \div W)
                          /\ counts_'[k] = Seen(k)' % W
                          /\ FiredOf(k) = 0 => SumOver(Clients, groups_'[k]) = counts_'[k]
          BY <1>7, <1>8 DEF GroupCounts
    <3>2. Seen(k)' = AddedTo(k, summed) + SumOver(Clients, groups_'[k])
          BY <2>1 DEF Seen, AddedTo
    <3>3. CASE k = K
      <4>1. groups_'[k] = g /\ counts_'[k] = counts_[k] + 1
            BY <1>2, <2>1, <3>3 DEF Amounts
      <4>2. Seen(k)' = Seen(k) + 1
            BY <1>5, <3>2, <3>3, <4>1, GroupNumbers
      <4>3. (Seen(k) + 1) \div W = Seen(k) \div W /\ (Seen(k) + 1) % W = (Seen(k) % W) + 1
        <5>1. PICK b \in Nat : b = Seen(k)
              BY GroupNumbers
        <5>2. (b % W) + 1 # W
              BY <1>8, <1>10, <3>3, <5>1, GroupNumbers
        <5>3. (b + 1) \div W = b \div W /\ (b + 1) % W = (b % W) + 1
              BY <1>8, <5>2, DivMod
        <5>4. QED  BY <5>1, <5>3
      <4>4. QED  BY <1>5, <1>8, <2>1, <3>3, <4>1, <4>2, <4>3, GroupNumbers
    <3>4. CASE k # K
      <4>1. groups_'[k] = groups_[k] /\ counts_'[k] = counts_[k]
            BY <1>2, <2>1, <3>4 DEF Amounts
      <4>2. Seen(k)' = Seen(k)
            BY <3>2, <4>1, GroupNumbers
      <4>3. QED  BY <1>8, <2>1, <4>1, <4>2, GroupNumbers
    <3>5. QED  BY <3>3, <3>4
  <2>6. QED  BY <2>3, <2>4, <2>5 DEF Accounts
<1>11. QED  BY <1>9, <1>10

(* A timer ends its client's group, however much the group holds.            *)
LEMMA TimerAccounts ==
  ASSUME Inv, Accounts, NEW id \in DOMAIN timer_event_handlers_, RunTimer(id)
  PROVE  Accounts'
<1>1. PICK c \in Clients : c = timer_event_handlers_[id].x_
      BY DEF Accounts, AccountTypes
<1>2. /\ end_call(c, groups_[Key(c)])
      /\ UNCHANGED <<asked, router, source, busy, sink>> /\ UNCHANGED counts_
      BY <1>1 DEF RunTimer, socketVars
<1>3. PICK K \in Clients : K = Key(c)
      BY ConstantFacts
<1>4. PICK g \in Amounts : g = groups_[K]
      BY DEF Accounts, AccountTypes
<1>5. PICK D, T, U : T = timer_event_handlers_ /\ U = timer_event_handlers_' /\ D = DOMAIN T
      OBVIOUS
<1>6. id \in D /\ DOMAIN U = D \ {id} /\ T[id].x_ = c /\ \A j \in D \ {id} : U[j] = T[j]
      BY <1>1, <1>5 DEF RunTimer
<1>7. \A d \in Clients : Handled(d)' = Handled(d) /\ Handled(d) \in Int
      BY <1>2, AccountNumbers DEF Handled
<1>8. \A d \in Clients : Fired(d)' = IF d = c THEN Fired(d) + 1 ELSE Fired(d)
  <2>1. SUFFICES ASSUME NEW d \in Clients
                 PROVE  Fired(d)' = IF d = c THEN Fired(d) + 1 ELSE Fired(d)
        OBVIOUS
  <2>2. /\ IsFiniteSet(TimersOf(T, d)) /\ Cardinality(TimersOf(T, d)) \in Nat
        /\ Fired(d) = Handled(d) - Cardinality(TimersOf(T, d))
        BY <1>5, TimersFinite DEF Inv
  <2>3. Fired(d)' = Handled(d)' - Cardinality(TimersOf(U, d))
        BY <1>5 DEF Fired, TimersOf
  <2>4. Cardinality(TimersOf(U, d)) =
          IF d = c THEN Cardinality(TimersOf(T, d)) - 1 ELSE Cardinality(TimersOf(T, d))
    <3>1. CASE d = c
      <4>1. TimersOf(U, d) = TimersOf(T, d) \ {id} /\ id \in TimersOf(T, d)
            BY <1>5, <1>6, <3>1 DEF TimersOf
      <4>2. QED  BY <2>2, <3>1, <4>1, FS_RemoveElement
    <3>2. CASE d # c
      <4>1. TimersOf(U, d) = TimersOf(T, d)
            BY <1>5, <1>6, <3>2 DEF TimersOf
      <4>2. QED  BY <3>2, <4>1
    <3>3. QED  BY <3>1, <3>2
  <2>5. QED  BY <1>7, <2>2, <2>3, <2>4
<1>9. ASSUME NEW k \in Clients
      PROVE  FiredOf(k)' = IF K = k THEN FiredOf(k) + 1 ELSE FiredOf(k)
  <2>1. PICK f, h : f = [d \in Clients |-> Fired(d)] /\ h = [d \in Clients |-> Fired(d)']
        OBVIOUS
  <2>2. PICK C : C = Class(k) /\ C \subseteq Clients /\ IsFiniteSet(C) /\ (c \in C <=> K = k)
        BY <1>3, ConstantFacts
  <2>3. \A d \in Clients : f[d] \in Int /\ h[d] = IF d = c THEN f[d] + 1 ELSE f[d]
    <3>1. \A d \in Clients : Fired(d) \in Nat
          BY DEF Accounts, AccountTypes
    <3>2. QED  BY <1>8, <2>1, <3>1
  <2>4. ChangesAt(C, f, h, c, 1)
        BY <2>2, <2>3 DEF ChangesAt
  <2>5. /\ c \in C => SumOver(C, h) = SumOver(C, f) + 1
        /\ c \notin C => SumOver(C, h) = SumOver(C, f)
        BY <2>2, <2>4, SumChange
  <2>6. FiredOf(k) = SumOver(C, f) /\ FiredOf(k)' = SumOver(C, h)
        BY <2>1, <2>2 DEF FiredOf
  <2>7. QED  BY <2>2, <2>5, <2>6
<1>10. /\ replies' \in Amounts /\ groups_' \in [Clients -> Amounts]
       /\ summed' \in [Clients -> Amounts]
       /\ \A d \in Clients :
            /\ AnswersOf(d, groups_') = AnswersOf(d, groups_) - groups_[K][d]
            /\ AnswersOf(d, summed') = AnswersOf(d, summed) + g[d]
       /\ \A k \in Clients :
            /\ AddedTo(k, summed') =
                 IF K = k THEN AddedTo(k, summed) + SumOver(Clients, g) ELSE AddedTo(k, summed)
            /\ SumOver(Class(k), replies') =
                 IF K = k THEN SumOver(Class(k), replies) + 1 ELSE SumOver(Class(k), replies)
            /\ SumOver(Clients, groups_'[k]) =
                 IF K = k THEN 0 ELSE SumOver(Clients, groups_[k])
       BY <1>2, <1>3, <1>4, EndCall
<1>11. AccountTypes'
  <2>1. \A j \in D \ {id} : U[j].x_ \in Clients
        BY <1>5, <1>6 DEF Accounts, AccountTypes
  <2>2. \A d \in Clients : Fired(d)' \in Nat
        BY <1>8 DEF Accounts, AccountTypes
  <2>3. QED  BY <1>2, <1>5, <1>6, <1>10, <2>1, <2>2 DEF Accounts, AccountTypes
<1>12. AnswersAccounted'
  <2>1. SUFFICES ASSUME NEW d \in Clients
                 PROVE  kNumWorkers * Handled(d)' =
                          source'[d] + Cardinality(BusyWith(busy', d)) + sink'[d]
                            + AnswersOf(d, groups_') + AnswersOf(d, summed')
        BY AnswersPrimed
  <2>2. PICK n \in Nat : n = g[d]
        BY DEF Amounts
  <2>3. /\ AnswersOf(d, groups_') = AnswersOf(d, groups_) - n
        /\ AnswersOf(d, summed') = AnswersOf(d, summed) + n
        BY <1>4, <1>10, <2>2
  <2>4. QED  BY <1>2, <1>7, <2>3, AccountNumbers
<1>13. GroupCounts'
  <2>1. SUFFICES ASSUME NEW k \in Clients
                 PROVE  /\ SumOver(Class(k), replies') = FiredOf(k)' + (Seen(k)' \div kNumWorkers)
                        /\ counts_'[k] = Seen(k)' % kNumWorkers
                        /\ FiredOf(k)' = 0 => SumOver(Clients, groups_'[k]) = counts_'[k]
        BY DEF GroupCounts
  <2>2. Seen(k)' = AddedTo(k, summed') + SumOver(Clients, groups_'[k])
        BY DEF Seen, AddedTo
  <2>3. Seen(k)' = Seen(k)
        BY <1>4, <1>10, <2>2, GroupNumbers
  <2>4. Seen(k) \div kNumWorkers \in Nat
        BY ConstantFacts, GroupNumbers
  <2>5. QED  BY <1>2, <1>9, <1>10, <2>3, <2>4, GroupNumbers
<1>14. QED  BY <1>11, <1>12, <1>13 DEF Accounts

LEMMA AccountsNext == Inv /\ Inv' /\ Accounts /\ [Next]_vars => Accounts'
<1> SUFFICES ASSUME Inv, Inv', Accounts, [Next]_vars PROVE Accounts'
    OBVIOUS
<1>1. CASE PollEvents
      BY <1>1, IdleAccounts DEF PollEvents, timerVars
<1>2. CASE SkipHandler
      BY <1>2, IdleAccounts DEF SkipHandler, timerVars
<1>3. CASE FinishRound
      BY <1>3, IdleAccounts DEF FinishRound, timerVars
<1>4. CASE \E c \in Clients : RunFromWorkers(c)
      BY <1>4, FromWorkersAccounts
<1>5. CASE \E c \in Clients : RunIn(c)
      BY <1>5, InAccounts
<1>6. CASE \E id \in DOMAIN timer_event_handlers_ : RunTimer(id)
      BY <1>6, TimerAccounts
<1>7. CASE \E c \in Clients : Send(c)
      BY <1>7, SendAccounts
<1>8. CASE \E w \in Workers, c \in Clients : Take(w, c)
      BY <1>8, TakeAccounts
<1>9. CASE \E w \in Workers : Answer(w)
      BY <1>9, AnswerAccounts
<1>10. CASE \E id \in DOMAIN timer_event_handlers_ : Expire(id)
      BY <1>10, IdleAccounts DEF Expire
<1>11. CASE UNCHANGED vars
      BY <1>11, IdleAccounts DEF vars, timerVars
<1>12. QED  BY <1>1, <1>2, <1>3, <1>4, <1>5, <1>6, <1>7, <1>8, <1>9, <1>10, <1>11
               DEF Next, DriverStep

LEMMA AccountsInvariance == Spec => []Accounts
BY Invariance, AccountsInit, AccountsNext, PTL DEF Spec

(* example_server.cc:151-176, group_by.h:62-78: whatever the workers'        *)
(* delays, and although the timer and the Dedup both end the same group, no  *)
(* answer of a worker is lost between the sockets, the group and the         *)
(* responses, and none is added up in two responses.                         *)
THEOREM AnswersKept == Spec => []AnswersAccounted
BY AccountsInvariance, PTL DEF Accounts

LEMMA ResponsesFollow == Accounts => ResponsesAccounted
<1> SUFFICES ASSUME Accounts, NEW k \in {Key(c) : c \in Clients}
             PROVE  LET class == {c \in Clients : Key(c) = k}
                        Of(f) == SumOver(class, f)
                        added == Of([c \in Clients |-> SumOver(Clients, summed[c])])
                        fired == Of([c \in Clients |-> Fired(c)])
                    IN /\ Of(replies) = fired + (added + SumOver(Clients, groups_[k])) \div kNumWorkers
                       /\ fired = 0 => added = kNumWorkers * Of(replies)
    BY DEF ResponsesAccounted
<1>1. k \in Clients
      BY ConstantFacts
<1>2. PICK b \in Nat, W \in Nat : b = Seen(k) /\ W = kNumWorkers /\ W > 1
      BY <1>1, ConstantFacts, GroupNumbers
<1>3. /\ b \div W \in Nat /\ (b % W) \in 0..(W - 1) /\ b = W * (b \div W) + (b % W)
      BY <1>2, DivMod
<1>4. SumOver(Class(k), replies) =
        FiredOf(k) + ((AddedTo(k, summed) + SumOver(Clients, groups_[k])) \div kNumWorkers)
      BY <1>1, GroupNumbers
<1>5. ASSUME FiredOf(k) = 0 PROVE AddedTo(k, summed) = kNumWorkers * SumOver(Class(k), replies)
  <2>1. SumOver(Class(k), replies) = b \div W /\ SumOver(Clients, groups_[k]) = b % W
    <3>1. /\ SumOver(Class(k), replies) = FiredOf(k) + (b \div W) /\ counts_[k] = b % W
          /\ SumOver(Clients, groups_[k]) = counts_[k]
          BY <1>1, <1>2, <1>5, GroupNumbers
    <3>2. QED  BY <1>3, <1>5, <3>1
  <2>2. b = AddedTo(k, summed) + SumOver(Clients, groups_[k]) /\ AddedTo(k, summed) \in Nat
        BY <1>1, <1>2, GroupNumbers
  <2>3. PICK q \in Nat, m \in Nat : q = b \div W /\ m = W * q
        BY <1>3
  <2>4. b = m + (b % W)
        BY <1>3, <2>3
  <2>5. AddedTo(k, summed) = m
        BY <1>3, <2>1, <2>2, <2>3, <2>4
  <2>6. QED  BY <1>2, <2>1, <2>3, <2>5
<1>6. QED  BY <1>4, <1>5 DEF Class, FiredOf, AddedTo

(* dedup.h:26-37, timer.h:51-66, group_by.h:66-78: for any number of clients *)
(* and workers, and however requests, answers and timers interleave, the     *)
(* clients that share a key are sent one response per timer that ran out and *)
(* one per kNumWorkers answers, and before the first timer every sum is      *)
(* complete.                                                                 *)
THEOREM ResponsesCounted == Spec => []ResponsesAccounted
BY AccountsInvariance, ResponsesFollow, PTL
=============================================================================
