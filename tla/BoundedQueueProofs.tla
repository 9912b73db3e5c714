-------------------------- MODULE BoundedQueueProofs --------------------------
(***************************************************************************)
(* Proofs about BoundedQueue, for any finite set of threads, any values    *)
(* and any capacity: no wakeup is lost, and every step of the queue is a   *)
(* step of BlockingChannel or none.                                        *)
(***************************************************************************)
EXTENDS BoundedQueue, FiniteSetTheorems, TLAPS

(* Counting: what one element more, one less, or none does to a set's size.  *)
LEMMA Counts ==
  ASSUME NEW S, NEW T, IsFiniteSet(S), IsFiniteSet(T)
  PROVE  /\ Cardinality(S) \in Nat /\ Cardinality(T) \in Nat
         /\ S \subseteq T => Cardinality(S) <= Cardinality(T)
         /\ \A t : S \ {t} \subseteq T => Cardinality(S) - 1 <= Cardinality(T)
         /\ \A t : t \notin S /\ S \cup {t} \subseteq T => Cardinality(S) + 1 <= Cardinality(T)
<1>1. Cardinality(S) \in Nat /\ Cardinality(T) \in Nat
      BY FS_CardinalityType
<1>2. S \subseteq T => Cardinality(S) <= Cardinality(T)
      BY FS_Subset
<1>3. ASSUME NEW t, S \ {t} \subseteq T PROVE Cardinality(S) - 1 <= Cardinality(T)
  <2>1. /\ Cardinality(S \ {t}) \in {Cardinality(S) - 1, Cardinality(S)}
        /\ Cardinality(S \ {t}) <= Cardinality(T)
        BY <1>3, FS_RemoveElement, FS_Subset
  <2>2. QED  BY <1>1, <2>1
<1>4. ASSUME NEW t, t \notin S, S \cup {t} \subseteq T
      PROVE  Cardinality(S) + 1 <= Cardinality(T)
  <2>1. Cardinality(S \cup {t}) = Cardinality(S) + 1
        BY <1>4, FS_AddElement
  <2>2. Cardinality(S \cup {t}) <= Cardinality(T)
        BY <1>4, FS_Subset
  <2>3. QED  BY <2>1, <2>2
<1>5. QED  BY <1>1, <1>2, <1>3, <1>4

Calls == {Channel!PushCall(x) : x \in Values} \cup {Channel!PopCall}

(* Who waits is in a call: the waits of a thread end before its call does.   *)
TypeInv ==
  /\ xs_ \in Seq(Values) /\ Len(xs_) <= capacity_
  /\ call \in [Threads -> Calls \cup {Channel!NoCall}]
  /\ wait \in [Threads -> {"no", "waiting", "woken"}]
  /\ \A t \in Threads : call[t] = Channel!NoCall => wait[t] = "no"

USE CapacityAssumption, ThreadsAssumption

-----------------------------------------------------------------------------
(* The type invariant.                                                     *)

(* A call is nothing, a push or a pop, and its op says which.                *)
LEMMA CallKinds ==
  ASSUME NEW c \in Calls \cup {Channel!NoCall}
  PROVE  /\ c.op \in {"none", "push", "pop"}
         /\ c.op = "none" <=> c = Channel!NoCall
         /\ c.op = "push" => c.x \in Values
         /\ c \in Calls => c.op # "none"
BY DEF Calls, Channel!NoCall, Channel!PushCall, Channel!PopCall

(* A notify wakes at most one thread, which was waiting in a call of that    *)
(* kind, on top of what the caller did to its own wait.                      *)
LEMMA NotifyShape ==
  ASSUME NEW op, NEW w \in [Threads -> {"no", "waiting", "woken"}], Notify(op, w)
  PROVE  /\ wait' \in [Threads -> {"no", "waiting", "woken"}]
         /\ \A u \in Threads \ Waiting(op) : wait'[u] = w[u]
         /\ \/ Waiting(op) = {}
            \/ \E u \in Waiting(op) : /\ wait'[u] = "woken"
                                      /\ \A v \in Threads \ {u} : wait'[v] = w[v]
<1>1. Waiting(op) \subseteq Threads
      BY DEF Waiting, In
<1>2. CASE Waiting(op) = {}
      BY <1>2 DEF Notify
<1>3. CASE Waiting(op) # {}
      BY <1>1, <1>3 DEF Notify
<1>4. QED  BY <1>2, <1>3

(* Who waits in a call of some kind is in a call, and awake it is not there. *)
LEMMA WaitingCalls ==
  ASSUME TypeInv, NEW op \in {"push", "pop"}, NEW u \in Threads
  PROVE  /\ u \in Waiting(op) => call[u] # Channel!NoCall
         /\ Awake(u, "push") \/ Awake(u, "pop") => u \notin Waiting(op)
BY DEF Waiting, In, Awake, Channel!NoCall

(* A caller that returns has left its own wait.                              *)
LEMMA LeaveType ==
  ASSUME TypeInv, NEW t \in Threads
  PROVE  /\ Leave(t) \in [Threads -> {"no", "waiting", "woken"}]
         /\ Leave(t)[t] = "no" /\ \A u \in Threads \ {t} : Leave(t)[u] = wait[u]
BY DEF Leave, TypeInv

LEMMA TypeInit == Init => TypeInv
BY DEF Init, Channel!ChannelInit, TypeInv

LEMMA TypeNext == TypeInv /\ [Next]_vars => TypeInv'
<1> SUFFICES ASSUME TypeInv, [Next]_vars PROVE TypeInv'
    OBVIOUS
<1> USE DEF TypeInv
<1>1. ASSUME NEW t \in Threads, Call(t) PROVE TypeInv'
      BY <1>1 DEF Call, Channel!Call, Calls
<1>2. ASSUME NEW t \in Threads, PushWaits(t) \/ PopWaits(t) PROVE TypeInv'
  <2>1. call[t] # Channel!NoCall
        BY <1>2 DEF PushWaits, PopWaits, Awake, In, Channel!NoCall
  <2>2. QED  BY <1>2, <2>1 DEF PushWaits, PopWaits
<1>3. ASSUME NEW t \in Threads, PushAdds(t) PROVE TypeInv'
  <2>1. /\ Len(xs_) # capacity_ /\ xs_' = Append(xs_, call[t].x) /\ call[t].x \in Values
        /\ call' = [call EXCEPT ![t] = Channel!NoCall]
        BY <1>3, CallKinds DEF PushAdds, Awake, In, Channel!Return
  <2>2. xs_' \in Seq(Values) /\ Len(xs_)' <= capacity_
        BY <2>1
  <2>3. t \notin Waiting("pop") /\ Notify("pop", Leave(t))
        BY <1>3, WaitingCalls DEF PushAdds
  <2>4. /\ wait' \in [Threads -> {"no", "waiting", "woken"}]
        /\ wait'[t] = "no"
        /\ \A u \in Threads \ {t} : call[u] = Channel!NoCall => wait'[u] = "no"
        BY <2>3, LeaveType, NotifyShape, WaitingCalls
  <2>5. QED  BY <2>1, <2>2, <2>3, <2>4
<1>4. ASSUME NEW t \in Threads, PopTakes(t) PROVE TypeInv'
  <2>1. /\ xs_ # << >> /\ xs_' = Tail(xs_)
        /\ call' = [call EXCEPT ![t] = Channel!NoCall]
        BY <1>4 DEF PopTakes, Channel!Return
  <2>2. xs_' \in Seq(Values) /\ Len(xs_)' <= capacity_
        BY <2>1
  <2>3. t \notin Waiting("push") /\ Notify("push", Leave(t))
        BY <1>4, WaitingCalls DEF PopTakes
  <2>4. /\ wait' \in [Threads -> {"no", "waiting", "woken"}]
        /\ wait'[t] = "no"
        /\ \A u \in Threads \ {t} : call[u] = Channel!NoCall => wait'[u] = "no"
        BY <2>3, LeaveType, NotifyShape, WaitingCalls
  <2>5. QED  BY <2>1, <2>2, <2>3, <2>4
<1>5. ASSUME NEW t \in Threads, SpuriousWakeup(t) PROVE TypeInv'
      BY <1>5 DEF SpuriousWakeup
<1>6. CASE TryPop
  <2>1. CASE xs_ = << >>
        BY <1>6, <2>1 DEF TryPop
  <2>2. CASE xs_ # << >>
    <3>1. xs_' = Tail(xs_) /\ Notify("push", wait) /\ UNCHANGED call
          BY <1>6, <2>2 DEF TryPop
    <3>2. xs_' \in Seq(Values) /\ Len(xs_)' <= capacity_
          BY <2>2, <3>1
    <3>3. /\ wait' \in [Threads -> {"no", "waiting", "woken"}]
          /\ \A u \in Threads : call[u] = Channel!NoCall => wait'[u] = "no"
          BY <3>1, NotifyShape, WaitingCalls
    <3>4. QED  BY <3>1, <3>2, <3>3
  <2>3. QED  BY <2>1, <2>2
<1>7. CASE Clear
  <2>1. xs_' = << >> /\ UNCHANGED call
        /\ wait' = [t \in Threads |-> IF t \in Waiting("push") THEN "woken" ELSE wait[t]]
        BY <1>7 DEF Clear, NotifyAll
  <2>2. \A t \in Waiting("push") : call[t] # Channel!NoCall
        BY DEF Waiting, In, Channel!NoCall
  <2>3. QED  BY <2>1, <2>2
<1>8. CASE UNCHANGED vars
      BY <1>8 DEF vars
<1>9. QED  BY <1>1, <1>2, <1>3, <1>4, <1>5, <1>6, <1>7, <1>8 DEF Next, Step

(* What the queue's methods keep: elements of the right kind, never more of  *)
(* them than the capacity, and nobody in a wait outside a push or a pop.     *)
THEOREM TypeInvariant == Spec => []TypeInv
BY TypeInit, TypeNext, PTL DEF Spec

-----------------------------------------------------------------------------
(* No lost wakeup.                                                         *)

LEMMA WokenFinite ==
  ASSUME NEW op
  PROVE  IsFiniteSet(Woken(op)) /\ IsFiniteSet(Woken(op)')
<1>1. Woken(op) \in SUBSET Threads /\ Woken(op)' \in SUBSET Threads
      BY DEF Woken, In
<1>2. QED  BY <1>1, FS_Subset

(* A call of one kind that returns and notifies the other kind: nobody else  *)
(* of its own kind moves, and of the other kind one more is woken if one was *)
(* waiting.                                                                  *)
LEMMA ReturnWakes ==
  ASSUME TypeInv, NEW t \in Threads, NEW op \in {"push", "pop"}, NEW other \in {"push", "pop"} \ {op},
         Awake(t, op), Channel!Return(t), Notify(other, Leave(t))
  PROVE  /\ Waiting(op)' \subseteq Waiting(op)
         /\ Woken(op) \ {t} \subseteq Woken(op)'
         /\ Waiting(other)' \subseteq Waiting(other)
         /\ \/ Waiting(other) = {}
            \/ \E u \in Waiting(other) : Woken(other) \cup {u} \subseteq Woken(other)'
<1>1. op \in {"push", "pop"} /\ other \in {"push", "pop"} /\ op # other
      OBVIOUS
<1>2. /\ call'[t] = Channel!NoCall
      /\ \A u \in Threads \ {t} : call'[u] = call[u]
      /\ Channel!NoCall.op \notin {op, other}
      BY <1>1 DEF Channel!Return, TypeInv, Channel!NoCall
<1>3. /\ \A u \in Threads \ {t} : u \notin Waiting(other) => wait'[u] = wait[u]
      /\ \A u \in Threads \ {t} : wait'[u] \in {wait[u], "woken"}
      /\ \/ Waiting(other) = {}
         \/ \E u \in Waiting(other) : wait'[u] = "woken"
      BY LeaveType, NotifyShape
<1>4. call[t].op = op
      BY DEF Awake, In
<1>5. \A u \in Waiting(other) \cup Woken(other) : u \in Threads \ {t} /\ u \notin In(op)
      BY <1>1, <1>4 DEF Waiting, Woken, In
<1>6. /\ \A u \in In(op)' : u \in Threads \ {t} /\ u \in In(op)
      /\ \A u \in In(op) \ {t} : u \in In(op)'
      /\ \A u \in In(other)' : u \in Threads \ {t} /\ u \in In(other)
      /\ \A u \in In(other) \ {t} : u \in In(other)'
      BY <1>2 DEF In
<1>7. \A u \in In(op) \ {t} : u \in Threads \ {t} /\ wait'[u] = wait[u]
      BY <1>3, <1>5 DEF In
<1>8. Waiting(op)' \subseteq Waiting(op) /\ Woken(op) \ {t} \subseteq Woken(op)'
      BY <1>6, <1>7 DEF Waiting, Woken
<1>9. Waiting(other)' \subseteq Waiting(other) /\ Woken(other) \subseteq Woken(other)'
      BY <1>3, <1>5, <1>6 DEF Waiting, Woken
<1>10. \A u \in Waiting(other) : wait'[u] = "woken" => u \in Woken(other)'
      BY <1>5, <1>6 DEF Waiting, Woken
<1>11. QED  BY <1>3, <1>8, <1>9, <1>10

(* A notify by a thread that is in no call.                                  *)
LEMMA NotifyWakes ==
  ASSUME TypeInv, UNCHANGED call, Notify("push", wait)
  PROVE  /\ Waiting("pop")' = Waiting("pop") /\ Woken("pop")' = Woken("pop")
         /\ Waiting("push")' \subseteq Waiting("push")
         /\ \/ Waiting("push") = {}
            \/ \E u \in Waiting("push") : Woken("push") \cup {u} \subseteq Woken("push")'
<1>1. /\ \A u \in Threads : u \notin Waiting("push") => wait'[u] = wait[u]
      /\ \A u \in Threads : wait'[u] \in {wait[u], "woken"}
      /\ \/ Waiting("push") = {}
         \/ \E u \in Waiting("push") : wait'[u] = "woken"
      BY NotifyShape DEF TypeInv
<1>2. In("push")' = In("push") /\ In("pop")' = In("pop")
      BY DEF In
<1>3. \A u \in In("pop") : u \in Threads /\ u \notin Waiting("push")
      BY DEF In, Waiting
<1>4. Waiting("pop")' = Waiting("pop") /\ Woken("pop")' = Woken("pop")
      BY <1>1, <1>2, <1>3 DEF Waiting, Woken
<1>5. \A u \in In("push") : u \in Threads
      BY DEF In
<1>6. Waiting("push")' \subseteq Waiting("push") /\ Woken("push") \subseteq Woken("push")'
      BY <1>1, <1>2, <1>5 DEF Waiting, Woken
<1>7. QED  BY <1>1, <1>2, <1>4, <1>6 DEF Waiting, Woken

LEMMA WakeupInit == Init => NoLostWakeup
BY DEF Init, Channel!ChannelInit, Channel!NoCall, NoLostWakeup, Waiting, In

LEMMA WakeupNext == TypeInv /\ TypeInv' /\ NoLostWakeup /\ [Next]_vars => NoLostWakeup'
<1> SUFFICES ASSUME TypeInv, TypeInv', NoLostWakeup, [Next]_vars PROVE NoLostWakeup'
    OBVIOUS
<1> DEFINE WakeOne(op) == \/ Waiting(op) = {}
                          \/ \E u \in Waiting(op) : Woken(op) \cup {u} \subseteq Woken(op)'
<1>a. /\ Len(xs_) \in Nat /\ Len(xs_') \in Nat
      /\ Len(xs_) <= capacity_ /\ Len(xs_') <= capacity_ /\ capacity_ \in Nat
      BY DEF TypeInv
<1>b. \A op : \A u \in Waiting(op) : u \notin Woken(op)
      BY DEF Waiting, Woken
<1>c. \A op : IsFiniteSet(Woken(op)) /\ IsFiniteSet(Woken(op)')
      BY WokenFinite
<1>d. \A op : Cardinality(Woken(op)) \in Nat /\ Cardinality(Woken(op)') \in Nat
      BY <1>c, FS_CardinalityType
<1>e. \A op : Waiting(op)' \subseteq Waiting(op) /\ WakeOne(op) =>
        Waiting(op)' = {} \/ Cardinality(Woken(op)) + 1 <= Cardinality(Woken(op)')
      BY <1>b, <1>c, Counts
<1>f. \A op, t : Woken(op) \ {t} \subseteq Woken(op)' =>
        Cardinality(Woken(op)) - 1 <= Cardinality(Woken(op)')
      BY <1>c, Counts
<1>g. \A op : Woken(op) \subseteq Woken(op)' => Cardinality(Woken(op)) <= Cardinality(Woken(op)')
      BY <1>c, Counts
<1>1. ASSUME NEW t \in Threads, Call(t) PROVE NoLostWakeup'
  <2>1. call[t] = Channel!NoCall /\ wait[t] = "no" /\ UNCHANGED <<xs_, wait>>
        /\ \A u \in Threads \ {t} : call'[u] = call[u]
        BY <1>1 DEF Call, Channel!Call, TypeInv
  <2>2. \A op : Waiting(op)' = Waiting(op) /\ Woken(op)' = Woken(op)
        BY <2>1 DEF Waiting, Woken, In
  <2>3. QED  BY <2>1, <2>2 DEF NoLostWakeup
<1>2. ASSUME NEW t \in Threads, PushWaits(t) PROVE NoLostWakeup'
  <2>1. /\ call[t].op = "push" /\ Len(xs_) = capacity_ /\ UNCHANGED <<xs_, call>>
        /\ \A u \in Threads \ {t} : wait'[u] = wait[u]
        BY <1>2 DEF PushWaits, Awake, In, TypeInv
  <2>2. Waiting("pop")' = Waiting("pop") /\ Woken("pop")' = Woken("pop")
        BY <2>1 DEF Waiting, Woken, In
  <2>3. QED  BY <1>a, <1>d, <2>1, <2>2 DEF NoLostWakeup
<1>3. ASSUME NEW t \in Threads, PopWaits(t) PROVE NoLostWakeup'
  <2>1. /\ call[t].op = "pop" /\ Len(xs_) = 0 /\ UNCHANGED <<xs_, call>>
        /\ \A u \in Threads \ {t} : wait'[u] = wait[u]
        BY <1>3 DEF PopWaits, Awake, In, TypeInv
  <2>2. Waiting("push")' = Waiting("push") /\ Woken("push")' = Woken("push")
        BY <2>1 DEF Waiting, Woken, In
  <2>3. QED  BY <1>a, <1>d, <2>1, <2>2 DEF NoLostWakeup
<1>4. ASSUME NEW t \in Threads, PushAdds(t) PROVE NoLostWakeup'
  <2>1. Len(xs_') = Len(xs_) + 1
        BY <1>4 DEF PushAdds, TypeInv
  <2>2. /\ Waiting("push")' \subseteq Waiting("push") /\ Woken("push") \ {t} \subseteq Woken("push")'
        /\ Waiting("pop")' \subseteq Waiting("pop") /\ WakeOne("pop")
    <3>1. Awake(t, "push") /\ Channel!Return(t) /\ Notify("pop", Leave(t))
          BY <1>4 DEF PushAdds
    <3>2. QED  BY <3>1, ReturnWakes
  <2>3. /\ Cardinality(Woken("push")) - 1 <= Cardinality(Woken("push")')
        /\ Waiting("pop")' = {} \/ Cardinality(Woken("pop")) + 1 <= Cardinality(Woken("pop")')
        BY <1>e, <1>f, <2>2
  <2>4. QED  BY <1>a, <1>d, <2>1, <2>2, <2>3 DEF NoLostWakeup
<1>5. ASSUME NEW t \in Threads, PopTakes(t) PROVE NoLostWakeup'
  <2>1. Len(xs_') = Len(xs_) - 1
        BY <1>5 DEF PopTakes, TypeInv
  <2>2. /\ Waiting("pop")' \subseteq Waiting("pop") /\ Woken("pop") \ {t} \subseteq Woken("pop")'
        /\ Waiting("push")' \subseteq Waiting("push") /\ WakeOne("push")
    <3>1. Awake(t, "pop") /\ Channel!Return(t) /\ Notify("push", Leave(t))
          BY <1>5 DEF PopTakes
    <3>2. QED  BY <3>1, ReturnWakes
  <2>3. /\ Cardinality(Woken("pop")) - 1 <= Cardinality(Woken("pop")')
        /\ Waiting("push")' = {} \/ Cardinality(Woken("push")) + 1 <= Cardinality(Woken("push")')
        BY <1>e, <1>f, <2>2
  <2>4. QED  BY <1>a, <1>d, <2>1, <2>2, <2>3 DEF NoLostWakeup
<1>6. ASSUME NEW t \in Threads, SpuriousWakeup(t) PROVE NoLostWakeup'
  <2>1. UNCHANGED <<xs_, call>> /\ \A u \in Threads : wait'[u] \in {wait[u], "woken"}
        BY <1>6 DEF SpuriousWakeup, TypeInv
  <2>2. \A op : Waiting(op)' \subseteq Waiting(op) /\ Woken(op) \subseteq Woken(op)'
        BY <2>1 DEF Waiting, Woken, In
  <2>3. QED  BY <1>a, <1>d, <1>g, <2>1, <2>2 DEF NoLostWakeup
<1>7. CASE TryPop
  <2>1. CASE xs_ = << >>
    <3>1. UNCHANGED <<xs_, call, wait>>
          BY <1>7, <2>1 DEF TryPop
    <3>2. QED  BY <3>1 DEF NoLostWakeup, Waiting, Woken, In
  <2>2. CASE xs_ # << >>
    <3>1. Len(xs_') = Len(xs_) - 1
          BY <1>7, <2>2 DEF TryPop, TypeInv
    <3>2. /\ Waiting("pop")' = Waiting("pop") /\ Woken("pop")' = Woken("pop")
          /\ Waiting("push")' \subseteq Waiting("push") /\ WakeOne("push")
          BY <1>7, <2>2, NotifyWakes DEF TryPop
    <3>3. Waiting("push")' = {} \/ Cardinality(Woken("push")) + 1 <= Cardinality(Woken("push")')
          BY <1>e, <3>2
    <3>4. QED  BY <1>a, <1>d, <3>1, <3>2, <3>3 DEF NoLostWakeup
  <2>3. QED  BY <2>1, <2>2
<1>8. CASE Clear
  <2>1. /\ Len(xs_') = 0 /\ UNCHANGED call
        /\ \A u \in Threads : wait'[u] = IF u \in Waiting("push") THEN "woken" ELSE wait[u]
        BY <1>8 DEF Clear, NotifyAll
  <2>2. Waiting("push")' = {}
        BY <2>1 DEF Waiting, In
  <2>3. QED  BY <1>d, <2>1, <2>2 DEF NoLostWakeup
<1>9. CASE UNCHANGED vars
      BY <1>9 DEF vars, NoLostWakeup, Waiting, Woken, In
<1>10. QED  BY <1>1, <1>2, <1>3, <1>4, <1>5, <1>6, <1>7, <1>8, <1>9 DEF Next, Step

(* notify_one in push, pop and try_pop and notify_all in clear wake enough   *)
(* threads: while a push waits, every free place has a woken push, and while *)
(* a pop waits, every element has a woken pop.                               *)
THEOREM WakeupsSuffice == Spec => []NoLostWakeup
BY TypeInit, TypeNext, WakeupInit, WakeupNext, PTL DEF Spec

-----------------------------------------------------------------------------
(* The refinement.                                                         *)

LEMMA ChannelStep ==
  TypeInv /\ [Next]_vars => [Channel!ChannelNext]_(Channel!channelVars)
<1> SUFFICES ASSUME TypeInv, Next PROVE Channel!ChannelNext \/ UNCHANGED Channel!channelVars
    BY DEF vars, Channel!channelVars
<1>1. ASSUME NEW t \in Threads, Call(t) PROVE Channel!ChannelNext
      BY <1>1 DEF Call, Channel!ChannelNext
<1>2. ASSUME NEW t \in Threads, PushAdds(t) PROVE Channel!ChannelNext
  <2>1. call[t].op = "push" /\ Len(xs_) < capacity_
        BY <1>2 DEF PushAdds, Awake, In, TypeInv
  <2>2. Channel!PushReturns(t)
        BY <1>2, <2>1 DEF PushAdds, Channel!PushReturns
  <2>3. QED  BY <2>2 DEF Channel!ChannelNext
<1>3. ASSUME NEW t \in Threads, PopTakes(t) PROVE Channel!ChannelNext
  <2>1. Channel!PopReturns(t)
        BY <1>3 DEF PopTakes, Awake, In, Channel!PopReturns
  <2>2. QED  BY <2>1 DEF Channel!ChannelNext
<1>4. ASSUME NEW t \in Threads, PushWaits(t) \/ PopWaits(t) \/ SpuriousWakeup(t)
      PROVE  UNCHANGED Channel!channelVars
      BY <1>4 DEF PushWaits, PopWaits, SpuriousWakeup, Channel!channelVars
<1>5. CASE TryPop
      BY <1>5 DEF TryPop, Channel!TryPop, Channel!ChannelNext
<1>6. CASE Clear
      BY <1>6 DEF Clear, Channel!Clear, Channel!ChannelNext
<1>7. QED  BY <1>1, <1>2, <1>3, <1>4, <1>5, <1>6 DEF Next, Step

(* The safety half of ImplementsChannel: what callers see of the bounded     *)
(* queue, whatever waits, notifies and spurious wakeups happen inside, is a  *)
(* first in first out channel of capacity_ places.                           *)
THEOREM QueueIsChannel == Spec => Channel!ChannelSafety
<1>1. Init => Channel!ChannelInit
      BY DEF Init
<1>2. QED  BY <1>1, TypeInit, TypeNext, ChannelStep, PTL DEF Spec, Channel!ChannelSafety
===============================================================================
