---------------------------- MODULE ExchangeProofs ----------------------------
(***************************************************************************)
(* Proofs about Exchange, for any operator that keeps to OperatorContract  *)
(* (which TLC checks of the operators of src/flow): whatever the two       *)
(* threads do when, next() returns the operator's stream.                  *)
(***************************************************************************)
EXTENDS Exchange, TLAPS

USE MaxPastEndAssumption, MaxResetsAssumption

-----------------------------------------------------------------------------
(* The inductive invariant.                                                *)

(* Where an operator is that was read i times. *)
Read(i) == IF i < Len(Stream) THEN i ELSE Len(Stream)

Types ==
  /\ buffer \in Seq([first : 0..MaxResets, second : Tuples])
  /\ signals \in Seq({"RESET", "DIE"})
  /\ bufferWait \in [{"parent"} -> {"no", "waiting", "woken"}]
  /\ signalsWait \in [{"child"} -> {"no", "waiting", "woken"}]
  /\ child \in {"unborn", "populate", "try_pop", "clear", "pop", "dead"}
  /\ num_resets \in Nat /\ num_resets_ \in 0..MaxResets
  /\ parent \in {"direct", "idle", "next", "joining", "destroyed"}
  /\ direct \in Seq(Tuples) /\ got \in Seq(Tuples)
  /\ early \in BOOLEAN

(* Before the Exchange there are no queues and nothing is counted, and the   *)
(* operator is where the parent's direct calls left it.                      *)
Before ==
  parent = "direct" => /\ child = "unborn" /\ buffer = << >> /\ signals = << >> /\ got = << >>
                       /\ num_resets = 0 /\ num_resets_ = 0
                       /\ OpAt(child_) = Read(Len(direct))

Unborn == child = "unborn" => parent = "direct"

DirectInOrder == \A i \in DOMAIN direct : direct[i] = Answer(i)

(* DIE is the last signal, so the resets the child has not yet taken are the *)
(* signals without it.                                                       *)
DieLast ==
  \A i \in 1..Len(signals) :
    signals[i] = "DIE" => i = Len(signals) /\ parent \in {"joining", "destroyed"}

Resets(s) == Len(s) - (IF s # << >> /\ s[Len(s)] = "DIE" THEN 1 ELSE 0)

Pending == Resets(signals)

Clearing == IF child = "clear" THEN 1 ELSE 0

ResetsCounted == num_resets + Pending + Clearing = num_resets_

(* The buffer is n entries from before the last reset, which next() will     *)
(* skip, and then the stream from where got ends; got and those entries are  *)
(* all that the child has produced since it took that reset.                 *)
Segment(n) ==
  /\ \A i \in 1..n : buffer[i].first <= num_resets /\ buffer[i].first < num_resets_
  /\ \A i \in (n + 1)..Len(buffer) :
       buffer[i].first = num_resets_ /\ buffer[i].second = Answer(Start + Len(got) + (i - n))
  /\ Start + Len(got) + (Len(buffer) - n) <= Len(Stream) + 1
  /\ num_resets < num_resets_ => n = Len(buffer) /\ got = << >>
  /\ num_resets = num_resets_ /\ child \in {"unborn", "populate", "try_pop"} =>
       OpAt(child_) = Start + Len(got) + (Len(buffer) - n)

BufferInv == \E n \in 0..Len(buffer) : Segment(n)

GotInOrder == \A i \in DOMAIN got : got[i] = Answer(Start + i)

Inv == /\ Types /\ Before /\ Unborn /\ DirectInOrder
       /\ DieLast /\ ResetsCounted
       /\ BufferInv /\ GotInOrder

-----------------------------------------------------------------------------
(* Facts about the stream and the queues.                                  *)

LEMMA StreamFacts ==
  ASSUME OperatorContract
  PROVE  /\ Stream \in Seq(Tuples \ {EmptyOptional}) /\ Len(Stream) \in Nat
         /\ \A i \in Nat \ {0} : Answer(i) \in Tuples
         /\ \A i \in Nat \ {0} : Answer(i) = EmptyOptional <=> i > Len(Stream)
         /\ \A i \in Nat : Read(i) \in Nat /\ Read(i) <= Len(Stream)
<1>1. Stream \in Seq(Tuples \ {EmptyOptional}) /\ Len(Stream) \in Nat
      BY DEF OperatorContract, Keeps
<1>2. \A i \in Nat \ {0} : i <= Len(Stream) => Stream[i] \in Tuples \ {EmptyOptional}
      BY <1>1
<1>3. EmptyOptional \in Tuples
      BY DEF Tuples
<1>4. QED  BY <1>1, <1>2, <1>3 DEF Answer, Read

(* What the operator is after a step: as it was, one further, or reset.      *)
LEMMA OperatorSteps ==
  ASSUME OperatorContract, [Next]_vars
  PROVE  child_' \in {child_, OpNext(child_).op, OpReset(child_)}
BY DEF Next, DirectNext, DirectReset, Construct, ChildPopulateBuffer, PushTuple, PushEnd,
       NoSignal, TakeSignal, ClearAndDie, PopSignalWaits, PopSignal, Parent, PopTupleWaits,
       PopTuple, Join, next, reset, Destroy, SpuriousWakeup, vars, childVars

(* The stream itself never changes.                                          *)
LEMMA StreamStays ==
  ASSUME OperatorContract, [Next]_vars
  PROVE  /\ Stream' = Stream /\ Tuples' = Tuples
         /\ \A i : Answer(i)' = Answer(i) /\ Read(i)' = Read(i)
<1>1. Stream' = Stream
      BY OperatorSteps DEF OperatorContract, Keeps, Stream
<1>2. QED  BY <1>1 DEF Tuples, Answer, Read

LEMMA AppendFacts ==
  ASSUME NEW S, NEW s \in Seq(S), NEW x \in S
  PROVE  /\ Append(s, x) \in Seq(S) /\ Len(s) \in Nat /\ Len(Append(s, x)) = Len(s) + 1
         /\ \A i \in 1..Len(s) : Append(s, x)[i] = s[i]
         /\ Append(s, x)[Len(s) + 1] = x
         /\ DOMAIN s = 1..Len(s) /\ DOMAIN Append(s, x) = 1..(Len(s) + 1)
OBVIOUS

LEMMA TailFacts ==
  ASSUME NEW S, NEW s \in Seq(S), s # << >>
  PROVE  /\ Tail(s) \in Seq(S) /\ Len(s) \in Nat \ {0} /\ Len(Tail(s)) = Len(s) - 1
         /\ \A i \in 1..(Len(s) - 1) : Tail(s)[i] = s[i + 1]
         /\ Head(s) = s[1] /\ Head(s) \in S
OBVIOUS

LEMMA ElementFacts ==
  ASSUME NEW S, NEW s \in Seq(S)
  PROVE  \A i \in 1..Len(s) : s[i] \in S
OBVIOUS

LEMMA EntryFacts ==
  ASSUME Types
  PROVE  \A i \in 1..Len(buffer) : buffer[i].first \in Nat /\ buffer[i].second \in Tuples
<1>1. buffer \in Seq([first : 0..MaxResets, second : Tuples])
      BY DEF Types
<1>2. \A i \in 1..Len(buffer) : buffer[i] \in [first : 0..MaxResets, second : Tuples]
      BY <1>1, ElementFacts
<1>3. QED  BY <1>2

(* The sleeping and waking inside the queues keeps their types.              *)
LEMMA WaitTypes ==
  ASSUME Types, [Next]_vars
  PROVE  /\ bufferWait' \in [{"parent"} -> {"no", "waiting", "woken"}]
         /\ signalsWait' \in [{"child"} -> {"no", "waiting", "woken"}]
<1>1. \/ UNCHANGED bufferWait
      \/ buffer_!NotifyOne \/ buffer_!PopWaits("parent")
      \/ buffer_!PopTakes("parent") \/ buffer_!SpuriousWakeup("parent")
      BY DEF Next, DirectNext, DirectReset, Construct, ChildPopulateBuffer, PushTuple, PushEnd,
             NoSignal, TakeSignal, ClearAndDie, PopSignalWaits, PopSignal, Parent, PopTupleWaits,
             PopTuple, Join, next, reset, Destroy, SpuriousWakeup, vars, buffer_!Push, buffer_!Clear
<1>2. \/ UNCHANGED signalsWait
      \/ signals_!NotifyOne \/ signals_!PopWaits("child")
      \/ signals_!PopTakes("child") \/ signals_!SpuriousWakeup("child")
      BY DEF Next, DirectNext, DirectReset, Construct, ChildPopulateBuffer, PushTuple, PushEnd,
             NoSignal, TakeSignal, ClearAndDie, PopSignalWaits, PopSignal, Parent, PopTupleWaits,
             PopTuple, Join, next, reset, Destroy, SpuriousWakeup, vars, signals_!Push,
             signals_!TryPopTakes
<1>3. bufferWait' \in [{"parent"} -> {"no", "waiting", "woken"}]
      BY <1>1 DEF Types, buffer_!NotifyOne, buffer_!PopWaits, buffer_!PopTakes,
                  buffer_!SpuriousWakeup
<1>4. signalsWait' \in [{"child"} -> {"no", "waiting", "woken"}]
      BY <1>2 DEF Types, signals_!NotifyOne, signals_!PopWaits, signals_!PopTakes,
                  signals_!SpuriousWakeup
<1>5. QED  BY <1>3, <1>4

LEMMA InvInit == OperatorContract /\ Init => Inv
<1> SUFFICES ASSUME OperatorContract, Init PROVE Inv
    OBVIOUS
<1>1. /\ buffer = << >> /\ signals = << >> /\ bufferWait = [t \in {"parent"} |-> "no"]
      /\ signalsWait = [t \in {"child"} |-> "no"]
      /\ child = "unborn" /\ num_resets = 0 /\ parent = "direct" /\ num_resets_ = 0
      /\ direct = << >> /\ got = << >> /\ early = FALSE
      BY DEF Init, buffer_!QueueInit, signals_!QueueInit
<1>2. OpAt(child_) = 0 /\ Len(Stream) \in Nat
      BY <1>1, StreamFacts DEF OperatorContract, Keeps
<1>3. Types
  <2>1. /\ buffer \in Seq([first : 0..MaxResets, second : Tuples])
        /\ signals \in Seq({"RESET", "DIE"}) /\ direct \in Seq(Tuples) /\ got \in Seq(Tuples)
        BY <1>1
  <2>2. /\ bufferWait \in [{"parent"} -> {"no", "waiting", "woken"}]
        /\ signalsWait \in [{"child"} -> {"no", "waiting", "woken"}]
        BY <1>1
  <2>3. num_resets \in Nat /\ num_resets_ \in 0..MaxResets
        BY <1>1
  <2>4. QED  BY <1>1, <2>1, <2>2, <2>3, Zenon DEF Types
<1>4. Before /\ Unborn /\ DirectInOrder /\ DieLast /\ GotInOrder
      BY <1>1, <1>2 DEF Before, Unborn, DirectInOrder, DieLast, GotInOrder, Read
<1>5. ResetsCounted
      BY <1>1 DEF ResetsCounted, Pending, Clearing, Resets
<1>6. Start = 0
      BY <1>1, <1>2 DEF Start
<1>7. Segment(0)
      BY <1>1, <1>2, <1>6 DEF Segment
<1>8. QED  BY <1>1, <1>3, <1>4, <1>5, <1>7 DEF Inv, BufferInv

-----------------------------------------------------------------------------
(* The operator on its own.                                                *)

LEMMA DirectSteps ==
  ASSUME OperatorContract, OperatorContract', Inv, [Next]_vars, DirectNext \/ DirectReset
  PROVE  Inv'
<1>1. /\ parent = "direct"
      /\ UNCHANGED <<buffer, bufferWait, signals, signalsWait, child, num_resets,
                     parent, num_resets_, got, early>>
      BY DEF DirectNext, DirectReset
<1>2. /\ child = "unborn" /\ buffer = << >> /\ signals = << >> /\ got = << >>
      /\ num_resets = 0 /\ num_resets_ = 0 /\ OpAt(child_) = Read(Len(direct))
      /\ direct \in Seq(Tuples) /\ Len(direct) \in Nat
      BY <1>1 DEF Inv, Before, Types
<1>3. /\ Stream' = Stream /\ Tuples' = Tuples /\ Len(Stream) \in Nat
      /\ \A i : Answer(i)' = Answer(i) /\ Read(i)' = Read(i)
      BY StreamStays, StreamFacts
<1>4. direct' \in Seq(Tuples) /\ DirectInOrder' /\ OpAt(child_') = Read(Len(direct'))
  <2>1. CASE DirectReset
    <3>1. direct' = << >> /\ OpAt(child_') = 0
          BY <2>1 DEF DirectReset, OperatorContract, Keeps
    <3>2. QED  BY <1>3, <3>1 DEF DirectInOrder, Read
  <2>2. CASE DirectNext
    <3>1. /\ direct' = Append(direct, OpNext(child_).x) /\ child_' = OpNext(child_).op
          /\ OpNext(child_).x = Answer(OpAt(child_) + 1)
          /\ OpAt(child_') = IF OpAt(child_) < Len(Stream) THEN OpAt(child_) + 1 ELSE OpAt(child_)
          BY <2>2 DEF DirectNext, OperatorContract, Keeps
    <3>2. Answer(OpAt(child_) + 1) = Answer(Len(direct) + 1)
          BY <1>2, <1>3 DEF Read, Answer
    <3>3. Answer(Len(direct) + 1) \in Tuples
          BY <1>2, StreamFacts
    <3>4. /\ direct' \in Seq(Tuples) /\ Len(direct') = Len(direct) + 1
          /\ DOMAIN direct' = 1..(Len(direct) + 1) /\ DOMAIN direct = 1..Len(direct)
          /\ \A i \in 1..Len(direct) : direct'[i] = direct[i]
          /\ direct'[Len(direct) + 1] = Answer(Len(direct) + 1)
          BY <1>2, <3>1, <3>2, <3>3
    <3>5. DirectInOrder'
      <4>1. \A i \in 1..(Len(direct) + 1) : i \in 1..Len(direct) \/ i = Len(direct) + 1
            BY <1>2
      <4>2. QED  BY <1>3, <3>4, <4>1 DEF Inv, DirectInOrder
    <3>6. OpAt(child_') = Read(Len(direct'))
          BY <1>2, <1>3, <3>1, <3>4 DEF Read
    <3>7. QED  BY <3>4, <3>5, <3>6
  <2>3. QED  BY <2>1, <2>2
<1>5. Types'
      BY <1>1, <1>3, <1>4 DEF Inv, Types
<1>6. Before' /\ Unborn'
      BY <1>1, <1>2, <1>3, <1>4 DEF Before, Unborn
<1>7. DieLast' /\ GotInOrder'
      BY <1>1, <1>2 DEF DieLast, GotInOrder
<1>8. ResetsCounted'
      BY <1>1 DEF Inv, ResetsCounted, Pending, Clearing, Resets
<1>9. Start' = Read(Len(direct')) /\ Start' \in Nat /\ Start' <= Len(Stream)
  <2>1. Len(direct') \in Nat
        BY <1>4
  <2>2. Start' = Read(Len(direct'))
        BY <1>1, <1>2, <1>3 DEF Start, Read
  <2>3. QED  BY <2>1, <2>2, StreamFacts
<1>10. Segment(0)'
      BY <1>1, <1>2, <1>3, <1>4, <1>9 DEF Segment
<1>11. BufferInv'
      BY <1>1, <1>2, <1>10 DEF BufferInv
<1>12. QED  BY <1>4, <1>5, <1>6, <1>7, <1>8, <1>11 DEF Inv

-----------------------------------------------------------------------------
(* The child.                                                              *)

(* Start is where the stream after the last reset begins; nobody moves it    *)
(* but direct calls and resets.                                              *)
LEMMA StartFacts ==
  ASSUME OperatorContract, Types
  PROVE  Start \in Nat /\ Start <= Len(Stream)
<1>1. Len(direct) \in Nat /\ Len(Stream) \in Nat
      BY StreamFacts DEF Types
<1>2. QED  BY <1>1 DEF Start

LEMMA StartStays ==
  ASSUME OperatorContract, [Next]_vars, UNCHANGED <<num_resets_, direct>>
  PROVE  Start' = Start
BY StreamStays DEF Start

(* The child pushes what its operator is at.                                 *)
LEMMA PushSteps ==
  ASSUME OperatorContract, Inv, [Next]_vars, PushTuple \/ PushEnd
  PROVE  Inv'
<1> DEFINE x == OpNext(child_).x
           e == [first |-> num_resets, second |-> x]
<1>1. /\ child = "populate" /\ child_' = OpNext(child_).op /\ buffer' = Append(buffer, e)
      /\ child' = IF x = EmptyOptional THEN "pop" ELSE "try_pop"
      /\ UNCHANGED <<signals, signalsWait, num_resets, parent, num_resets_, direct, got, early>>
      BY DEF PushTuple, PushEnd, buffer_!Push, parentVars
<1>2. /\ Stream' = Stream /\ Tuples' = Tuples /\ Len(Stream) \in Nat
      /\ \A i : Answer(i)' = Answer(i) /\ Read(i)' = Read(i)
      BY StreamStays, StreamFacts
<1>3. /\ OpAt(child_) \in 0..Len(Stream) /\ x = Answer(OpAt(child_) + 1)
      /\ x = EmptyOptional <=> OpAt(child_) = Len(Stream)
      /\ OpAt(child_) < Len(Stream) => OpAt(child_') = OpAt(child_) + 1
  <2>1. /\ OpAt(child_) \in 0..Len(Stream) /\ x = Answer(OpAt(child_) + 1)
        /\ OpAt(child_') = IF OpAt(child_) < Len(Stream) THEN OpAt(child_) + 1 ELSE OpAt(child_)
        BY <1>1 DEF OperatorContract, Keeps
  <2>2. OpAt(child_) + 1 \in Nat \ {0}
        BY <1>2, <2>1
  <2>3. Answer(OpAt(child_) + 1) = EmptyOptional <=> OpAt(child_) + 1 > Len(Stream)
        BY <2>2, StreamFacts
  <2>4. QED  BY <1>2, <2>1, <2>3
<1>4. x \in Tuples
  <2>1. OpAt(child_) + 1 \in Nat \ {0}
        BY <1>2, <1>3
  <2>2. QED  BY <1>3, <2>1, StreamFacts
<1>5. num_resets \in Nat /\ num_resets_ \in Nat /\ num_resets <= num_resets_ /\ num_resets_ <= MaxResets
  <2>1. num_resets \in Nat /\ num_resets_ \in 0..MaxResets /\ Len(signals) \in Nat
        BY DEF Inv, Types
  <2>2. signals # << >> => Len(signals) > 0
        BY DEF Inv, Types
  <2>3. QED  BY <2>1, <2>2 DEF Inv, ResetsCounted, Pending, Clearing, Resets
<1>6. e \in [first : 0..MaxResets, second : Tuples]
      BY <1>4, <1>5
<1> HIDE DEF x
<1>7. e.first = num_resets /\ e.second = x
      OBVIOUS
<1> HIDE DEF e
<1>8. /\ buffer' \in Seq([first : 0..MaxResets, second : Tuples])
      /\ Len(buffer) \in Nat /\ Len(buffer') = Len(buffer) + 1
      /\ \A i \in 1..Len(buffer) : buffer'[i] = buffer[i]
      /\ buffer'[Len(buffer) + 1] = e
  <2>1. buffer \in Seq([first : 0..MaxResets, second : Tuples])
        BY DEF Inv, Types
  <2>2. QED  BY <1>1, <1>6, <2>1, AppendFacts
<1>9. Types'
      BY <1>1, <1>2, <1>8, WaitTypes DEF Inv, Types
<1>10. Before' /\ Unborn' /\ DirectInOrder' /\ DieLast'
      BY <1>1, <1>2 DEF Inv, Before, Unborn, DirectInOrder, DieLast
<1>11. ResetsCounted'
      BY <1>1 DEF Inv, ResetsCounted, Pending, Clearing, Resets
<1>12. Start' = Start /\ Start \in Nat /\ Len(got) \in Nat
      BY <1>1, StartStays, StartFacts DEF Inv, Types
<1>13. GotInOrder'
      BY <1>1, <1>2, <1>12 DEF Inv, GotInOrder
<1>14. PICK n \in 0..Len(buffer) : Segment(n)
      BY DEF Inv, BufferInv
<1>15. CASE num_resets < num_resets_
  <2>1. n = Len(buffer) /\ got = << >>
        BY <1>14, <1>15 DEF Segment
  <2>2. \A i \in 1..(Len(buffer) + 1) : i \in 1..Len(buffer) \/ i = Len(buffer) + 1
        BY <1>8
  <2>3. \A i \in 1..(Len(buffer) + 1) : buffer'[i].first <= num_resets /\ buffer'[i].first < num_resets_
        BY <1>5, <1>7, <1>8, <1>14, <1>15, <2>1, <2>2 DEF Segment
  <2>4. Start + Len(got) + (Len(buffer') - (Len(buffer) + 1)) <= Len(Stream) + 1
        BY <1>2, <1>8, <1>12, <2>1, StartFacts DEF Inv
  <2>5. PICK m \in Nat : m = Len(buffer) + 1
        BY <1>8
  <2>6. Segment(m)'
        BY <1>1, <1>2, <1>5, <1>8, <1>12, <1>15, <2>1, <2>3, <2>4, <2>5 DEF Segment
  <2>7. m \in 0..Len(buffer')
        BY <1>8, <2>5
  <2>8. QED
        BY <1>9, <1>10, <1>11, <1>13, <2>6, <2>7 DEF Inv, BufferInv
<1>16. CASE num_resets = num_resets_
  <2>1. OpAt(child_) = Start + Len(got) + (Len(buffer) - n)
        BY <1>1, <1>14, <1>16 DEF Segment
  <2>2. \A i \in (n + 1)..(Len(buffer) + 1) : i \in (n + 1)..Len(buffer) \/ i = Len(buffer) + 1
        BY <1>8, <1>14
  <2>3. \A i \in (n + 1)..(Len(buffer) + 1) :
          buffer'[i].first = num_resets_ /\ buffer'[i].second = Answer(Start + Len(got) + (i - n))
    <3>1. \A i \in (n + 1)..Len(buffer) : i \in 1..Len(buffer)
          BY <1>8, <1>14
    <3>2. OpAt(child_) + 1 = Start + Len(got) + ((Len(buffer) + 1) - n)
          BY <1>8, <1>12, <1>14, <2>1
    <3>3. QED  BY <1>3, <1>7, <1>8, <1>14, <1>16, <2>2, <3>1, <3>2 DEF Segment
  <2>4. \A i \in 1..n : buffer'[i].first <= num_resets /\ buffer'[i].first < num_resets_
    <3>1. \A i \in 1..n : i \in 1..Len(buffer)
          BY <1>8, <1>14
    <3>2. QED  BY <1>8, <1>14, <3>1 DEF Segment
  <2>5. Start + Len(got) + (Len(buffer') - n) <= Len(Stream) + 1
        BY <1>2, <1>3, <1>8, <1>12, <1>14, <2>1
  <2>6. child' = "try_pop" => OpAt(child_') = Start + Len(got) + (Len(buffer') - n)
    <3>1. child' = "try_pop" => OpAt(child_) < Len(Stream)
          BY <1>1, <1>2, <1>3
    <3>2. QED  BY <1>2, <1>3, <1>8, <1>12, <1>14, <2>1, <3>1
  <2>7. Segment(n)'
        BY <1>1, <1>2, <1>5, <1>8, <1>12, <1>16, <2>3, <2>4, <2>5, <2>6 DEF Segment, Answer
  <2>8. n \in 0..Len(buffer')
        BY <1>8, <1>14
  <2>9. QED
        BY <1>9, <1>10, <1>11, <1>13, <2>7, <2>8 DEF Inv, BufferInv
<1>17. QED  BY <1>5, <1>15, <1>16

(* Whatever uses neither the buffer nor the operator.                        *)
LEMMA BufferStays ==
  ASSUME OperatorContract, Inv, [Next]_vars,
         UNCHANGED <<buffer, got, num_resets_, direct, child_, num_resets>>,
         child' \in {"unborn", "populate", "try_pop"} => child \in {"unborn", "populate", "try_pop"}
  PROVE  BufferInv' /\ GotInOrder' /\ DirectInOrder'
<1>1. /\ Stream' = Stream /\ \A i : Answer(i)' = Answer(i)
      BY StreamStays
<1>2. Start' = Start
      BY StartStays
<1>3. PICK n \in 0..Len(buffer) : Segment(n)
      BY DEF Inv, BufferInv
<1>4. Segment(n)'
      BY <1>1, <1>2, <1>3 DEF Segment, Answer
<1>5. GotInOrder' /\ DirectInOrder'
      BY <1>1, <1>2 DEF Inv, GotInOrder, DirectInOrder
<1>6. QED  BY <1>3, <1>4, <1>5 DEF BufferInv

(* The signals after the first: one reset less, or DIE was taken.            *)
LEMMA DropFirst ==
  ASSUME NEW s \in Seq({"RESET", "DIE"}), NEW t \in Seq({"RESET", "DIE"}),
         Len(s) \in Nat \ {0}, Len(t) = Len(s) - 1,
         \A i \in 1..(Len(s) - 1) : t[i] = s[i + 1],
         \A i \in 1..Len(s) : s[i] = "DIE" => i = Len(s)
  PROVE  /\ \A i \in 1..Len(t) : t[i] = "DIE" => i = Len(t) /\ s[Len(s)] = "DIE"
         /\ Resets(s) \in Nat /\ Resets(t) \in Nat
         /\ s[1] = "RESET" => Resets(t) = Resets(s) - 1
         /\ s[1] = "DIE" => Resets(t) = Resets(s)
<1>1. s # << >> /\ Len(t) \in Nat
      OBVIOUS
<1>2. \A i \in 1..Len(t) : t[i] = "DIE" => i = Len(t) /\ s[Len(s)] = "DIE"
  <2> SUFFICES ASSUME NEW i \in 1..Len(t), t[i] = "DIE"
               PROVE  i = Len(t) /\ s[Len(s)] = "DIE"
      OBVIOUS
  <2>1. i + 1 \in 1..Len(s) /\ s[i + 1] = "DIE"
        OBVIOUS
  <2>2. i + 1 = Len(s)
        BY <2>1
  <2>3. QED  BY <2>1, <2>2
<1>3. CASE Len(s) = 1
  <2>1. t = << >> /\ Len(t) = 0
        BY <1>3
  <2>2. Resets(t) = 0
        BY <2>1 DEF Resets
  <2>3. s[1] = "DIE" => Resets(s) = 0
        BY <1>1, <1>3 DEF Resets
  <2>4. s[1] = "RESET" => Resets(s) = 1
        BY <1>1, <1>3 DEF Resets
  <2>5. s[1] \in {"RESET", "DIE"}
        BY <1>3
  <2>6. QED  BY <1>2, <2>2, <2>3, <2>4, <2>5
<1>4. CASE Len(s) # 1
  <2>1. Len(t) \in 1..(Len(s) - 1) /\ Len(t) + 1 = Len(s) /\ t # << >>
        BY <1>4
  <2>2. t[Len(t)] = s[Len(s)]
        BY <2>1
  <2>3. 1 \in 1..Len(s) /\ s[1] # "DIE"
        BY <1>4
  <2>4. CASE s[Len(s)] = "DIE"
        BY <1>1, <1>2, <2>1, <2>2, <2>3, <2>4 DEF Resets
  <2>5. CASE s[Len(s)] # "DIE"
        BY <1>1, <1>2, <2>1, <2>2, <2>3, <2>5 DEF Resets
  <2>6. QED  BY <2>4, <2>5
<1>5. QED  BY <1>3, <1>4

(* A signal after the others.                                                *)
LEMMA AddLast ==
  ASSUME NEW s \in Seq({"RESET", "DIE"}), NEW x \in {"RESET", "DIE"},
         \A i \in 1..Len(s) : s[i] # "DIE"
  PROVE  /\ \A i \in 1..Len(Append(s, x)) :
               Append(s, x)[i] = "DIE" => i = Len(Append(s, x)) /\ x = "DIE"
         /\ Resets(s) \in Nat
         /\ x = "RESET" => Resets(Append(s, x)) = Resets(s) + 1
         /\ x = "DIE" => Resets(Append(s, x)) = Resets(s)
<1>1. PICK t \in Seq({"RESET", "DIE"}) : t = Append(s, x)
      BY AppendFacts
<1>2. /\ Len(s) \in Nat /\ Len(t) = Len(s) + 1 /\ t[Len(t)] = x /\ t # << >>
      /\ \A i \in 1..Len(s) : t[i] = s[i]
  <2>1. /\ Len(s) \in Nat /\ Len(t) = Len(s) + 1 /\ t[Len(s) + 1] = x
        /\ \A i \in 1..Len(s) : t[i] = s[i]
        BY <1>1, AppendFacts
  <2>2. t # << >>
        BY <2>1
  <2>3. QED  BY <2>1, <2>2
<1>3. \A i \in 1..Len(t) : t[i] = "DIE" => i = Len(t) /\ x = "DIE"
  <2>1. \A i \in 1..Len(t) : i \in 1..Len(s) \/ i = Len(t)
        BY <1>2
  <2>2. QED  BY <1>2, <2>1
<1>4. Resets(s) = Len(s)
  <2>1. s # << >> => Len(s) \in 1..Len(s)
        OBVIOUS
  <2>2. ~(s # << >> /\ s[Len(s)] = "DIE")
        BY <2>1
  <2>3. QED  BY <1>2, <2>2 DEF Resets
<1>5. x = "RESET" => Resets(t) = Len(t)
      BY <1>2 DEF Resets
<1>6. x = "DIE" => Resets(t) = Len(t) - 1
      BY <1>2 DEF Resets
<1>7. /\ Resets(s) \in Nat
      /\ x = "RESET" => Resets(t) = Resets(s) + 1
      /\ x = "DIE" => Resets(t) = Resets(s)
      BY <1>2, <1>4, <1>5, <1>6
<1>8. QED  BY <1>1, <1>3, <1>7

LEMMA SignalTaken ==
  ASSUME Inv, signals # << >>, signals' = Tail(signals), parent' = parent
  PROVE  /\ signals' \in Seq({"RESET", "DIE"}) /\ DieLast'
         /\ Pending \in Nat /\ Pending' \in Nat
         /\ Head(signals) \in {"RESET", "DIE"}
         /\ Head(signals) = "RESET" => Pending' = Pending - 1
         /\ Head(signals) = "DIE" => Pending' = Pending
<1>1. PICK s \in Seq({"RESET", "DIE"}) : s = signals
      BY DEF Inv, Types
<1>2. PICK t \in Seq({"RESET", "DIE"}) : t = signals'
      BY <1>1, TailFacts
<1>3. /\ Len(s) \in Nat \ {0} /\ Len(t) = Len(s) - 1
      /\ \A i \in 1..(Len(s) - 1) : t[i] = s[i + 1]
      /\ Head(signals) = s[1] /\ Head(signals) \in {"RESET", "DIE"}
      BY <1>1, <1>2, TailFacts
<1>4. \A i \in 1..Len(s) : s[i] = "DIE" => i = Len(s) /\ parent \in {"joining", "destroyed"}
      BY <1>1 DEF Inv, DieLast
<1>5. /\ \A i \in 1..Len(t) : t[i] = "DIE" => i = Len(t) /\ s[Len(s)] = "DIE"
      /\ Resets(s) \in Nat /\ Resets(t) \in Nat
      /\ s[1] = "RESET" => Resets(t) = Resets(s) - 1
      /\ s[1] = "DIE" => Resets(t) = Resets(s)
      BY <1>3, <1>4, DropFirst
<1>6. Pending = Resets(s) /\ Pending' = Resets(t)
      BY <1>1, <1>2 DEF Pending
<1>7. DieLast'
  <2>1. Len(s) \in 1..Len(s)
        BY <1>3
  <2>2. \A i \in 1..Len(t) : t[i] = "DIE" => i = Len(t) /\ parent' \in {"joining", "destroyed"}
        BY <1>4, <1>5, <2>1
  <2>3. QED  BY <1>2, <2>2 DEF DieLast
<1>8. QED  BY <1>2, <1>3, <1>5, <1>6, <1>7

LEMMA CountFacts ==
  ASSUME Inv
  PROVE  /\ Pending \in Nat /\ num_resets \in Nat /\ num_resets_ \in 0..MaxResets
         /\ num_resets <= num_resets_
         /\ child = "clear" => num_resets < num_resets_
<1>1. num_resets \in Nat /\ num_resets_ \in 0..MaxResets /\ Len(signals) \in Nat
      BY DEF Inv, Types
<1>2. signals # << >> => Len(signals) > 0
      BY DEF Inv, Types
<1>3. Pending \in Nat
      BY <1>1, <1>2 DEF Pending, Resets
<1>4. QED  BY <1>1, <1>3 DEF Inv, ResetsCounted, Clearing

(* A reset the child takes while waiting for one: its operator is at its     *)
(* start, and if this is the parent's last reset nothing of its stream is    *)
(* in the buffer yet.                                                        *)
LEMMA SegmentReset ==
  ASSUME OperatorContract, Inv, [Next]_vars, num_resets < num_resets_,
         num_resets' = num_resets + 1, child_' = OpReset(child_),
         UNCHANGED <<buffer, got, num_resets_, direct>>
  PROVE  BufferInv' /\ GotInOrder' /\ DirectInOrder'
<1>1. /\ Stream' = Stream /\ \A i : Answer(i)' = Answer(i)
      /\ OpAt(child_') = 0 /\ Start' = Start
      BY StreamStays, StartStays DEF OperatorContract, Keeps
<1>2. PICK n \in 0..Len(buffer) : Segment(n)
      BY DEF Inv, BufferInv
<1>3. n = Len(buffer) /\ got = << >> /\ Len(got) = 0 /\ Start = 0
      /\ num_resets \in Nat /\ num_resets_ \in Nat /\ Len(buffer) \in Nat
      BY <1>2, CountFacts DEF Segment, Start, Inv, Types
<1>4. Segment(n)'
  <2>1. \A i \in 1..n : buffer[i].first \in Nat
    <3>1. Types
          BY DEF Inv
    <3>2. QED  BY <1>3, <3>1, EntryFacts
  <2>2. QED  BY <1>1, <1>2, <1>3, <2>1 DEF Segment
<1>5. GotInOrder' /\ DirectInOrder'
      BY <1>1 DEF Inv, GotInOrder, DirectInOrder
<1>6. QED  BY <1>2, <1>4, <1>5 DEF BufferInv

LEMMA SignalSteps ==
  ASSUME OperatorContract, Inv, [Next]_vars,
         NoSignal \/ TakeSignal \/ PopSignalWaits \/ PopSignal
  PROVE  Inv'
<1>1. /\ UNCHANGED <<buffer, bufferWait, parent, num_resets_, direct, got, early>>
      /\ child \in {"try_pop", "pop"} /\ child' \in {"populate", "clear", "dead", "pop"}
      BY DEF NoSignal, TakeSignal, PopSignalWaits, PopSignal, parentVars, childVars
<1>2. Tuples' = Tuples /\ Stream' = Stream
      BY StreamStays
<1>3. /\ parent # "direct"
      /\ bufferWait' \in [{"parent"} -> {"no", "waiting", "woken"}]
      /\ signalsWait' \in [{"child"} -> {"no", "waiting", "woken"}]
      BY <1>1, WaitTypes DEF Inv, Before
<1>4. Before' /\ Unborn'
      BY <1>1, <1>3 DEF Before, Unborn
<1>5. CASE NoSignal \/ PopSignalWaits
  <2>1. UNCHANGED <<signals, child_, num_resets>> /\ child # "clear" /\ child' # "clear"
        /\ (child' \in {"unborn", "populate", "try_pop"} => child = "try_pop")
        BY <1>5 DEF NoSignal, PopSignalWaits, signals_!PopWaits, childVars
  <2>2. BufferInv' /\ GotInOrder' /\ DirectInOrder'
        BY <1>1, <2>1, BufferStays
  <2>3. DieLast' /\ ResetsCounted'
        BY <1>1, <2>1 DEF Inv, DieLast, ResetsCounted, Pending, Clearing, Resets
  <2>4. Types'
        BY <1>1, <1>2, <1>3, <2>1 DEF Inv, Types
  <2>5. QED  BY <1>4, <2>2, <2>3, <2>4 DEF Inv
<1>6. CASE TakeSignal \/ PopSignal
  <2>1. signals # << >> /\ signals' = Tail(signals)
        BY <1>6 DEF TakeSignal, PopSignal, signals_!TryPopTakes, signals_!PopTakes
  <2>2. /\ signals' \in Seq({"RESET", "DIE"}) /\ DieLast'
        /\ Pending \in Nat /\ Pending' \in Nat
        /\ Head(signals) \in {"RESET", "DIE"}
        /\ Head(signals) = "RESET" => Pending' = Pending - 1
        /\ Head(signals) = "DIE" => Pending' = Pending
        BY <1>1, <2>1, SignalTaken
  <2>3. /\ num_resets \in Nat /\ num_resets_ \in 0..MaxResets
        /\ num_resets + Pending = num_resets_
        BY <1>1, CountFacts DEF Inv, ResetsCounted, Clearing
  <2>4. CASE UNCHANGED <<child_, num_resets>>
    <3>1. /\ child' \in {"clear", "dead"}
          /\ child' = "clear" <=> Head(signals) = "RESET"
          BY <1>6, <2>2, <2>3, <2>4 DEF TakeSignal, PopSignal
    <3>2. BufferInv' /\ GotInOrder' /\ DirectInOrder'
          BY <1>1, <2>4, <3>1, BufferStays
    <3>3. ResetsCounted'
      <4>1. num_resets' = num_resets /\ num_resets_' = num_resets_
            BY <1>1, <2>4
      <4>2. CASE Head(signals) = "RESET"
        <5>1. Clearing' = 1 /\ Pending' = Pending - 1
              BY <2>2, <3>1, <4>2 DEF Clearing
        <5>2. QED  BY <2>2, <2>3, <4>1, <5>1 DEF ResetsCounted
      <4>3. CASE Head(signals) = "DIE"
        <5>1. Clearing' = 0 /\ Pending' = Pending
              BY <2>2, <3>1, <4>3 DEF Clearing
        <5>2. QED  BY <2>2, <2>3, <4>1, <5>1 DEF ResetsCounted
      <4>4. QED  BY <2>2, <4>2, <4>3
    <3>4. Types'
          BY <1>1, <1>2, <1>3, <2>2, <2>4 DEF Inv, Types
    <3>5. QED  BY <1>4, <2>2, <3>2, <3>3, <3>4 DEF Inv
  <2>5. CASE PopSignal /\ Head(signals) = "RESET"
    <3>1. /\ child' = "populate" /\ child_' = OpReset(child_) /\ num_resets' = num_resets + 1
          BY <2>5 DEF PopSignal
    <3>2. num_resets < num_resets_
          BY <2>2, <2>3, <2>5
    <3>3. BufferInv' /\ GotInOrder' /\ DirectInOrder'
          BY <1>1, <3>1, <3>2, SegmentReset
    <3>4. ResetsCounted'
      <4>1. Pending' = Pending - 1 /\ Clearing' = 0
            BY <2>2, <2>5, <3>1 DEF Clearing
      <4>2. QED  BY <1>1, <2>2, <2>3, <3>1, <4>1 DEF ResetsCounted
    <3>5. Types'
          BY <1>1, <1>2, <1>3, <2>2, <2>3, <3>1 DEF Inv, Types
    <3>6. QED  BY <1>4, <2>2, <3>3, <3>4, <3>5 DEF Inv
  <2>6. QED  BY <1>6, <2>4, <2>5 DEF TakeSignal, PopSignal
<1>7. QED  BY <1>5, <1>6

(* The RESET the child takes between two tuples empties the buffer.          *)
LEMMA ClearSteps ==
  ASSUME OperatorContract, Inv, [Next]_vars, ClearAndDie
  PROVE  Inv'
<1>1. /\ child = "clear" /\ child' = "dead" /\ buffer' = << >> /\ child_' = OpReset(child_)
      /\ num_resets' = num_resets + 1
      /\ UNCHANGED <<signals, signalsWait, parent, num_resets_, direct, got, early>>
      BY DEF ClearAndDie, buffer_!Clear, parentVars
<1>2. /\ Stream' = Stream /\ Tuples' = Tuples /\ Len(Stream) \in Nat
      /\ \A i : Answer(i)' = Answer(i)
      BY StreamStays, StreamFacts
<1>3. num_resets \in Nat /\ num_resets_ \in 0..MaxResets /\ num_resets < num_resets_
      /\ Pending \in Nat /\ num_resets + Pending + 1 = num_resets_
      BY <1>1, CountFacts DEF Inv, ResetsCounted, Clearing
<1>4. Types'
  <2>1. << >> \in Seq([first : 0..MaxResets, second : Tuples])
        OBVIOUS
  <2>2. QED  BY <1>1, <1>2, <1>3, <2>1, WaitTypes DEF Inv, Types
<1>5. Before' /\ Unborn' /\ DirectInOrder' /\ DieLast'
      BY <1>1, <1>2 DEF Inv, Before, Unborn, DirectInOrder, DieLast
<1>6. ResetsCounted'
  <2>1. Pending' = Pending
        BY <1>1 DEF Pending, Resets
  <2>2. QED  BY <1>1, <1>3, <2>1 DEF ResetsCounted, Clearing
<1>7. got = << >> /\ Start' = 0
      BY <1>1, <1>3 DEF Inv, BufferInv, Segment, Start
<1>8. Segment(0)'
      BY <1>1, <1>2, <1>3, <1>7 DEF Segment
<1>9. BufferInv' /\ GotInOrder'
      BY <1>1, <1>7, <1>8 DEF BufferInv, GotInOrder
<1>10. QED  BY <1>4, <1>5, <1>6, <1>9 DEF Inv
-----------------------------------------------------------------------------
(* The parent.                                                             *)

(* Whatever moves only a thread's place.                                     *)
LEMMA QuietSteps ==
  ASSUME OperatorContract, Inv, [Next]_vars,
         Construct \/ next \/ PopTupleWaits \/ Join \/ SpuriousWakeup \/ UNCHANGED vars
  PROVE  Inv'
<1>1. UNCHANGED <<buffer, signals, child_, num_resets, num_resets_, direct, got, early>>
      BY DEF Construct, next, PopTupleWaits, Join, SpuriousWakeup, vars, childVars, parentVars,
             buffer_!PopWaits, buffer_!SpuriousWakeup, signals_!SpuriousWakeup
<1>2. \/ parent = "direct" /\ parent' = "idle" /\ child' = "populate"
      \/ /\ child' = child /\ (parent' = "direct" <=> parent = "direct")
         /\ parent' \in {"direct", "idle", "next", "joining", "destroyed"}
         /\ parent \in {"joining", "destroyed"} => parent' \in {"joining", "destroyed"}
  <2>1. parent \in {"direct", "idle", "next", "joining", "destroyed"}
        BY DEF Inv, Types
  <2>2. QED
        BY <2>1 DEF Construct, next, PopTupleWaits, Join, SpuriousWakeup, vars, childVars, parentVars
<1>3. /\ parent = "direct" => child = "unborn"
      /\ child = "unborn" => parent = "direct"
      BY DEF Inv, Before, Unborn
<1>4. BufferInv' /\ GotInOrder' /\ DirectInOrder'
  <2>1. child' \in {"unborn", "populate", "try_pop"} => child \in {"unborn", "populate", "try_pop"}
        BY <1>2, <1>3
  <2>2. QED  BY <1>1, <2>1, BufferStays
<1>5. Tuples' = Tuples /\ \A i : Read(i)' = Read(i)
      BY StreamStays
<1>6. Types'
  <2>1. /\ child' \in {"unborn", "populate", "try_pop", "clear", "pop", "dead"}
        /\ parent' \in {"direct", "idle", "next", "joining", "destroyed"}
        BY <1>2 DEF Inv, Types
  <2>2. /\ bufferWait' \in [{"parent"} -> {"no", "waiting", "woken"}]
        /\ signalsWait' \in [{"child"} -> {"no", "waiting", "woken"}]
        BY WaitTypes DEF Inv
  <2>3. QED  BY <1>1, <1>5, <2>1, <2>2 DEF Inv, Types
<1>7. Before' /\ Unborn'
      BY <1>1, <1>2, <1>3, <1>5 DEF Inv, Before, Unborn
<1>8. DieLast'
      BY <1>1, <1>2 DEF Inv, DieLast
<1>9. ResetsCounted'
  <2>1. Clearing' = Clearing /\ Pending' = Pending
        BY <1>1, <1>2, <1>3 DEF Clearing, Pending
  <2>2. QED  BY <1>1, <2>1 DEF Inv, ResetsCounted
<1>10. QED  BY <1>4, <1>6, <1>7, <1>8, <1>9 DEF Inv

(* next() takes the first entry of the buffer: one from before the last      *)
(* reset, or the next tuple of the stream.                                   *)
LEMMA PopSteps ==
  ASSUME OperatorContract, Inv, [Next]_vars, PopTuple
  PROVE  Inv'
<1>1. /\ parent = "next" /\ buffer # << >> /\ buffer' = Tail(buffer)
      /\ UNCHANGED <<signals, signalsWait, child, child_, num_resets, num_resets_, direct, early>>
      BY DEF PopTuple, buffer_!PopTakes, childVars
<1>2. /\ Stream' = Stream /\ Tuples' = Tuples /\ Len(Stream) \in Nat
      /\ \A i : Answer(i)' = Answer(i)
      BY StreamStays, StreamFacts
<1>3. Start' = Start /\ Start \in Nat
      BY <1>1, StartStays, StartFacts DEF Inv
<1>4. PICK R : R = [first : 0..MaxResets, second : Tuples]
      OBVIOUS
<1>5. PICK b \in Seq(R) : b = buffer
      BY <1>4 DEF Inv, Types
<1>6. PICK c \in Seq(R) : c = buffer'
      BY <1>1, <1>5, TailFacts
<1>7. /\ Len(b) \in Nat \ {0} /\ Len(c) = Len(b) - 1
      /\ \A i \in 1..(Len(b) - 1) : c[i] = b[i + 1]
      /\ Head(buffer) = b[1]
      BY <1>1, <1>5, <1>6, TailFacts
<1>8. /\ got \in Seq(Tuples) /\ Len(got) \in Nat
      /\ num_resets \in Nat /\ num_resets_ \in 0..MaxResets
      BY DEF Inv, Types
<1>9. PICK n \in 0..Len(b) : Segment(n)
      BY <1>5 DEF Inv, BufferInv
<1>10. /\ \A i \in 1..n : b[i].first <= num_resets /\ b[i].first < num_resets_
       /\ \A i \in (n + 1)..Len(b) :
            b[i].first = num_resets_ /\ b[i].second = Answer(Start + Len(got) + (i - n))
       /\ Start + Len(got) + (Len(b) - n) <= Len(Stream) + 1
       /\ num_resets < num_resets_ => n = Len(b) /\ got = << >>
       /\ num_resets = num_resets_ /\ child \in {"unborn", "populate", "try_pop"} =>
            OpAt(child_) = Start + Len(got) + (Len(b) - n)
      BY <1>5, <1>9 DEF Segment
<1>11. \A i \in 1..Len(b) : b[i].first \in Nat /\ b[i].second \in Tuples
      BY <1>5, EntryFacts DEF Inv
<1>12. DirectInOrder' /\ DieLast' /\ ResetsCounted' /\ Unborn'
  <2>1. DirectInOrder'
        BY <1>1, <1>2 DEF Inv, DirectInOrder
  <2>2. ResetsCounted'
        BY <1>1 DEF Inv, ResetsCounted, Pending, Clearing
  <2>3. child # "unborn"
        BY <1>1 DEF Inv, Unborn
  <2>4. Unborn'
        BY <1>1, <2>3 DEF Unborn
  <2>5. DieLast'
    <3>1. \A i \in 1..Len(signals) : signals[i] # "DIE"
          BY <1>1 DEF Inv, DieLast
    <3>2. QED  BY <1>1, <3>1 DEF DieLast
  <2>6. QED  BY <2>1, <2>2, <2>4, <2>5
<1>13. Before'
      BY <1>1 DEF PopTuple, Before
<1>14. /\ buffer' \in Seq([first : 0..MaxResets, second : Tuples])
       /\ bufferWait' \in [{"parent"} -> {"no", "waiting", "woken"}]
       /\ signalsWait' \in [{"child"} -> {"no", "waiting", "woken"}]
      BY <1>4, <1>6, WaitTypes DEF Inv
<1>15. CASE n > 0
  <2>1. b[1].first < num_resets_
        BY <1>9, <1>10, <1>15
  <2>2. parent' = parent /\ got' = got
        BY <1>7, <1>8, <1>11, <2>1 DEF PopTuple
  <2>3. PICK k \in Nat : k = n - 1
        BY <1>15, <1>9, <1>7
  <2>4. Segment(k)'
    <3>1. \A i \in 1..k : c[i].first <= num_resets /\ c[i].first < num_resets_
      <4>1. \A i \in 1..k : i + 1 \in 1..n /\ i \in 1..(Len(b) - 1)
            BY <1>7, <1>9, <2>3
      <4>2. QED  BY <1>7, <1>10, <4>1
    <3>2. \A i \in (k + 1)..Len(c) :
            c[i].first = num_resets_ /\ c[i].second = Answer(Start + Len(got) + (i - k))
      <4>1. \A i \in (k + 1)..Len(c) :
              i + 1 \in (n + 1)..Len(b) /\ i \in 1..(Len(b) - 1) /\ (i + 1) - n = i - k
            BY <1>7, <1>9, <2>3
      <4>2. QED  BY <1>7, <1>10, <4>1
    <3>3. Len(c) - k = Len(b) - n
          BY <1>7, <1>9, <2>3
    <3>4. num_resets < num_resets_ => k = Len(c)
          BY <1>7, <1>9, <1>10, <2>3
    <3>5. QED  BY <1>1, <1>2, <1>3, <1>6, <1>10, <2>2, <3>1, <3>2, <3>3, <3>4 DEF Segment, Answer
  <2>5. k \in 0..Len(c)
        BY <1>7, <1>9, <2>3
  <2>6. BufferInv'
        BY <1>6, <2>4, <2>5 DEF BufferInv
  <2>7. GotInOrder'
        BY <1>2, <1>3, <2>2 DEF Inv, GotInOrder
  <2>8. Types'
        BY <1>1, <1>2, <1>14, <2>2 DEF Inv, Types
  <2>9. QED  BY <1>12, <1>13, <2>6, <2>7, <2>8 DEF Inv
<1>16. CASE n = 0
  <2>1. /\ b[1].first = num_resets_ /\ b[1].second = Answer(Start + Len(got) + 1)
        /\ b[1].second \in Tuples
    <3>1. 1 \in (n + 1)..Len(b) /\ 1 \in 1..Len(b) /\ 1 - n = 1
          BY <1>7, <1>16
    <3>2. QED  BY <1>10, <1>11, <3>1
  <2>2. parent' = "idle" /\ got' = Append(got, b[1].second)
        BY <1>7, <2>1 DEF PopTuple
  <2>3. /\ got' \in Seq(Tuples) /\ Len(got') = Len(got) + 1
        /\ \A i \in 1..Len(got) : got'[i] = got[i]
        /\ got'[Len(got) + 1] = b[1].second
        /\ DOMAIN got = 1..Len(got) /\ DOMAIN got' = 1..(Len(got) + 1)
        BY <1>8, <2>1, <2>2, AppendFacts
  <2>4. Segment(n)'
    <3>1. \A i \in (n + 1)..Len(c) :
            c[i].first = num_resets_ /\ c[i].second = Answer(Start + Len(got') + (i - n))
      <4>1. \A i \in (n + 1)..Len(c) :
              /\ i + 1 \in (n + 1)..Len(b) /\ i \in 1..(Len(b) - 1)
              /\ Start + Len(got) + ((i + 1) - n) = Start + Len(got') + (i - n)
            BY <1>3, <1>7, <1>8, <1>16, <2>3
      <4>2. QED  BY <1>7, <1>10, <4>1
    <3>2. Start + Len(got') + (Len(c) - n) = Start + Len(got) + (Len(b) - n)
          BY <1>3, <1>7, <1>8, <1>16, <2>3
    <3>3. ~(num_resets < num_resets_)
          BY <1>7, <1>10, <1>16
    <3>4. \A i \in 1..n : FALSE
          BY <1>16
    <3>5. QED
          BY <1>1, <1>2, <1>3, <1>6, <1>10, <3>1, <3>2, <3>3, <3>4 DEF Segment, Answer
  <2>5. BufferInv'
        BY <1>6, <1>7, <1>16, <2>4 DEF BufferInv
  <2>6. GotInOrder'
    <3>1. \A i \in 1..(Len(got) + 1) : i \in 1..Len(got) \/ i = Len(got) + 1
          BY <1>8
    <3>2. Start + (Len(got) + 1) = Start + Len(got) + 1
          BY <1>3, <1>8
    <3>3. QED  BY <1>2, <1>3, <2>1, <2>3, <3>1, <3>2 DEF Inv, GotInOrder
  <2>7. Types'
        BY <1>1, <1>2, <1>14, <2>2, <2>3 DEF Inv, Types
  <2>8. QED  BY <1>12, <1>13, <2>5, <2>6, <2>7 DEF Inv
<1>17. QED  BY <1>7, <1>9, <1>15, <1>16

(* reset(): what is in the buffer is now from before the last reset.         *)
LEMMA ResetSteps ==
  ASSUME OperatorContract, Inv, [Next]_vars, reset
  PROVE  Inv'
<1>1. /\ parent = "idle" /\ num_resets_ < MaxResets /\ num_resets_' = num_resets_ + 1
      /\ signals' = Append(signals, "RESET") /\ got' = << >> /\ early' \in BOOLEAN
      /\ UNCHANGED <<buffer, bufferWait, child, child_, num_resets, parent, direct>>
  <2>1. early' \in BOOLEAN
        BY Zenon DEF reset
  <2>2. QED  BY <2>1 DEF reset, signals_!Push, childVars
<1>2. /\ Stream' = Stream /\ Tuples' = Tuples /\ Len(Stream) \in Nat
      /\ \A i : Answer(i)' = Answer(i)
      BY StreamStays, StreamFacts
<1>3. PICK s \in Seq({"RESET", "DIE"}) : s = signals
      BY DEF Inv, Types
<1>4. \A i \in 1..Len(s) : s[i] # "DIE"
      BY <1>1, <1>3 DEF Inv, DieLast
<1>5. PICK t \in Seq({"RESET", "DIE"}) : t = signals'
  <2>1. Append(s, "RESET") \in Seq({"RESET", "DIE"})
        BY AppendFacts
  <2>2. QED  BY <1>1, <1>3, <2>1
<1>6. /\ \A i \in 1..Len(t) : t[i] # "DIE"
      /\ Resets(s) \in Nat /\ Resets(t) = Resets(s) + 1
  <2>1. /\ \A i \in 1..Len(Append(s, "RESET")) : Append(s, "RESET")[i] # "DIE"
        /\ Resets(s) \in Nat /\ Resets(Append(s, "RESET")) = Resets(s) + 1
        BY <1>4, AddLast
  <2>2. QED  BY <1>1, <1>3, <1>5, <2>1
<1>7. /\ num_resets \in Nat /\ num_resets_ \in 0..MaxResets /\ num_resets <= num_resets_
      /\ Clearing \in {0, 1}
      BY CountFacts DEF Clearing
<1>8. Types'
  <2>1. num_resets_' \in 0..MaxResets
        BY <1>1, <1>7
  <2>2. << >> \in Seq(Tuples)
        OBVIOUS
  <2>3. signalsWait' \in [{"child"} -> {"no", "waiting", "woken"}]
        BY WaitTypes DEF Inv
  <2>4. signals' \in Seq({"RESET", "DIE"})
        BY <1>5
  <2>5. QED  BY <1>1, <1>2, <2>1, <2>2, <2>3, <2>4 DEF Inv, Types
<1>9. Before' /\ Unborn' /\ DirectInOrder'
      BY <1>1, <1>2 DEF Inv, Before, Unborn, DirectInOrder
<1>10. DieLast'
      BY <1>5, <1>6 DEF DieLast
<1>11. ResetsCounted'
  <2>1. Pending = Resets(s) /\ Pending' = Resets(s) + 1 /\ Clearing' = Clearing
        BY <1>1, <1>3, <1>5, <1>6 DEF Pending, Clearing
  <2>2. num_resets + Resets(s) + Clearing = num_resets_
        BY <2>1 DEF Inv, ResetsCounted
  <2>3. QED  BY <1>1, <1>6, <1>7, <2>1, <2>2 DEF ResetsCounted
<1>12. PICK n \in Nat : n = Len(buffer)
      BY DEF Inv, Types
<1>13. \A i \in 1..n : buffer[i].first <= num_resets /\ buffer[i].first < num_resets_ + 1
  <2>1. PICK m \in 0..Len(buffer) : Segment(m)
        BY DEF Inv, BufferInv
  <2>2. \A i \in 1..n : i \in 1..m \/ (i \in (m + 1)..Len(buffer) /\ m # Len(buffer))
        BY <1>12, <2>1
  <2>3. \A i \in 1..m : buffer[i].first <= num_resets
        BY <2>1 DEF Segment
  <2>4. \A i \in (m + 1)..Len(buffer) : buffer[i].first = num_resets_
        BY <2>1 DEF Segment
  <2>5. m # Len(buffer) => num_resets = num_resets_
        BY <1>7, <2>1 DEF Segment
  <2>6. \A i \in 1..n : buffer[i].first \in Nat
        BY <1>12, EntryFacts DEF Inv
  <2>7. \A i \in 1..n : buffer[i].first <= num_resets
        BY <1>7, <2>2, <2>3, <2>4, <2>5
  <2>8. QED  BY <1>7, <2>6, <2>7
<1>14. Start' = 0
      BY <1>1, <1>7 DEF Start
<1>15. Segment(n)'
  <2>1. Start' + Len(got') + (Len(buffer') - n) <= Len(Stream) + 1
        BY <1>1, <1>2, <1>12, <1>14
  <2>2. num_resets' # num_resets_'
        BY <1>1, <1>7
  <2>3. \A i \in (n + 1)..Len(buffer') : FALSE
        BY <1>1, <1>12
  <2>4. QED  BY <1>1, <1>2, <1>12, <1>13, <2>1, <2>2, <2>3 DEF Segment
<1>16. BufferInv' /\ GotInOrder'
  <2>1. n \in 0..Len(buffer')
        BY <1>1, <1>12
  <2>2. DOMAIN got' = {}
        BY <1>1
  <2>3. QED  BY <1>15, <2>1, <2>2 DEF BufferInv, GotInOrder
<1>17. QED  BY <1>8, <1>9, <1>10, <1>11, <1>16 DEF Inv

(* The destructor sends DIE after whatever resets are pending.               *)
LEMMA DestroySteps ==
  ASSUME OperatorContract, Inv, [Next]_vars, Destroy
  PROVE  Inv'
<1>1. /\ parent = "idle" /\ parent' = "joining" /\ signals' = Append(signals, "DIE")
      /\ UNCHANGED <<buffer, bufferWait, child, child_, num_resets, num_resets_, direct, got, early>>
      BY DEF Destroy, signals_!Push, childVars
<1>2. Tuples' = Tuples
      BY StreamStays
<1>3. PICK s \in Seq({"RESET", "DIE"}) : s = signals
      BY DEF Inv, Types
<1>4. \A i \in 1..Len(s) : s[i] # "DIE"
      BY <1>1, <1>3 DEF Inv, DieLast
<1>5. PICK t \in Seq({"RESET", "DIE"}) : t = signals'
  <2>1. Append(s, "DIE") \in Seq({"RESET", "DIE"})
        BY AppendFacts
  <2>2. QED  BY <1>1, <1>3, <2>1
<1>6. /\ \A i \in 1..Len(t) : t[i] = "DIE" => i = Len(t)
      /\ Resets(t) = Resets(s)
  <2>1. /\ \A i \in 1..Len(Append(s, "DIE")) :
             Append(s, "DIE")[i] = "DIE" => i = Len(Append(s, "DIE"))
        /\ Resets(Append(s, "DIE")) = Resets(s)
        BY <1>4, AddLast
  <2>2. QED  BY <1>1, <1>3, <1>5, <2>1
<1>7. Types'
  <2>1. signalsWait' \in [{"child"} -> {"no", "waiting", "woken"}]
        BY WaitTypes DEF Inv
  <2>2. signals' \in Seq({"RESET", "DIE"})
        BY <1>5
  <2>3. QED  BY <1>1, <1>2, <2>1, <2>2 DEF Inv, Types
<1>8. Before' /\ Unborn'
      BY <1>1 DEF Inv, Before, Unborn
<1>9. DieLast'
      BY <1>1, <1>5, <1>6 DEF DieLast
<1>10. ResetsCounted'
  <2>1. Pending' = Pending /\ Clearing' = Clearing
        BY <1>1, <1>3, <1>5, <1>6 DEF Pending, Clearing
  <2>2. QED  BY <1>1, <2>1 DEF Inv, ResetsCounted
<1>11. BufferInv' /\ GotInOrder' /\ DirectInOrder'
      BY <1>1, BufferStays
<1>12. QED  BY <1>7, <1>8, <1>9, <1>10, <1>11 DEF Inv

-----------------------------------------------------------------------------
(* The theorems.                                                           *)

LEMMA InvNext == OperatorContract /\ OperatorContract' /\ Inv /\ [Next]_vars => Inv'
<1> SUFFICES ASSUME OperatorContract, OperatorContract', Inv, [Next]_vars PROVE Inv'
    OBVIOUS
<1>1. CASE DirectNext \/ DirectReset
      BY <1>1, DirectSteps
<1>2. CASE PushTuple \/ PushEnd
      BY <1>2, PushSteps
<1>3. CASE NoSignal \/ TakeSignal \/ PopSignalWaits \/ PopSignal
      BY <1>3, SignalSteps
<1>4. CASE ClearAndDie
      BY <1>4, ClearSteps
<1>5. CASE PopTuple
      BY <1>5, PopSteps
<1>6. CASE reset
      BY <1>6, ResetSteps
<1>7. CASE Destroy
      BY <1>7, DestroySteps
<1>8. CASE Construct \/ next \/ PopTupleWaits \/ Join \/ SpuriousWakeup \/ UNCHANGED vars
      BY <1>8, QuietSteps
<1>9. QED
      BY <1>1, <1>2, <1>3, <1>4, <1>5, <1>6, <1>7, <1>8
      DEF Next, ChildPopulateBuffer, Parent

LEMMA Invariance == Spec /\ []OperatorContract => []Inv
BY InvInit, InvNext, PTL DEF Spec

(* Buffer entries are tuples of the operator with a count of resets, and the *)
(* child's count of resets (exchange.h:79) never exceeds the parent's (:56), *)
(* for any operator that keeps to operator.h.                                *)
THEOREM TypeCorrect == Spec /\ []OperatorContract => []TypeOK
<1>1. Inv => TypeOK
  <2> SUFFICES ASSUME Inv PROVE TypeOK
      OBVIOUS
  <2>1. num_resets \in 0..num_resets_
        BY CountFacts
  <2>2. QED  BY <2>1 DEF Inv, Types, TypeOK
<1>2. QED  BY Invariance, <1>1, PTL

(* next() (exchange.h:39-50) returns the operator's stream from where it     *)
(* starts, whatever the child has buffered ahead and whenever reset() is     *)
(* called: it skips exactly the entries from before the last reset.          *)
THEOREM ParentSeesStream == Spec /\ []OperatorContract => []StreamInOrder
<1>1. OperatorContract /\ Inv => StreamInOrder
  <2> SUFFICES ASSUME OperatorContract, Inv PROVE StreamInOrder
      OBVIOUS
  <2>1. PICK n \in 0..Len(buffer) : Segment(n)
        BY DEF Inv, BufferInv
  <2>2. Start \in Nat /\ Len(got) \in Nat /\ Len(buffer) \in Nat /\ Len(Stream) \in Nat
    <3>1. Types /\ Len(got) \in Nat /\ Len(buffer) \in Nat
          BY DEF Inv, Types
    <3>2. QED  BY <3>1, StartFacts, StreamFacts
  <2>3. Start + Len(got) <= Len(Stream) + 1
        BY <2>1, <2>2 DEF Segment
  <2>4. QED  BY <2>3 DEF Inv, GotInOrder, StreamInOrder
<1>2. QED  BY Invariance, <1>1, PTL

===============================================================================
