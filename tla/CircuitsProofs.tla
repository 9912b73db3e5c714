---------------------------- MODULE CircuitsProofs ----------------------------
(***************************************************************************)
(* Proofs about Circuits, for any keys, any number of elements, copies and *)
(* queues, and any order of pushes and pulls: what each circuit has put    *)
(* out is what its history of inputs says.  Each circuit has an inductive  *)
(* invariant of its own, GroupInv, DedupInv, DupInv, BranchInv and         *)
(* JoinInv; CircuitInv is their conjunction.                               *)
(***************************************************************************)
EXTENDS Circuits, SequenceTheorems, FiniteSetTheorems, WellFoundedInduction, TLAPS

-----------------------------------------------------------------------------
(* Induction, for sets: a set of naturals, or of sequences, that is closed *)
(* under the step is all of them.                                          *)

LEMMA LeastNat ==
  ASSUME NEW N, N \subseteq Nat, N # {}
  PROVE  \E n \in N : n \in Nat /\ \A m \in N : m >= n
<1>1. PICK n \in N : \A m \in N : ~(<<m, n>> \in OpToRel(<, Nat))
      BY NatLessThanWellFounded, WFMin
<1>2. \A m \in N : ~(m < n)
      BY <1>1 DEF OpToRel
<1>3. QED  BY <1>2

LEMMA NatSetInduction ==
  ASSUME NEW T, T \subseteq Nat, 0 \in T, \A n \in T : n + 1 \in T
  PROVE  T = Nat
<1>1. SUFFICES ASSUME Nat \ T # {} PROVE FALSE
      OBVIOUS
<1>2. Nat \ T \subseteq Nat
      OBVIOUS
<1>3. PICK n \in Nat \ T : n \in Nat /\ \A m \in Nat \ T : m >= n
      BY <1>1, <1>2, LeastNat, Zenon
<1>4. n # 0 /\ n - 1 \in Nat /\ ~(n - 1 >= n) /\ (n - 1) + 1 = n
      BY <1>3
<1>5. n - 1 \in T
      BY <1>3, <1>4
<1>6. QED  BY <1>3, <1>4, <1>5

(* Induction over sequences, along what Append adds.                         *)
LEMMA SeqInduction ==
  ASSUME NEW S, NEW T, << >> \in T, \A s \in Seq(S), x \in S : s \in T => Append(s, x) \in T
  PROVE  Seq(S) \subseteq T
<1>1. PICK N : N = {n \in Nat : \A s \in Seq(S) : Len(s) = n => s \in T}
      OBVIOUS
<1>2. 0 \in N
  <2>1. \A s \in Seq(S) : Len(s) = 0 => s = << >>
        BY EmptySeq
  <2>2. QED  BY <1>1, <2>1
<1>3. ASSUME NEW n \in N PROVE n + 1 \in N
  <2>1. n \in Nat /\ n + 1 \in Nat
        BY <1>1
  <2>2. ASSUME NEW s \in Seq(S), Len(s) = n + 1 PROVE s \in T
    <3>1. PICK t \in Seq(S), x \in S : s = Append(t, x)
      <4>1. s # << >>
            BY <2>1, <2>2
      <4>2. QED  BY <4>1, SequenceEmptyOrAppend
    <3>2. Len(t) = n
          BY <2>1, <2>2, <3>1
    <3>3. t \in T
          BY <1>1, <3>2
    <3>4. QED  BY <3>1, <3>3
  <2>3. QED  BY <1>1, <2>1, <2>2
<1>4. N = Nat
      BY <1>1, <1>2, <1>3, NatSetInduction
<1>5. QED  BY <1>1, <1>4, LenProperties

-----------------------------------------------------------------------------
-----------------------------------------------------------------------------
(* FlattenSeq, Only and Keys_, one element at a time.                      *)

(* The function that FlattenSeq defines.                                     *)
Flattens(g, s) ==
  g = [i \in 1..Len(s) |-> IF i = 1 THEN s[i] ELSE g[i - 1] \o s[i]]

LEMMA FlattensAppend ==
  ASSUME NEW S, NEW s \in Seq(Seq(S)), NEW x \in Seq(S), NEW g, Flattens(g, s)
  PROVE  \E h : /\ Flattens(h, Append(s, x)) /\ \A i \in 1..Len(s) : h[i] = g[i]
<1>1. PICK n \in Nat : n = Len(s)
      OBVIOUS
<1>2. PICK t : t = Append(s, x)
      OBVIOUS
<1>3. Len(t) = n + 1 /\ t[n + 1] = x /\ \A i \in 1..n : t[i] = s[i]
      BY <1>1, <1>2
<1>4. PICK h : h = [i \in 1..(n + 1) |-> IF i = n + 1 THEN (IF i = 1 THEN x ELSE g[n] \o x) ELSE g[i]]
      OBVIOUS
<1>5. \A i \in 1..n : g[i] = IF i = 1 THEN s[i] ELSE g[i - 1] \o s[i]
      BY <1>1, Zenon DEF Flattens
<1>6. \A i \in 1..(n + 1) : h[i] = IF i = n + 1 THEN (IF i = 1 THEN x ELSE g[n] \o x) ELSE g[i]
      BY <1>4, Zenon
<1>7. \A i \in 1..n : h[i] = g[i] /\ i \in 1..(n + 1)
      BY <1>6
<1>8. ASSUME NEW i \in 1..(n + 1) PROVE h[i] = IF i = 1 THEN t[i] ELSE h[i - 1] \o t[i]
  <2>1. CASE i = n + 1
    <3>1. CASE n = 0
          BY <1>3, <1>6, <2>1, <3>1
    <3>2. CASE n # 0
      <4>1. n \in 1..n /\ i # 1 /\ i - 1 = n
            BY <2>1, <3>2
      <4>2. h[i] = g[n] \o x
            BY <1>6, <2>1, <4>1
      <4>3. QED  BY <1>3, <1>7, <2>1, <4>1, <4>2
    <3>3. QED  BY <3>1, <3>2
  <2>2. CASE i # n + 1
    <3>1. i \in 1..n /\ (i # 1 => i - 1 \in 1..n)
          BY <2>2
    <3>2. QED  BY <1>3, <1>5, <1>7, <3>1
  <2>3. QED  BY <2>1, <2>2
<1>9. h = [i \in 1..(n + 1) |-> IF i = 1 THEN t[i] ELSE h[i - 1] \o t[i]]
      BY <1>4, <1>8
<1>10. Flattens(h, t)
      BY <1>3, <1>9 DEF Flattens
<1>11. QED  BY <1>1, <1>2, <1>7, <1>10

LEMMA FlattensExists ==
  ASSUME NEW S, NEW s \in Seq(Seq(S))
  PROVE  \E g : Flattens(g, s)
<1>1. PICK T : T = {t \in Seq(Seq(S)) : \E g : Flattens(g, t)}
      OBVIOUS
<1>2. << >> \in T
  <2>1. PICK g : g = [i \in {} |-> << >>]
        OBVIOUS
  <2>2. Flattens(g, << >>)
        BY <2>1 DEF Flattens
  <2>3. QED  BY <1>1, <2>2, EmptySeq
<1>3. ASSUME NEW t \in Seq(Seq(S)), NEW x \in Seq(S), t \in T PROVE Append(t, x) \in T
  <2>1. PICK g : Flattens(g, t)
        BY <1>1, <1>3
  <2>2. \E h : Flattens(h, Append(t, x))
        BY <2>1, FlattensAppend
  <2>3. Append(t, x) \in Seq(Seq(S))
        OBVIOUS
  <2>4. QED  BY <1>1, <2>2, <2>3
<1>4. Seq(Seq(S)) \subseteq T
      BY <1>2, <1>3, SeqInduction
<1>5. QED  BY <1>1, <1>4

(* It is the only one.                                                       *)
LEMMA FlattensUnique ==
  ASSUME NEW s, Len(s) \in Nat, NEW g, NEW h, Flattens(g, s), Flattens(h, s)
  PROVE  g = h
<1>1. PICK n \in Nat : n = Len(s)
      OBVIOUS
<1>2. \A i \in 1..n : g[i] = IF i = 1 THEN s[i] ELSE g[i - 1] \o s[i]
      BY <1>1, Zenon DEF Flattens
<1>3. \A i \in 1..n : h[i] = IF i = 1 THEN s[i] ELSE h[i - 1] \o s[i]
      BY <1>1, Zenon DEF Flattens
<1>4. PICK T : T = {i \in Nat : i \in 1..n => g[i] = h[i]}
      OBVIOUS
<1>5. 0 \in T
      BY <1>4
<1>6. ASSUME NEW i \in T PROVE i + 1 \in T
  <2>1. i \in Nat /\ (i \in 1..n => g[i] = h[i])
        BY <1>4
  <2>2. ASSUME i + 1 \in 1..n PROVE g[i + 1] = h[i + 1]
    <3>1. CASE i = 0
          BY <1>2, <1>3, <2>2, <3>1
    <3>2. CASE i # 0
      <4>1. i \in 1..n /\ (i + 1) - 1 = i /\ i + 1 # 1
            BY <2>1, <2>2, <3>2
      <4>2. QED  BY <1>2, <1>3, <2>1, <2>2, <4>1
    <3>3. QED  BY <3>1, <3>2
  <2>3. QED  BY <1>4, <2>1, <2>2
<1>7. T = Nat
      BY <1>4, <1>5, <1>6, NatSetInduction
<1>8. \A i \in 1..n : g[i] = h[i]
      BY <1>4, <1>7
<1>9. g = [i \in 1..n |-> g[i]] /\ h = [i \in 1..n |-> h[i]]
      BY <1>1, Zenon DEF Flattens
<1>10. QED  BY <1>8, <1>9

LEMMA FlattenValue ==
  ASSUME NEW S, NEW s \in Seq(Seq(S)), NEW g, Flattens(g, s)
  PROVE  FlattenSeq(s) = IF s = << >> THEN << >> ELSE g[Len(s)]
<1>1. Len(s) \in Nat /\ (Len(s) = 0 <=> s = << >>)
      BY EmptySeq
<1>2. PICK h : h = CHOOSE f : Flattens(f, s)
      OBVIOUS
<1>3. Flattens(h, s)
      BY <1>2, Zenon
<1>4. h = g
      BY <1>1, <1>3, FlattensUnique
<1>5. s # << >> => FlattenSeq(s) = h[Len(s)]
      BY <1>1, <1>2, Zenon DEF FlattenSeq, Flattens
<1>6. s = << >> => FlattenSeq(s) = s
      BY <1>1, Zenon DEF FlattenSeq
<1>7. QED  BY <1>4, <1>5, <1>6

LEMMA FlattenEmpty == FlattenSeq(<< >>) = << >>
<1>1. Len(<< >>) = 0
      OBVIOUS
<1>2. QED  BY <1>1, Zenon DEF FlattenSeq

LEMMA FlattenAppendValue ==
  ASSUME NEW S, NEW s \in Seq(Seq(S)), NEW x \in Seq(S), FlattenSeq(s) \in Seq(S)
  PROVE  FlattenSeq(Append(s, x)) = FlattenSeq(s) \o x
<1>1. PICK g : Flattens(g, s)
      BY FlattensExists
<1>2. PICK h : Flattens(h, Append(s, x)) /\ \A i \in 1..Len(s) : h[i] = g[i]
      BY <1>1, FlattensAppend
<1>3. PICK n \in Nat : n = Len(s)
      OBVIOUS
<1>4. PICK t : t = Append(s, x)
      OBVIOUS
<1>5. t \in Seq(Seq(S)) /\ Len(t) = n + 1 /\ t[n + 1] = x /\ t # << >>
      BY <1>3, <1>4, AppendProperties
<1>6. FlattenSeq(t) = h[n + 1]
      BY <1>2, <1>4, <1>5, FlattenValue
<1>7. \A i \in 1..(n + 1) : h[i] = IF i = 1 THEN t[i] ELSE h[i - 1] \o t[i]
      BY <1>2, <1>4, <1>5, Zenon DEF Flattens
<1>8. CASE s = << >>
  <2>1. n = 0 /\ FlattenSeq(s) = << >>
        BY <1>3, <1>8, FlattenEmpty
  <2>2. FlattenSeq(t) = x
        BY <1>5, <1>6, <1>7, <2>1
  <2>3. << >> \o x = x
        BY ConcatEmptySeq
  <2>4. QED  BY <1>4, <2>1, <2>2, <2>3
<1>9. CASE s # << >>
  <2>1. n \in 1..n /\ n + 1 # 1 /\ (n + 1) - 1 = n /\ n + 1 \in 1..(n + 1)
        BY <1>3, <1>9, EmptySeq
  <2>2. FlattenSeq(s) = g[n]
        BY <1>1, <1>3, <1>9, FlattenValue
  <2>3. h[n + 1] = h[n] \o x
        BY <1>5, <1>7, <2>1
  <2>4. h[n] = g[n]
        BY <1>2, <1>3, <2>1
  <2>5. QED  BY <1>4, <1>6, <2>2, <2>3, <2>4
<1>10. QED  BY <1>8, <1>9

LEMMA FlattenType ==
  ASSUME NEW S, NEW s \in Seq(Seq(S))
  PROVE  FlattenSeq(s) \in Seq(S)
<1>1. PICK T : T = {t \in Seq(Seq(S)) : FlattenSeq(t) \in Seq(S)}
      OBVIOUS
<1>2. << >> \in T
      BY <1>1, FlattenEmpty, EmptySeq
<1>3. ASSUME NEW t \in Seq(Seq(S)), NEW x \in Seq(S), t \in T PROVE Append(t, x) \in T
  <2>1. FlattenSeq(t) \in Seq(S)
        BY <1>1, <1>3
  <2>2. FlattenSeq(Append(t, x)) = FlattenSeq(t) \o x
        BY <2>1, FlattenAppendValue
  <2>3. FlattenSeq(t) \o x \in Seq(S) /\ Append(t, x) \in Seq(Seq(S))
        BY <2>1
  <2>4. QED  BY <1>1, <2>2, <2>3
<1>4. Seq(Seq(S)) \subseteq T
      BY <1>2, <1>3, SeqInduction
<1>5. QED  BY <1>1, <1>4

LEMMA FlattenAppend ==
  ASSUME NEW S, NEW s \in Seq(Seq(S)), NEW x \in Seq(S)
  PROVE  FlattenSeq(s) \in Seq(S) /\ FlattenSeq(Append(s, x)) = FlattenSeq(s) \o x
  BY FlattenType, FlattenAppendValue

LEMMA FlattenConcat ==
  ASSUME NEW S, NEW s \in Seq(Seq(S)), NEW t \in Seq(Seq(S))
  PROVE  FlattenSeq(s \o t) = FlattenSeq(s) \o FlattenSeq(t)
<1>1. PICK T : T = {u \in Seq(Seq(S)) : FlattenSeq(s \o u) = FlattenSeq(s) \o FlattenSeq(u)}
      OBVIOUS
<1>2. FlattenSeq(s) \in Seq(S)
      BY FlattenType
<1>3. << >> \in T
  <2>1. s \o << >> = s /\ FlattenSeq(s) \o << >> = FlattenSeq(s)
        BY <1>2, ConcatEmptySeq
  <2>2. QED  BY <1>1, <2>1, FlattenEmpty, EmptySeq
<1>4. ASSUME NEW u \in Seq(Seq(S)), NEW x \in Seq(S), u \in T PROVE Append(u, x) \in T
  <2>1. FlattenSeq(s \o u) = FlattenSeq(s) \o FlattenSeq(u)
        BY <1>1, <1>4
  <2>2. s \o u \in Seq(Seq(S)) /\ s \o Append(u, x) = Append(s \o u, x) /\ Append(u, x) \in Seq(Seq(S))
        OBVIOUS
  <2>3. FlattenSeq(Append(u, x)) = FlattenSeq(u) \o x /\ FlattenSeq(u) \in Seq(S)
        BY FlattenAppend
  <2>4. FlattenSeq(Append(s \o u, x)) = FlattenSeq(s \o u) \o x
        BY <2>2, FlattenAppend
  <2>5. (FlattenSeq(s) \o FlattenSeq(u)) \o x = FlattenSeq(s) \o (FlattenSeq(u) \o x)
        BY <1>2, <2>3, ConcatAssociative
  <2>6. QED  BY <1>1, <2>1, <2>2, <2>3, <2>4, <2>5
<1>5. Seq(Seq(S)) \subseteq T
      BY <1>3, <1>4, SeqInduction
<1>6. QED  BY <1>1, <1>5

(* What Only takes of one element.                                           *)
Taken(x, T) == IF x \in T THEN <<x>> ELSE << >>

LEMMA OnlyAsTaken ==
  ASSUME NEW S, NEW s \in Seq(S), NEW T
  PROVE  /\ Only(s, T) = FlattenSeq([n \in DOMAIN s |-> Taken(s[n], T)])
         /\ [n \in DOMAIN s |-> Taken(s[n], T)] \in Seq(Seq(S))
         /\ Len([n \in DOMAIN s |-> Taken(s[n], T)]) = Len(s)
<1>1. Only(s, T) = FlattenSeq([n \in DOMAIN s |-> Taken(s[n], T)])
      BY Zenon DEF Only, Taken
<1>2. \A n \in 1..Len(s) : Taken(s[n], T) \in Seq(S)
      BY DEF Taken
<1>3. [n \in 1..Len(s) |-> Taken(s[n], T)] \in Seq(Seq(S))
      BY <1>2, IsASeq
<1>4. DOMAIN s = 1..Len(s) /\ Len(s) \in Nat
      OBVIOUS
<1>5. QED  BY <1>1, <1>3, <1>4

LEMMA OnlyType ==
  ASSUME NEW S, NEW s \in Seq(S), NEW T
  PROVE  Only(s, T) \in Seq(S)
  BY OnlyAsTaken, FlattenType

LEMMA OnlyEmpty ==
  ASSUME NEW T
  PROVE  Only(<< >>, T) = << >>
<1>1. [n \in DOMAIN << >> |-> IF << >>[n] \in T THEN << << >>[n] >> ELSE << >>] = << >>
      OBVIOUS
<1>2. QED  BY <1>1, FlattenEmpty DEF Only

LEMMA OnlyAppend ==
  ASSUME NEW S, NEW s \in Seq(S), NEW x \in S, NEW T
  PROVE  Only(Append(s, x), T) = IF x \in T THEN Append(Only(s, T), x) ELSE Only(s, T)
<1>1. PICK t : t = Append(s, x)
      OBVIOUS
<1>2. t \in Seq(S) /\ Len(t) = Len(s) + 1 /\ t[Len(s) + 1] = x /\ \A n \in 1..Len(s) : t[n] = s[n]
      BY <1>1
<1>3. PICK f : f = [n \in DOMAIN s |-> Taken(s[n], T)]
      OBVIOUS
<1>4. PICK g : g = [n \in DOMAIN t |-> Taken(t[n], T)]
      OBVIOUS
<1>5. f \in Seq(Seq(S)) /\ Len(f) = Len(s) /\ Only(s, T) = FlattenSeq(f)
      BY <1>3, OnlyAsTaken
<1>6. g \in Seq(Seq(S)) /\ Len(g) = Len(s) + 1 /\ Only(t, T) = FlattenSeq(g)
      BY <1>2, <1>4, OnlyAsTaken
<1>7. Taken(x, T) \in Seq(S)
      BY DEF Taken
<1>8. g = Append(f, Taken(x, T))
  <2>1. /\ Append(f, Taken(x, T)) \in Seq(Seq(S)) /\ Len(Append(f, Taken(x, T))) = Len(s) + 1
        /\ Append(f, Taken(x, T))[Len(s) + 1] = Taken(x, T)
        /\ \A n \in 1..Len(s) : Append(f, Taken(x, T))[n] = f[n]
        BY <1>5, <1>7, AppendProperties
  <2>2. \A n \in 1..Len(s) : f[n] = Taken(s[n], T) /\ g[n] = Taken(t[n], T)
        BY <1>2, <1>3, <1>4
  <2>3. g[Len(s) + 1] = Taken(x, T)
        BY <1>2, <1>4
  <2>4. \A n \in 1..(Len(s) + 1) : g[n] = Append(f, Taken(x, T))[n]
    <3>1. TAKE n \in 1..(Len(s) + 1)
    <3>2. n \in 1..Len(s) \/ n = Len(s) + 1
          OBVIOUS
    <3>3. QED  BY <1>2, <2>1, <2>2, <2>3, <3>2
  <2>5. QED  BY <1>6, <2>1, <2>4, SeqEqual
<1>9. FlattenSeq(g) = FlattenSeq(f) \o Taken(x, T) /\ FlattenSeq(f) \in Seq(S)
      BY <1>5, <1>7, <1>8, FlattenAppend
<1>10. FlattenSeq(f) \o << >> = FlattenSeq(f) /\ FlattenSeq(f) \o <<x>> = Append(FlattenSeq(f), x)
      BY <1>9, ConcatEmptySeq, AppendIsConcat
<1>11. QED  BY <1>1, <1>5, <1>6, <1>9, <1>10 DEF Taken

LEMMA OnlyConcat ==
  ASSUME NEW S, NEW s \in Seq(S), NEW t \in Seq(S), NEW T
  PROVE  Only(s \o t, T) = Only(s, T) \o Only(t, T)
<1>1. PICK V : V = {u \in Seq(S) : Only(s \o u, T) = Only(s, T) \o Only(u, T)}
      OBVIOUS
<1>2. Only(s, T) \in Seq(S)
      BY OnlyType
<1>3. << >> \in V
  <2>1. s \o << >> = s /\ Only(s, T) \o << >> = Only(s, T)
        BY <1>2, ConcatEmptySeq
  <2>2. QED  BY <1>1, <2>1, OnlyEmpty, EmptySeq
<1>4. ASSUME NEW u \in Seq(S), NEW x \in S, u \in V PROVE Append(u, x) \in V
  <2>1. Only(s \o u, T) = Only(s, T) \o Only(u, T)
        BY <1>1, <1>4
  <2>2. s \o u \in Seq(S) /\ s \o Append(u, x) = Append(s \o u, x) /\ Append(u, x) \in Seq(S)
        OBVIOUS
  <2>3. /\ Only(Append(u, x), T) = IF x \in T THEN Append(Only(u, T), x) ELSE Only(u, T)
        /\ Only(u, T) \in Seq(S)
        BY OnlyAppend, OnlyType
  <2>4. Only(Append(s \o u, x), T) = IF x \in T THEN Append(Only(s \o u, T), x) ELSE Only(s \o u, T)
        BY <2>2, OnlyAppend
  <2>5. Append(Only(s, T) \o Only(u, T), x) = Only(s, T) \o Append(Only(u, T), x)
    <3>1. Only(u, T) \in Seq(S)
          BY OnlyType
    <3>2. PICK a \in Seq(S), b \in Seq(S) : a = Only(s, T) /\ b = Only(u, T)
          BY <1>2, <3>1
    <3>3. a \o b \in Seq(S) /\ a \o Append(b, x) = Append(a \o b, x) /\ Append(b, x) \in Seq(S)
          OBVIOUS
    <3>4. QED  BY <3>2, <3>3
  <2>6. QED  BY <1>1, <2>1, <2>2, <2>3, <2>4, <2>5
<1>5. Seq(S) \subseteq V
      BY <1>3, <1>4, SeqInduction
<1>6. QED  BY <1>1, <1>5

(* Taking first what is in T and then what is in U of it.                    *)
LEMMA OnlyTwice ==
  ASSUME NEW S, NEW s \in Seq(S), NEW T, NEW U
  PROVE  Only(Only(s, T), U) = Only(s, T \cap U)
<1>1. PICK V : V = {u \in Seq(S) : Only(Only(u, T), U) = Only(u, T \cap U)}
      OBVIOUS
<1>2. << >> \in V
      BY <1>1, OnlyEmpty, EmptySeq
<1>3. ASSUME NEW u \in Seq(S), NEW x \in S, u \in V PROVE Append(u, x) \in V
  <2>1. Only(Only(u, T), U) = Only(u, T \cap U) /\ Only(u, T) \in Seq(S)
        BY <1>1, <1>3, OnlyType
  <2>2. Only(Append(u, x), T) = IF x \in T THEN Append(Only(u, T), x) ELSE Only(u, T)
        BY OnlyAppend
  <2>3. Only(Append(u, x), T \cap U)
          = IF x \in T \cap U THEN Append(Only(u, T \cap U), x) ELSE Only(u, T \cap U)
        BY OnlyAppend
  <2>4. Only(Append(Only(u, T), x), U)
          = IF x \in U THEN Append(Only(Only(u, T), U), x) ELSE Only(Only(u, T), U)
        BY <2>1, OnlyAppend
  <2>5. Append(u, x) \in Seq(S)
        OBVIOUS
  <2>6. Only(Only(Append(u, x), T), U) = Only(Append(u, x), T \cap U)
    <3>1. CASE x \in T
      <4>1. Only(Append(u, x), T) = Append(Only(u, T), x)
            BY <2>2, <3>1
      <4>2. x \in T \cap U <=> x \in U
            BY <3>1
      <4>3. QED  BY <2>1, <2>3, <2>4, <4>1, <4>2, Zenon
    <3>2. CASE x \notin T
          BY <2>1, <2>2, <2>3, <3>2
    <3>3. QED  BY <3>1, <3>2
  <2>7. QED  BY <1>1, <2>5, <2>6
<1>4. Seq(S) \subseteq V
      BY <1>2, <1>3, SeqInduction
<1>5. QED  BY <1>1, <1>4

LEMMA KeysFacts ==
  ASSUME NEW u \in Seq(Elements)
  PROVE  /\ Keys_(u) \in Seq(Keys) /\ Len(Keys_(u)) = Len(u) /\ Keys_(<< >>) = << >>
         /\ \A n \in 1..Len(u) : Keys_(u)[n] = u[n].key
<1>1. DOMAIN u = 1..Len(u) /\ Len(u) \in Nat
      BY LenProperties
<1>2. \A n \in 1..Len(u) : u[n].key \in Keys
  <2>1. \A n \in 1..Len(u) : u[n] \in Elements
        BY ElementOfSeq
  <2>2. QED  BY <2>1 DEF Elements
<1>3. Keys_(u) = [n \in 1..Len(u) |-> u[n].key]
      BY <1>1 DEF Keys_
<1>4. Keys_(<< >>) = << >>
      BY DEF Keys_
<1>5. QED  BY <1>1, <1>2, <1>3, <1>4

LEMMA KeysAppend ==
  ASSUME NEW s \in Seq(Elements), NEW x \in Elements
  PROVE  Keys_(Append(s, x)) = Append(Keys_(s), x.key)
<1>1. x.key \in Keys
      BY DEF Elements
<1>2. PICK u \in Seq(Elements) : u = Append(s, x)
      BY AppendProperties
<1>3. Len(u) = Len(s) + 1 /\ u[Len(s) + 1] = x /\ \A n \in 1..Len(s) : u[n] = s[n]
      BY <1>2, AppendProperties
<1>4. Keys_(u) = Append(Keys_(s), x.key)
      BY <1>1, <1>3, KeysFacts
<1>5. QED  BY <1>2, <1>4

LEMMA KeysConcat ==
  ASSUME NEW s \in Seq(Elements), NEW t \in Seq(Elements)
  PROVE  Keys_(s \o t) = Keys_(s) \o Keys_(t)
<1>1. PICK u \in Seq(Elements) : u = s \o t
      BY ConcatProperties
<1>2. /\ Len(u) = Len(s) + Len(t) /\ \A n \in 1..Len(s) : u[n] = s[n]
      /\ \A n \in 1..Len(t) : u[Len(s) + n] = t[n]
      BY <1>1, ConcatProperties
<1>3. PICK v, w : v = Keys_(s) \o Keys_(t) /\ w = Keys_(u)
      OBVIOUS
<1>4. /\ v \in Seq(Keys) /\ Len(v) = Len(u)
      /\ \A n \in 1..Len(u) : v[n] = IF n <= Len(s) THEN Keys_(s)[n] ELSE Keys_(t)[n - Len(s)]
  <2>1. PICK a, b : a = Keys_(s) /\ b = Keys_(t)
        OBVIOUS
  <2>2. a \in Seq(Keys) /\ b \in Seq(Keys) /\ Len(a) = Len(s) /\ Len(b) = Len(t) /\ v = a \o b
        BY KeysFacts, <1>3, <2>1
  <2>3. /\ v \in Seq(Keys) /\ Len(v) = Len(a) + Len(b)
        /\ \A i \in 1..(Len(a) + Len(b)) : v[i] = IF i <= Len(a) THEN a[i] ELSE b[i - Len(a)]
    <3>1. /\ a \o b \in Seq(Keys) /\ Len(a \o b) = Len(a) + Len(b)
          /\ \A i \in 1..(Len(a) + Len(b)) : (a \o b)[i] = IF i <= Len(a) THEN a[i] ELSE b[i - Len(a)]
          BY <2>2, ConcatProperties, Zenon
    <3>2. QED  BY <2>2, <3>1, Zenon
  <2>4. QED  BY <1>2, <2>1, <2>2, <2>3
<1>5. \A n \in 1..Len(u) : v[n] = u[n].key
  <2>1. TAKE n \in 1..Len(u)
  <2>2. CASE n <= Len(s)
    <3>1. n \in 1..Len(s)
          BY <2>2
    <3>2. QED  BY KeysFacts, <1>2, <1>4, <2>2, <3>1
  <2>3. CASE ~(n <= Len(s))
    <3>1. n - Len(s) \in 1..Len(t) /\ Len(s) + (n - Len(s)) = n
          BY <1>2, <2>3
    <3>2. v[n] = t[n - Len(s)].key
          BY KeysFacts, <1>4, <2>3, <3>1
    <3>3. u[n] = t[n - Len(s)]
          BY <1>2, <3>1
    <3>4. QED  BY <3>2, <3>3
  <2>4. QED  BY <2>2, <2>3
<1>6. w \in Seq(Keys) /\ Len(w) = Len(u) /\ \A n \in 1..Len(u) : w[n] = u[n].key
      BY KeysFacts, <1>3
<1>7. v = w
      BY <1>4, <1>5, <1>6, SeqEqual
<1>8. QED  BY <1>1, <1>3, <1>7

-----------------------------------------------------------------------------
(* The history of the pushes.                                              *)

Sides == {"left", "right", "in"}
Fed == [side : Sides, x : Elements]

(* The elements that went to a side, as a function of the history.           *)
To(s, side) ==
  LET taken == Only(s, [side : {side}, x : Elements])
  IN [n \in DOMAIN taken |-> taken[n].x]

On(side) == [side : {side}, x : Elements]

LEMMA ToFacts ==
  ASSUME NEW u \in Seq(Fed), NEW side \in Sides
  PROVE  /\ To(u, side) \in Seq(Elements) /\ Len(To(u, side)) = Len(Only(u, On(side)))
         /\ \A n \in 1..Len(Only(u, On(side))) : To(u, side)[n] = Only(u, On(side))[n].x
<1>1. PICK v \in Seq(Fed) : v = Only(u, On(side))
      BY OnlyType
<1>2. DOMAIN v = 1..Len(v) /\ Len(v) \in Nat
      BY LenProperties
<1>3. \A n \in 1..Len(v) : v[n].x \in Elements
  <2>1. \A n \in 1..Len(v) : v[n] \in Fed
        BY ElementOfSeq
  <2>2. QED  BY <2>1 DEF Fed
<1>4. To(u, side) = [n \in 1..Len(v) |-> v[n].x]
      BY <1>1, <1>2 DEF To, On
<1>5. PICK w : w = [n \in 1..Len(v) |-> v[n].x]
      OBVIOUS
<1>6. w \in Seq(Elements) /\ Len(w) = Len(v) /\ \A n \in 1..Len(v) : w[n] = v[n].x
      BY <1>2, <1>3, <1>5
<1>7. QED  BY <1>1, <1>4, <1>5, <1>6

LEMMA ToAppend ==
  ASSUME NEW s \in Seq(Fed), NEW i \in Fed, NEW side \in Sides
  PROVE  To(Append(s, i), side) = IF i.side = side THEN Append(To(s, side), i.x) ELSE To(s, side)
<1>1. PICK v \in Seq(Fed) : v = Only(s, On(side))
      BY OnlyType
<1>2. PICK t \in Seq(Fed), a \in Seq(Fed) : t = Append(s, i) /\ a = Append(v, i)
      BY AppendProperties
<1>3. i \in On(side) <=> i.side = side
      BY DEF Fed, On
<1>4. Only(t, On(side)) = IF i.side = side THEN a ELSE v
      BY <1>1, <1>2, <1>3, OnlyAppend
<1>5. CASE i.side = side
  <2>1. PICK w \in Seq(Elements), u \in Seq(Elements) : w = To(t, side) /\ u = To(s, side)
        BY ToFacts
  <2>2. i.x \in Elements
        BY DEF Fed
  <2>3. Len(a) = Len(v) + 1 /\ a[Len(v) + 1] = i /\ \A n \in 1..Len(v) : a[n] = v[n]
        BY <1>2, AppendProperties
  <2>4. Only(t, On(side)) = a
        BY <1>4, <1>5
  <2>5. Len(w) = Len(a) /\ \A n \in 1..Len(a) : w[n] = a[n].x
        BY <2>1, <2>4, ToFacts, Zenon
  <2>6. Len(u) = Len(v) /\ \A n \in 1..Len(v) : u[n] = v[n].x
        BY <1>1, <2>1, ToFacts, Zenon
  <2>7. \A n \in 1..Len(v) : w[n] = u[n]
        BY <2>3, <2>5, <2>6
  <2>8. Len(w) = Len(u) + 1 /\ w[Len(u) + 1] = i.x /\ \A n \in 1..Len(u) : w[n] = u[n]
        BY <2>3, <2>5, <2>6, <2>7
  <2>9. w = Append(u, i.x)
        BY <2>2, <2>8
  <2>10. QED  BY <1>2, <1>5, <2>1, <2>9
<1>6. CASE i.side # side
  <2>1. To(t, side) = To(s, side)
        BY <1>1, <1>4, <1>6 DEF To, On
  <2>2. QED  BY <1>2, <1>6, <2>1
<1>7. QED  BY <1>5, <1>6

LEMMA InputsAre == \A side : Inputs(side) = To(input, side) /\ Inputs(side)' = To(input', side)
  BY Zenon DEF Inputs, To

LEMMA InputsType ==
  ASSUME input \in Seq(Fed), NEW side \in Sides
  PROVE  Inputs(side) \in Seq(Elements)
  BY ToFacts, InputsAre

LEMMA InputsPushed ==
  ASSUME input \in Seq(Fed), NEW side \in Sides, NEW i \in Feed(side), Pushed(i)
  PROVE  /\ i \in Fed /\ i.x \in Elements /\ i.x.key \in Keys
         /\ i.x.id = Len(input) + 1 /\ i.side = side
         /\ input' \in Seq(Fed) /\ Len(input') = Len(input) + 1
         /\ Inputs(side)' = Append(Inputs(side), i.x)
         /\ \A other \in Sides : other # side => Inputs(other)' = Inputs(other)
<1>1. PICK k \in Keys : i = [side |-> side, x |-> [key |-> k, id |-> Len(input) + 1]]
      BY DEF Feed
<1>2. Len(input) \in Nat /\ Len(input) + 1 \in 1..MaxPushes
      BY BoundsAssumption DEF Pushed
<1>3. i.x = [key |-> k, id |-> Len(input) + 1] /\ i.side = side
      BY <1>1
<1>4. i.x \in Elements /\ i.x.key \in Keys /\ i.x.id = Len(input) + 1
      BY <1>2, <1>3 DEF Elements
<1>5. i \in Fed
      BY <1>1, <1>3, <1>4 DEF Fed
<1>6. input' = Append(input, i)
      BY DEF Pushed
<1>7. input' \in Seq(Fed) /\ Len(input') = Len(input) + 1
      BY <1>5, <1>6, AppendProperties
<1>8. \A other \in Sides : Inputs(other)'
        = IF i.side = other THEN Append(Inputs(other), i.x) ELSE Inputs(other)
      BY <1>5, <1>6, ToAppend, InputsAre
<1>9. QED  BY <1>3, <1>4, <1>5, <1>7, <1>8

LEMMA InputsStay ==
  ASSUME input' = input
  PROVE  \A side : Inputs(side)' = Inputs(side)
  BY InputsAre

-----------------------------------------------------------------------------
(* The circuit "group".                                                    *)

GroupNet ==
  [pushes : Nat, groups : [Keys -> Seq(Elements)], dedup : [Keys -> Nat],
   queue : Seq(Groups), pulls : Nat]

(* Dedup has counted the elements of the open group.                         *)
GroupInv ==
  kind = "group" =>
    /\ net \in GroupNet /\ got \in Seq(Groups)
    /\ \A k \in Keys : net.dedup[k] = Len(net.groups[k])
    /\ GroupsComplete

Of(k) == [group : {k}, xs : Seq(Elements)]
Together(f) == FlattenSeq([n \in DOMAIN f |-> f[n].xs])

LEMMA TogetherAppend ==
  ASSUME NEW f \in Seq(Groups), NEW g \in Groups
  PROVE  /\ Together(f) \in Seq(Elements)
         /\ Together(Append(f, g)) = Together(f) \o g.xs
<1>1. ASSUME NEW h \in Seq(Groups)
      PROVE  /\ [n \in DOMAIN h |-> h[n].xs] \in Seq(Seq(Elements))
             /\ Len([n \in DOMAIN h |-> h[n].xs]) = Len(h)
  <2>1. DOMAIN h = 1..Len(h) /\ Len(h) \in Nat
        BY LenProperties
  <2>2. \A n \in 1..Len(h) : h[n].xs \in Seq(Elements)
    <3>1. \A n \in 1..Len(h) : h[n] \in Groups
          BY ElementOfSeq
    <3>2. QED  BY <3>1 DEF Groups
  <2>3. PICK w : w = [n \in 1..Len(h) |-> h[n].xs]
        OBVIOUS
  <2>4. w \in Seq(Seq(Elements)) /\ Len(w) = Len(h)
        BY <2>1, <2>2, <2>3
  <2>5. QED  BY <2>1, <2>3, <2>4
<1>2. PICK h \in Seq(Groups) : h = Append(f, g)
      BY AppendProperties
<1>3. Len(h) = Len(f) + 1 /\ h[Len(f) + 1] = g /\ \A n \in 1..Len(f) : h[n] = f[n]
      BY <1>2, AppendProperties
<1>4. DOMAIN h = 1..Len(h) /\ DOMAIN f = 1..Len(f) /\ Len(f) \in Nat
      BY LenProperties
<1>5. g.xs \in Seq(Elements)
      BY DEF Groups
<1>6. PICK v, w : v = [n \in DOMAIN f |-> f[n].xs] /\ w = [n \in DOMAIN h |-> h[n].xs]
      OBVIOUS
<1>7. /\ v \in Seq(Seq(Elements)) /\ w \in Seq(Seq(Elements))
      /\ Len(v) = Len(f) /\ Len(w) = Len(f) + 1
      BY <1>1, <1>3, <1>6
<1>8. (\A n \in 1..Len(f) : v[n] = f[n].xs) /\ (\A n \in 1..(Len(f) + 1) : w[n] = h[n].xs)
      BY <1>3, <1>4, <1>6
<1>9. Len(f) + 1 \in 1..(Len(f) + 1) /\ \A n \in 1..Len(f) : n \in 1..(Len(f) + 1)
      BY <1>4
<1>10. Len(w) = Len(v) + 1 /\ w[Len(v) + 1] = g.xs /\ \A n \in 1..Len(v) : w[n] = v[n]
      BY <1>3, <1>7, <1>8, <1>9
<1>11. w = Append(v, g.xs)
  <2>1. PICK a : a = Append(v, g.xs)
        OBVIOUS
  <2>2. /\ a \in Seq(Seq(Elements)) /\ Len(a) = Len(v) + 1 /\ a[Len(v) + 1] = g.xs
        /\ \A n \in 1..Len(v) : a[n] = v[n]
        BY <1>5, <1>7, <2>1, AppendProperties
  <2>3. \A n \in 1..Len(w) : w[n] = a[n]
    <3>1. TAKE n \in 1..Len(w)
    <3>2. n \in 1..Len(v) \/ n = Len(v) + 1
          BY <1>4, <1>7
    <3>3. QED  BY <1>10, <2>2, <3>2
  <2>4. QED  BY <1>7, <1>10, <2>1, <2>2, <2>3, SeqEqual
<1>12. FlattenSeq(v) \in Seq(Elements) /\ FlattenSeq(w) = FlattenSeq(v) \o g.xs
      BY <1>5, <1>7, <1>11, FlattenAppend
<1>13. QED  BY <1>2, <1>6, <1>12 DEF Together

(* A group that is passed on in addition, or kept open.                      *)
LEMMA Passed ==
  ASSUME NEW p \in Seq(Groups), NEW g \in Groups, NEW k \in Keys
  PROVE  Only(Append(p, g), Of(k)) = IF g.group = k THEN Append(Only(p, Of(k)), g) ELSE Only(p, Of(k))
<1>1. g \in Of(k) <=> g.group = k
      BY DEF Groups, Of
<1>2. QED  BY <1>1, OnlyAppend

LEMMA FlushedAre ==
  \A k : /\ Flushed(k) = Only(got \o net.queue, Of(k))
         /\ Flushed(k)' = Only(got' \o net'.queue, Of(k))
  BY DEF Flushed, Of

(* GroupsComplete for one key, of what was passed on, the open group and     *)
(* what was pushed.                                                          *)
Complete(p, open, in, k) ==
  /\ Together(Only(p, Of(k))) \o open = Only(in, {x \in Elements : x.key = k})
  /\ \A n \in DOMAIN Only(p, Of(k)) : Len(Only(p, Of(k))[n].xs) = num_dups_
  /\ Len(open) < num_dups_

LEMMA GroupsCompleteAre ==
  /\ GroupsComplete <=>
       (kind = "group" =>
          \A k \in Keys : Complete(got \o net.queue, net.groups[k], Inputs("in"), k))
  /\ GroupsComplete' <=>
       (kind' = "group" =>
          \A k \in Keys : Complete(got' \o net'.queue, net'.groups[k], Inputs("in")', k))
<1>1. \A k : Flushed(k) = Only(got \o net.queue, Of(k)) /\ Flushed(k)' = Only(got' \o net'.queue, Of(k))
      BY FlushedAre
<1>2. QED  BY <1>1, Zenon DEF GroupsComplete, Complete, Together

LEMMA CompleteAfter ==
  ASSUME NEW p \in Seq(Groups), NEW open \in Seq(Elements), NEW in \in Seq(Elements),
         NEW k \in Keys, NEW x \in Elements, NEW g \in Groups, Complete(p, open, in, k)
  PROVE  /\ x.key = k /\ Len(open) + 1 # num_dups_ => Complete(p, Append(open, x), Append(in, x), k)
         /\ x.key = k /\ Len(open) + 1 = num_dups_ /\ g.group = k /\ g.xs = Append(open, x)
              => Complete(Append(p, g), << >>, Append(in, x), k)
         /\ x.key # k => Complete(p, open, Append(in, x), k)
         /\ x.key # k /\ g.group # k => Complete(Append(p, g), open, Append(in, x), k)
<1> DEFINE K == {y \in Elements : y.key = k}
<1>1. PICK f : f = Only(p, Of(k))
      OBVIOUS
<1>2. f \in Seq(Groups) /\ DOMAIN f = 1..Len(f) /\ Len(f) \in Nat
      BY <1>1, OnlyType, LenProperties
<1>3. PICK u, r : u = Together(f) /\ r = Only(in, K)
      OBVIOUS
<1>4. u \in Seq(Elements) /\ r \in Seq(Elements)
      BY <1>2, <1>3, TogetherAppend, OnlyType
<1>5. /\ u \o open = r /\ Len(open) < num_dups_ /\ Len(open) \in Nat /\ num_dups_ \in Nat
      /\ \A n \in 1..Len(f) : Len(f[n].xs) = num_dups_
  <2>1. Len(open) \in Nat /\ num_dups_ \in Nat
        BY NumDupsAssumption, LenProperties
  <2>2. u \o open = r /\ Len(open) < num_dups_
        BY <1>1, <1>3, Zenon DEF Complete
  <2>3. \A n \in 1..Len(f) : Len(f[n].xs) = num_dups_
        BY <1>1, <1>2, Zenon DEF Complete
  <2>4. QED  BY <2>1, <2>2, <2>3
<1>6. Only(Append(in, x), K) = IF x.key = k THEN Append(r, x) ELSE r
  <2>1. Only(Append(in, x), K) = IF x \in K THEN Append(Only(in, K), x) ELSE Only(in, K)
        BY OnlyAppend
  <2>2. x \in K <=> x.key = k
        OBVIOUS
  <2>3. QED  BY <1>3, <2>1, <2>2, Zenon
<1>7. Only(Append(p, g), Of(k)) = IF g.group = k THEN Append(f, g) ELSE f
      BY <1>1, Passed
<1>8. PICK o : o = Append(open, x)
      OBVIOUS
<1>9. o \in Seq(Elements) /\ Len(o) = Len(open) + 1 /\ u \o o = Append(u \o open, x)
      BY <1>4, <1>8
<1>10. CASE x.key = k /\ Len(open) + 1 # num_dups_
  <2>1. u \o o = Only(Append(in, x), K) /\ Len(o) < num_dups_
        BY <1>5, <1>6, <1>9, <1>10
  <2>2. Complete(p, o, Append(in, x), k)
        BY <1>1, <1>2, <1>3, <1>5, <2>1 DEF Complete
  <2>3. QED  BY <1>8, <1>10, <2>2
<1>11. CASE x.key = k /\ Len(open) + 1 = num_dups_
  <2>1. SUFFICES ASSUME g.group = k, g.xs = o
                 PROVE  Complete(Append(p, g), << >>, Append(in, x), k)
        BY <1>8, <1>11
  <2>2. PICK h : h = Append(f, g)
        OBVIOUS
  <2>3. h \in Seq(Groups) /\ Len(h) = Len(f) + 1 /\ h[Len(f) + 1] = g /\ \A n \in 1..Len(f) : h[n] = f[n]
        BY <1>2, <2>2, AppendProperties
  <2>4. Together(h) = u \o o
        BY <1>2, <1>3, <2>1, <2>2, TogetherAppend
  <2>5. PICK v \in Seq(Elements) : v = u \o o
        BY <1>4, <1>9, ConcatProperties
  <2>6. v \o << >> = v
        BY ConcatEmptySeq
  <2>7. v = Only(Append(in, x), K)
        BY <1>5, <1>6, <1>9, <1>11, <2>5
  <2>8. \A n \in 1..(Len(f) + 1) : Len(h[n].xs) = num_dups_
    <3>1. TAKE n \in 1..(Len(f) + 1)
    <3>2. n \in 1..Len(f) \/ n = Len(f) + 1
          BY <1>2
    <3>3. QED  BY <1>5, <1>9, <1>11, <2>1, <2>3, <3>2
  <2>9. DOMAIN h = 1..(Len(f) + 1) /\ Len(<< >>) = 0 /\ 0 < num_dups_
        BY <1>5, <2>3, LenProperties, EmptySeq
  <2>10. Only(Append(p, g), Of(k)) = h
        BY <1>7, <2>1, <2>2
  <2>11. QED  BY <2>4, <2>5, <2>6, <2>7, <2>8, <2>9, <2>10 DEF Complete
<1>12. CASE x.key # k
  <2>1. Complete(p, open, Append(in, x), k)
        BY <1>1, <1>2, <1>3, <1>5, <1>6, <1>12 DEF Complete
  <2>2. ASSUME g.group # k PROVE Complete(Append(p, g), open, Append(in, x), k)
    <3>1. Only(Append(p, g), Of(k)) = f
          BY <1>7, <2>2
    <3>2. QED  BY <1>2, <1>3, <1>5, <1>6, <1>12, <3>1 DEF Complete
  <2>3. QED  BY <1>12, <2>1, <2>2
<1>13. QED  BY <1>10, <1>11, <1>12

LEMMA GroupNetHas ==
  ASSUME NEW a \in Nat, NEW b \in [Keys -> Seq(Elements)], NEW c \in [Keys -> Nat],
         NEW d \in Seq(Groups), NEW e \in Nat
  PROVE  [pushes |-> a, groups |-> b, dedup |-> c, queue |-> d, pulls |-> e] \in GroupNet
  BY DEF GroupNet

LEMMA GroupPush ==
  ASSUME input \in Seq(Fed), GroupInv, PushGroup
  PROVE  GroupInv'
<1>1. PICK i \in Feed("in") :
        LET k == i.x.key
            groups == push_group(net.groups, k, i.x)
            dedup == DedupPush(num_dups_, net.dedup, k)
            ended == IF dedup.out = << >> THEN Result(groups, << >>) ELSE end_group(groups, k)
        IN /\ net' = [net EXCEPT !.pushes = CounterPush(@, i.x).state, !.dedup = dedup.state,
                                 !.groups = ended.state, !.queue = @ \o ended.out]
           /\ Pushed(i)
      BY DEF PushGroup
<1>2. PICK x : x = i.x
      OBVIOUS
<1>3. x \in Elements /\ x.key \in Keys /\ Inputs("in")' = Append(Inputs("in"), x)
      BY <1>1, <1>2, InputsPushed DEF Sides
<1>4. PICK k \in Keys : k = x.key
      BY <1>3
<1>5. kind = "group" /\ kind' = "group" /\ got' = got
      BY <1>1 DEF PushGroup, Pushed
<1>6. PICK groups, counts, queue, in :
        groups = net.groups /\ counts = net.dedup /\ queue = net.queue /\ in = Inputs("in")
      OBVIOUS
<1>7. /\ groups \in [Keys -> Seq(Elements)] /\ counts \in [Keys -> Nat]
      /\ queue \in Seq(Groups) /\ net.pushes \in Nat /\ net.pulls \in Nat /\ net \in GroupNet
      /\ got \in Seq(Groups) /\ in \in Seq(Elements)
      /\ \A j \in Keys : counts[j] = Len(groups[j])
      BY <1>5, <1>6, InputsType DEF GroupInv, GroupNet, Sides
<1>8. PICK p \in Seq(Groups) : p = got \o queue
      BY <1>7, ConcatProperties
<1>9. \A j \in Keys : Complete(p, groups[j], in, j)
      BY <1>5, <1>6, <1>8, GroupsCompleteAre DEF GroupInv
<1>10. PICK o : o = Append(groups[k], x)
      OBVIOUS
<1>11. o \in Seq(Elements) /\ Len(o) = Len(groups[k]) + 1 /\ counts[k] \in Nat
      BY <1>3, <1>7, <1>10, AppendProperties
<1>12. CASE Len(groups[k]) + 1 # num_dups_
  <2>1. /\ DedupPush(num_dups_, counts, k).out = << >>
        /\ DedupPush(num_dups_, counts, k).state = [counts EXCEPT ![k] = Len(groups[k]) + 1]
        BY <1>7, <1>12 DEF DedupPush, Result
  <2>2. /\ net'.groups = [groups EXCEPT ![k] = o] /\ net'.queue = queue \o << >>
        /\ net'.dedup = [counts EXCEPT ![k] = Len(groups[k]) + 1]
        /\ net'.pushes = net.pushes + 1 /\ net'.pulls = net.pulls
        /\ net' = [pushes |-> net'.pushes, groups |-> net'.groups, dedup |-> net'.dedup,
                   queue |-> net'.queue, pulls |-> net'.pulls]
        BY <1>1, <1>2, <1>4, <1>6, <1>7, <1>10, <2>1 DEF GroupNet, push_group, CounterPush, Result
  <2>3. net'.queue = queue
        BY <1>7, <2>2, ConcatEmptySeq
  <2>4. net' \in GroupNet
    <3>1. net'.groups \in [Keys -> Seq(Elements)] /\ net'.dedup \in [Keys -> Nat]
          BY <1>7, <1>11, <2>2
    <3>2. net'.queue \in Seq(Groups) /\ net'.pushes \in Nat /\ net'.pulls \in Nat
          BY <1>7, <2>2, <2>3
    <3>3. PICK a \in Nat, b \in [Keys -> Seq(Elements)], c \in [Keys -> Nat],
                d \in Seq(Groups), e \in Nat :
            net' = [pushes |-> a, groups |-> b, dedup |-> c, queue |-> d, pulls |-> e]
          BY <2>2, <3>1, <3>2
    <3>4. QED  BY <3>3, GroupNetHas
  <2>5. \A j \in Keys : net'.dedup[j] = Len(net'.groups[j])
        BY <1>7, <1>11, <2>2
  <2>6. ASSUME NEW j \in Keys PROVE Complete(p, net'.groups[j], Append(in, x), j)
    <3>1. PICK g \in Groups : TRUE
      <4>1. [group |-> k, xs |-> o] \in Groups
            BY <1>11 DEF Groups
      <4>2. QED  BY <4>1
    <3>2. Complete(p, groups[j], in, j) /\ groups[j] \in Seq(Elements)
          BY <1>7, <1>9
    <3>3. CASE j = k
          BY <1>3, <1>4, <1>7, <1>10, <1>12, <2>2, <3>1, <3>2, <3>3, CompleteAfter
    <3>4. CASE j # k
          BY <1>3, <1>4, <1>7, <2>2, <3>1, <3>2, <3>4, CompleteAfter
    <3>5. QED  BY <3>3, <3>4
  <2>7. GroupsComplete'
        BY <1>3, <1>5, <1>6, <1>8, <2>3, <2>6, GroupsCompleteAre
  <2>8. QED  BY <1>5, <1>7, <2>4, <2>5, <2>7 DEF GroupInv
<1>13. CASE Len(groups[k]) + 1 = num_dups_
  <2>1. PICK g : g = [group |-> k, xs |-> o]
        OBVIOUS
  <2>2. g \in Groups /\ g.group = k /\ g.xs = o
        BY <1>11, <2>1 DEF Groups
  <2>3. /\ DedupPush(num_dups_, counts, k).out # << >>
        /\ DedupPush(num_dups_, counts, k).state = [counts EXCEPT ![k] = 0]
        BY <1>7, <1>13 DEF DedupPush, Result
  <2>4. PICK pushed : pushed = push_group(groups, k, x)
        OBVIOUS
  <2>5. pushed[k] = o /\ [pushed EXCEPT ![k] = << >>] = [groups EXCEPT ![k] = << >>]
        BY <1>7, <1>10, <2>4 DEF push_group
  <2>6. /\ end_group(pushed, k).out = <<g>>
        /\ end_group(pushed, k).state = [groups EXCEPT ![k] = << >>]
        BY <2>1, <2>5 DEF end_group, Result
  <2>7. /\ net'.groups = [groups EXCEPT ![k] = << >>] /\ net'.queue = queue \o <<g>>
        /\ net'.dedup = [counts EXCEPT ![k] = 0]
        /\ net'.pushes = net.pushes + 1 /\ net'.pulls = net.pulls
        /\ net' = [pushes |-> net'.pushes, groups |-> net'.groups, dedup |-> net'.dedup,
                   queue |-> net'.queue, pulls |-> net'.pulls]
        BY <1>1, <1>2, <1>4, <1>6, <1>7, <2>3, <2>4, <2>6 DEF GroupNet, CounterPush, Result
  <2>8. net'.queue = Append(queue, g) /\ net'.queue \in Seq(Groups)
        BY <1>7, <2>2, <2>7, AppendIsConcat, AppendProperties
  <2>9. net' \in GroupNet
    <3>1. net'.groups \in [Keys -> Seq(Elements)] /\ net'.dedup \in [Keys -> Nat]
          BY <1>7, <2>7
    <3>2. net'.queue \in Seq(Groups) /\ net'.pushes \in Nat /\ net'.pulls \in Nat
          BY <1>7, <2>7, <2>8
    <3>3. PICK a \in Nat, b \in [Keys -> Seq(Elements)], c \in [Keys -> Nat],
                d \in Seq(Groups), e \in Nat :
            net' = [pushes |-> a, groups |-> b, dedup |-> c, queue |-> d, pulls |-> e]
          BY <2>7, <3>1, <3>2
    <3>4. QED  BY <3>3, GroupNetHas
  <2>10. \A j \in Keys : net'.dedup[j] = Len(net'.groups[j])
        BY <1>7, <2>7
  <2>11. got \o net'.queue = Append(p, g)
    <3>1. got \o Append(queue, g) = Append(got \o queue, g) /\ got \o queue \in Seq(Groups)
          BY <1>7, <2>2
    <3>2. QED  BY <1>8, <2>8, <3>1
  <2>12. ASSUME NEW j \in Keys PROVE Complete(Append(p, g), net'.groups[j], Append(in, x), j)
    <3>1. Complete(p, groups[j], in, j) /\ groups[j] \in Seq(Elements)
          BY <1>7, <1>9
    <3>2. CASE j = k
      <4>1. Complete(Append(p, g), << >>, Append(in, x), j)
            BY <1>3, <1>4, <1>7, <1>10, <1>13, <2>2, <3>1, <3>2, CompleteAfter
      <4>2. net'.groups[j] = << >>
            BY <1>7, <2>7, <3>2
      <4>3. QED  BY <4>1, <4>2
    <3>3. CASE j # k
          BY <1>3, <1>4, <1>7, <2>2, <2>7, <3>1, <3>3, CompleteAfter
    <3>4. QED  BY <3>2, <3>3
  <2>13. GroupsComplete'
        BY <1>3, <1>5, <1>6, <2>11, <2>12, GroupsCompleteAre
  <2>14. QED  BY <1>5, <1>7, <2>9, <2>10, <2>13 DEF GroupInv
<1>14. QED  BY <1>12, <1>13

LEMMA GroupPull ==
  ASSUME input \in Seq(Fed), GroupInv, PullGroup
  PROVE  GroupInv'
<1>1. PICK queue : queue = net.queue
      OBVIOUS
<1>2. kind = "group" /\ kind' = "group" /\ input' = input
      BY DEF PullGroup, Pulled
<1>3. queue \in Seq(Groups) /\ got \in Seq(Groups) /\ net \in GroupNet
      BY <1>1, <1>2 DEF GroupInv, GroupNet
<1>a. PICK a \in Nat, b \in [Keys -> Seq(Elements)], c \in [Keys -> Nat], e \in Nat :
        net = [pushes |-> a, groups |-> b, dedup |-> c, queue |-> queue, pulls |-> e]
      BY <1>1, <1>3 DEF GroupNet
<1>4. CASE queue = << >>
  <2>1. /\ net' = [pushes |-> a, groups |-> b, dedup |-> c, queue |-> queue, pulls |-> e + 1]
        /\ got' = got
    <3>1. net' = [net EXCEPT !.queue = queue, !.pulls = net.pulls + 1] /\ got' = got
          BY <1>1, <1>4 DEF PullGroup, QueuePull, CounterPull, Result, Pulled
    <3>2. QED  BY <1>a, <3>1
  <2>2. net'.queue = net.queue /\ net'.groups = net.groups /\ net'.dedup = net.dedup /\ net' \in GroupNet
    <3>1. PICK n \in Nat : n = e + 1
          OBVIOUS
    <3>2. net' = [pushes |-> a, groups |-> b, dedup |-> c, queue |-> queue, pulls |-> n]
          BY <2>1, <3>1
    <3>3. QED  BY <1>a, <1>3, <3>2, GroupNetHas
  <2>3. QED  BY <1>2, <1>3, <2>1, <2>2, InputsStay, GroupsCompleteAre DEF GroupInv
<1>5. CASE queue # << >>
  <2>1. PICK g \in Groups, rest \in Seq(Groups) : g = Head(queue) /\ rest = Tail(queue)
        BY <1>3, <1>5, HeadTailProperties
  <2>2. g # None
        BY NoneAssumption
  <2>3. /\ net' = [pushes |-> a, groups |-> b, dedup |-> c, queue |-> rest, pulls |-> e + 1]
        /\ got' = Append(got, g)
    <3>1. net' = [net EXCEPT !.queue = rest, !.pulls = net.pulls + 1] /\ got' = Append(got, g)
          BY <1>1, <1>5, <2>1, <2>2 DEF PullGroup, QueuePull, CounterPull, Result, Pulled
    <3>2. QED  BY <1>a, <3>1
  <2>4. net'.queue = rest /\ net'.groups = net.groups /\ net'.dedup = net.dedup /\ net' \in GroupNet
    <3>1. PICK n \in Nat : n = e + 1
          OBVIOUS
    <3>2. net' = [pushes |-> a, groups |-> b, dedup |-> c, queue |-> rest, pulls |-> n]
          BY <2>3, <3>1
    <3>3. QED  BY <1>a, <3>2, GroupNetHas
  <2>5. got' \in Seq(Groups) /\ got' \o rest = got \o queue
        BY <1>3, <1>5, <2>1, <2>3
  <2>6. QED  BY <1>1, <1>2, <2>4, <2>5, InputsStay, GroupsCompleteAre DEF GroupInv
<1>6. QED  BY <1>4, <1>5

-----------------------------------------------------------------------------
(* The circuits "dup" and "dedup".                                         *)

LEMMA PrefixOfConcat ==
  ASSUME NEW S, NEW s \in Seq(S), NEW t \in Seq(S)
  PROVE  IsPrefix(s, s \o t)
<1>1. PICK u \in Seq(S) : u = s \o t
      BY ConcatProperties
<1>2. Len(u) = Len(s) + Len(t) /\ \A i \in 1..Len(s) : u[i] = s[i]
      BY <1>1, ConcatProperties
<1>3. SubSeq(s, 1, Len(s)) = SubSeq(u, 1, Len(s)) /\ Len(s) <= Len(u)
      BY <1>2
<1>4. QED  BY <1>1, <1>3 DEF IsPrefix

DedupNet ==
  [queue : Seq(Elements), register : Elements \cup {None},
   dup : [num_dups_sent_ : 0..num_dups_, buf_ : Keys \cup {None}], dedup : [Keys -> Nat]]

(* What Dup<Pull> has begun to repeat and Dedup<Push> not yet passed on.     *)
Halfway(sent, buf) == IF buf # None /\ sent \in 1..(num_dups_ - 1) THEN <<buf>> ELSE << >>

Counted(counts, sent, buf) ==
  \A k \in Keys : counts[k] = IF buf = k /\ sent < num_dups_ THEN sent ELSE 0

(* What was taken off the queue and passes the filter is what has arrived,   *)
(* and what is repeated now.                                                 *)
Arrived(surviving, queue, out, half) ==
  \E taken \in Seq(Elements) :
    /\ surviving = taken \o queue
    /\ Keys_(Only(taken, Odd)) = out \o half

DedupInv ==
  kind = "dedup" =>
    /\ net \in DedupNet /\ sink \in Seq(Keys)
    /\ Counted(net.dedup, net.dup.num_dups_sent_, net.dup.buf_)
    /\ Arrived(Surviving(Accepted), net.queue, sink, Halfway(net.dup.num_dups_sent_, net.dup.buf_))

LEMMA SurvivingAre ==
  \A T : Surviving(T) = Only(Inputs("in"), T) /\ Surviving(T)' = Only(Inputs("in")', T)
  BY DEF Surviving

LEMMA ElementKey ==
  ASSUME NEW x \in Elements
  PROVE  x.key \in Keys /\ key_[x] = x.key /\ x # None /\ x.key # None
  BY NoneAssumption DEF Elements, key_

LEMMA DedupNetParts ==
  ASSUME NEW r
  PROVE  r \in DedupNet <=>
           \E q \in Seq(Elements), g \in Elements \cup {None}, n \in 0..num_dups_, b \in Keys \cup {None},
              c \in [Keys -> Nat] :
             r = [queue |-> q, register |-> g, dup |-> [num_dups_sent_ |-> n, buf_ |-> b], dedup |-> c]
  BY DEF DedupNet

(* The rest of a pull, after the upstream: x is what Dup<Pull> returns, and   *)
(* sent how often it has returned it with this one.                          *)
LEMMA DedupOne ==
  ASSUME NEW counts \in [Keys -> Nat], NEW sent \in 0..(num_dups_ - 1), NEW k \in Keys,
         \A j \in Keys : counts[j] = IF j = k THEN sent ELSE 0
  PROVE  /\ DedupPush(num_dups_, counts, k).state \in [Keys -> Nat]
         /\ Counted(DedupPush(num_dups_, counts, k).state, sent + 1, k)
         /\ DedupPush(num_dups_, counts, k).out \o Halfway(sent + 1, k) = <<k>>
         /\ DedupPush(num_dups_, counts, k).out \in Seq(Keys)
         /\ Halfway(sent + 1, k) \in Seq(Keys)
<1>1. num_dups_ \in Nat /\ num_dups_ # 0 /\ k # None /\ counts[k] = sent /\ sent \in Nat
      BY NumDupsAssumption, NoneAssumption
<1>2. CASE sent + 1 = num_dups_
  <2>1. /\ DedupPush(num_dups_, counts, k).state = [counts EXCEPT ![k] = 0]
        /\ DedupPush(num_dups_, counts, k).out = <<k>>
        BY <1>1, <1>2 DEF DedupPush, Result
  <2>2. Halfway(sent + 1, k) = << >>
        BY <1>1, <1>2 DEF Halfway
  <2>3. PICK c \in [Keys -> Nat] : c = [counts EXCEPT ![k] = 0]
        OBVIOUS
  <2>4. Counted(c, sent + 1, k)
        BY <1>1, <1>2, <2>3 DEF Counted
  <2>5. <<k>> \o << >> = <<k>> /\ <<k>> \in Seq(Keys) /\ << >> \in Seq(Keys)
        OBVIOUS
  <2>6. QED  BY <2>1, <2>2, <2>3, <2>4, <2>5
<1>3. CASE sent + 1 # num_dups_
  <2>1. /\ DedupPush(num_dups_, counts, k).state = [counts EXCEPT ![k] = sent + 1]
        /\ DedupPush(num_dups_, counts, k).out = << >>
        BY <1>1, <1>3 DEF DedupPush, Result
  <2>2. Halfway(sent + 1, k) = <<k>>
        BY <1>1, <1>3 DEF Halfway
  <2>3. PICK c \in [Keys -> Nat] : c = [counts EXCEPT ![k] = sent + 1]
    <3>1. sent + 1 \in Nat
          BY <1>1
    <3>2. [counts EXCEPT ![k] = sent + 1] \in [Keys -> Nat]
          BY <3>1
    <3>3. QED  BY <3>2
  <2>4. Counted(c, sent + 1, k)
    <3>1. sent + 1 < num_dups_
          BY <1>1, <1>3
    <3>2. \A j \in Keys : c[j] = IF j = k THEN sent + 1 ELSE counts[j]
          BY <2>3
    <3>3. QED  BY <3>1, <3>2 DEF Counted
  <2>5. << >> \o <<k>> = <<k>> /\ <<k>> \in Seq(Keys) /\ << >> \in Seq(Keys)
        OBVIOUS
  <2>6. QED  BY <2>1, <2>2, <2>3, <2>4, <2>5
<1>4. QED  BY <1>2, <1>3

LEMMA DedupPushed ==
  ASSUME input \in Seq(Fed), DedupInv, PushDedup
  PROVE  DedupInv'
<1>1. PICK i \in Feed("in") :
        /\ IF IfPush(Accepted, i.x) = "true_branch_"
           THEN net' = [net EXCEPT !.queue = QueuePush(@, i.x)]
           ELSE net' = [net EXCEPT !.register = i.x]
        /\ Pushed(i)
      BY DEF PushDedup
<1>2. PICK x : x = i.x
      OBVIOUS
<1>3. x \in Elements /\ Inputs("in")' = Append(Inputs("in"), x)
      BY <1>1, <1>2, InputsPushed DEF Sides
<1>4. kind = "dedup" /\ kind' = "dedup" /\ sink' = sink
      BY <1>1 DEF PushDedup, Pushed
<1>5. PICK q \in Seq(Elements), g \in Elements \cup {None}, n \in 0..num_dups_, b \in Keys \cup {None},
           c \in [Keys -> Nat] :
        net = [queue |-> q, register |-> g, dup |-> [num_dups_sent_ |-> n, buf_ |-> b], dedup |-> c]
      BY <1>4, DedupNetParts DEF DedupInv
<1>6. PICK in \in Seq(Elements) : in = Inputs("in")
      BY InputsType DEF Sides
<1>7. PICK s \in Seq(Elements) : s = Only(in, Accepted)
      BY OnlyType
<1>8. /\ sink \in Seq(Keys) /\ Counted(c, n, b)
      /\ Arrived(s, q, sink, Halfway(n, b))
      BY <1>4, <1>5, <1>6, <1>7, SurvivingAre DEF DedupInv
<1>9. Surviving(Accepted)' = IF x \in Accepted THEN Append(s, x) ELSE s
  <2>1. Only(Append(in, x), Accepted) = IF x \in Accepted THEN Append(s, x) ELSE s
        BY <1>3, <1>7, OnlyAppend
  <2>2. Surviving(Accepted)' = Only(Append(in, x), Accepted)
        BY <1>3, <1>6, SurvivingAre
  <2>3. QED  BY <2>1, <2>2
<1>10. CASE x \in Accepted
  <2>1. PICK p \in Seq(Elements) : p = Append(q, x)
        BY <1>3, AppendProperties
  <2>2. net' = [net EXCEPT !.queue = QueuePush(@, x)]
        BY <1>1, <1>2, <1>10 DEF IfPush
  <2>3. net' = [queue |-> p, register |-> g, dup |-> [num_dups_sent_ |-> n, buf_ |-> b], dedup |-> c]
        BY <1>5, <2>1, <2>2 DEF QueuePush
  <2>4. PICK taken \in Seq(Elements) : s = taken \o q /\ Keys_(Only(taken, Odd)) = sink \o Halfway(n, b)
        BY <1>8 DEF Arrived
  <2>5. Append(s, x) = taken \o p
    <3>1. taken \o Append(q, x) = Append(taken \o q, x) /\ taken \o q \in Seq(Elements)
          BY <1>3
    <3>2. QED  BY <2>1, <2>4, <3>1
  <2>6. Arrived(Append(s, x), p, sink, Halfway(n, b))
        BY <2>4, <2>5 DEF Arrived
  <2>7. net' \in DedupNet
        BY <2>3, DedupNetParts
  <2>8. QED  BY <1>4, <1>8, <1>9, <1>10, <2>3, <2>6, <2>7 DEF DedupInv
<1>11. CASE x \notin Accepted
  <2>1. net' = [net EXCEPT !.register = x]
        BY <1>1, <1>2, <1>11 DEF IfPush
  <2>2. PICK h \in Elements \cup {None} : h = x
        BY <1>3
  <2>3. net' = [queue |-> q, register |-> h, dup |-> [num_dups_sent_ |-> n, buf_ |-> b], dedup |-> c]
        BY <1>5, <2>1, <2>2
  <2>4. net' \in DedupNet
        BY <2>3, DedupNetParts
  <2>5. QED  BY <1>4, <1>8, <1>9, <1>11, <2>3, <2>4 DEF DedupInv
<1>12. QED  BY <1>10, <1>11

LEMMA KeysAssociative ==
  \A s, t, u \in Seq(Keys) : (s \o t) \o u = s \o (t \o u)
  BY ConcatAssociative

LEMMA HeadStays ==
  ASSUME NEW s \in Seq(Keys), s # << >>, NEW k \in Keys
  PROVE  Head(Append(s, k)) = Head(s) /\ Tail(Append(s, k)) = Append(Tail(s), k)
  OBVIOUS

LEMMA AppendAsConcat ==
  ASSUME NEW s \in Seq(Keys), NEW k \in Keys
  PROVE  Append(s, k) = s \o <<k>>
  OBVIOUS

LEMMA KeysAppended ==
  \A k \in Keys : \A s, t \in Seq(Keys) : s \o Append(t, k) = Append(s \o t, k)
  OBVIOUS

LEMMA KeysMoved ==
  \A s, t \in Seq(Keys) : t # << >> => Append(s, Head(t)) \o Tail(t) = s \o t
  OBVIOUS

LEMMA DedupPulled ==
  ASSUME input \in Seq(Fed), DedupInv, PullDedup
  PROVE  DedupInv'
<1>1. kind = "dedup" /\ kind' = "dedup" /\ input' = input
      BY DEF PullDedup, Pulled
<1>2. PICK q \in Seq(Elements), g \in Elements \cup {None}, n \in 0..num_dups_, b \in Keys \cup {None},
           c \in [Keys -> Nat] :
        net = [queue |-> q, register |-> g, dup |-> [num_dups_sent_ |-> n, buf_ |-> b], dedup |-> c]
      BY <1>1, DedupNetParts DEF DedupInv
<1>3. PICK s \in Seq(Elements) : s = Surviving(Accepted)
      BY InputsType, SurvivingAre, OnlyType DEF Sides
<1>4. Surviving(Accepted)' = s
      BY <1>1, <1>3, InputsStay, SurvivingAre
<1>5. sink \in Seq(Keys) /\ Counted(c, n, b)
      BY <1>1, <1>2 DEF DedupInv
<1>6. PICK taken \in Seq(Elements) : s = taken \o q /\ Keys_(Only(taken, Odd)) = sink \o Halfway(n, b)
  <2>1. Arrived(s, q, sink, Halfway(n, b))
        BY <1>1, <1>2, <1>3 DEF DedupInv
  <2>2. QED  BY <2>1 DEF Arrived
<1>7. num_dups_ \in Nat /\ num_dups_ # 0 /\ n \in Nat /\ None \notin Keys
      BY NumDupsAssumption, NoneAssumption
(* What is left to show of a step that leaves p in the queue. *)
<1>8. ASSUME NEW p \in Seq(Elements), NEW m \in 0..num_dups_, NEW d \in Keys \cup {None},
             NEW e \in [Keys -> Nat], NEW out \in Seq(Keys), NEW t \in Seq(Elements),
             net' = [queue |-> p, register |-> g, dup |-> [num_dups_sent_ |-> m, buf_ |-> d], dedup |-> e],
             sink' = out, Counted(e, m, d), s = t \o p, Keys_(Only(t, Odd)) = out \o Halfway(m, d)
      PROVE  DedupInv'
  <2>1. net' \in DedupNet
        BY <1>8, DedupNetParts
  <2>2. Arrived(s, p, out, Halfway(m, d))
        BY <1>8 DEF Arrived
  <2>3. QED  BY <1>1, <1>4, <1>8, <2>1, <2>2 DEF DedupInv
<1>9. CASE n \in {0, num_dups_}
  <2>1. DupPulls(num_dups_, net.dup) /\ Halfway(n, b) = << >> /\ sink \o << >> = sink
        BY <1>2, <1>5, <1>7, <1>9 DEF DupPulls, Halfway
  <2>2. \A k \in Keys : c[k] = 0
        BY <1>5, <1>7, <1>9 DEF Counted
  <2>3. PICK up : up = QueuePull(q)
        OBVIOUS
  <2>4. PICK x : x = MapPull(key_, FilterPull(Odd, up.out))
        OBVIOUS
  <2>5. PICK dedup : dedup = IF x = None THEN Result(c, << >>) ELSE DedupPush(num_dups_, c, x)
        OBVIOUS
  <2>6. /\ net' = [net EXCEPT !.queue = up.state, !.dup = [num_dups_sent_ |-> 1, buf_ |-> x],
                              !.dedup = dedup.state]
        /\ sink' = sink \o dedup.out
        BY <1>2, <2>1, <2>3, <2>4, <2>5 DEF PullDedup, DupPull, Result
  <2>7. net' = [queue |-> up.state, register |-> g, dup |-> [num_dups_sent_ |-> 1, buf_ |-> x],
                dedup |-> dedup.state]
        BY <1>2, <2>6
  <2>8. 1 \in 0..num_dups_ /\ Counted(c, 1, None) /\ Halfway(1, None) = << >>
        BY <1>7, <2>2 DEF Counted, Halfway
  <2>9. CASE q = << >>
    <3>1. up.state = q /\ x = None
          BY <2>3, <2>4, <2>9 DEF QueuePull, Result, FilterPull, MapPull
    <3>2. dedup.state = c /\ dedup.out = << >>
          BY <2>5, <3>1 DEF Result
    <3>3. /\ net' = [queue |-> q, register |-> g, dup |-> [num_dups_sent_ |-> 1, buf_ |-> None], dedup |-> c]
          /\ sink' = sink /\ Keys_(Only(taken, Odd)) = sink \o Halfway(1, None)
          BY <1>6, <2>1, <2>6, <2>7, <2>8, <3>1, <3>2
    <3>4. QED  BY <1>5, <1>6, <1>8, <2>8, <3>3
  <2>10. CASE q # << >>
    <3>1. PICK y \in Elements, rest \in Seq(Elements) : y = Head(q) /\ rest = Tail(q)
          BY <2>10, HeadTailProperties
    <3>2. up.state = rest /\ up.out = y
          BY <2>3, <2>10, <3>1 DEF QueuePull, Result
    <3>3. PICK t \in Seq(Elements) : t = Append(taken, y)
          BY AppendProperties
    <3>4. s = t \o rest
      <4>1. Append(taken, y) \o rest = taken \o q
            BY <2>10, <3>1
      <4>2. QED  BY <1>6, <3>3, <4>1
    <3>5. PICK o \in Seq(Elements) : o = Only(taken, Odd)
          BY OnlyType
    <3>6. Keys_(o) = sink
          BY <1>6, <2>1, <3>5
    <3>7. CASE y \in Odd
      <4>1. PICK k \in Keys : k = y.key
            BY ElementKey
      <4>2. x = k /\ x # None
            BY <2>4, <3>2, <3>7, <4>1, ElementKey DEF FilterPull, MapPull
      <4>3. 0 \in 0..(num_dups_ - 1) /\ \A j \in Keys : c[j] = IF j = k THEN 0 ELSE 0
            BY <1>7, <2>2
      <4>4. dedup = DedupPush(num_dups_, c, k)
            BY <2>5, <4>2
      <4>5. PICK e \in [Keys -> Nat], out \in Seq(Keys), half \in Seq(Keys) :
              e = dedup.state /\ out = dedup.out /\ half = Halfway(1, k)
              /\ Counted(e, 1, k) /\ out \o half = <<k>>
        <5>1. 0 + 1 = 1
              OBVIOUS
        <5>2. QED  BY <4>3, <4>4, <5>1, DedupOne
      <4>6. PICK all \in Seq(Keys) : all = sink \o out
            BY <1>5, ConcatProperties
      <4>7. all \o half = Append(sink, k)
        <5>1. (sink \o out) \o half = sink \o (out \o half)
              BY <1>5, KeysAssociative
        <5>2. QED  BY <1>5, <4>5, <4>6, <5>1, AppendIsConcat
      <4>8. Keys_(Only(t, Odd)) = Append(sink, k)
            BY <3>3, <3>5, <3>6, <3>7, <4>1, OnlyAppend, KeysAppend
      <4>9. QED  BY <1>8, <2>6, <2>7, <2>8, <3>2, <3>4, <4>2, <4>5, <4>6, <4>7, <4>8
    <3>8. CASE y \notin Odd
      <4>1. x = None
            BY <2>4, <3>2, <3>8 DEF FilterPull, MapPull
      <4>2. dedup.state = c /\ dedup.out = << >>
            BY <2>5, <4>1 DEF Result
      <4>3. Only(t, Odd) = o
            BY <3>3, <3>5, <3>8, OnlyAppend
      <4>4. /\ net' = [queue |-> rest, register |-> g, dup |-> [num_dups_sent_ |-> 1, buf_ |-> None],
                        dedup |-> c]
            /\ sink' = sink /\ Keys_(Only(t, Odd)) = sink \o Halfway(1, None)
            BY <2>1, <2>6, <2>7, <2>8, <3>2, <3>6, <4>1, <4>2, <4>3
      <4>5. QED  BY <1>5, <1>8, <2>8, <3>4, <4>4
    <3>9. QED  BY <3>7, <3>8
  <2>11. QED  BY <2>9, <2>10
<1>10. CASE n \notin {0, num_dups_}
  <2>1. ~DupPulls(num_dups_, net.dup) /\ n \in 1..(num_dups_ - 1)
        BY <1>2, <1>7, <1>10 DEF DupPulls
  <2>2. PICK dedup : dedup = IF b = None THEN Result(c, << >>) ELSE DedupPush(num_dups_, c, b)
        OBVIOUS
  <2>3. DupPull(num_dups_, net.dup, MapPull(key_, FilterPull(Odd, None)))
          = [state |-> [num_dups_sent_ |-> n + 1, buf_ |-> b], out |-> b]
        BY <1>2, <2>1 DEF DupPull, Result
  <2>4. /\ net' = [net EXCEPT !.queue = q, !.dup = [num_dups_sent_ |-> n + 1, buf_ |-> b],
                              !.dedup = dedup.state]
        /\ sink' = sink \o dedup.out
    <3>1. PICK up, dup : /\ up = Result(q, None)
                         /\ dup = DupPull(num_dups_, net.dup, MapPull(key_, FilterPull(Odd, up.out)))
          OBVIOUS
    <3>2. up.out = None /\ up.state = q
          BY <3>1 DEF Result
    <3>3. dup.out = b /\ dup.state = [num_dups_sent_ |-> n + 1, buf_ |-> b]
          BY <2>3, <3>1, <3>2
    <3>4. net.queue = q /\ net.dedup = c
          BY <1>2
    <3>5. /\ net' = [net EXCEPT !.queue = up.state, !.dup = dup.state, !.dedup = dedup.state]
          /\ sink' = sink \o dedup.out
          BY <2>1, <2>2, <3>1, <3>3, <3>4, Zenon DEF PullDedup
    <3>6. QED  BY <3>2, <3>3, <3>5
  <2>5. net' = [queue |-> q, register |-> g, dup |-> [num_dups_sent_ |-> n + 1, buf_ |-> b],
                dedup |-> dedup.state]
        BY <1>2, <2>4
  <2>6. n + 1 \in 0..num_dups_
        BY <2>1, <1>7
  <2>7. CASE b = None
    <3>1. dedup.state = c /\ dedup.out = << >> /\ sink \o << >> = sink
          BY <1>5, <2>2, <2>7 DEF Result
    <3>2. Counted(c, n + 1, b) /\ Halfway(n + 1, b) = Halfway(n, b)
          BY <1>5, <1>7, <2>7 DEF Counted, Halfway
    <3>3. QED  BY <1>5, <1>6, <1>8, <2>4, <2>5, <2>6, <3>1, <3>2
  <2>8. CASE b # None
    <3>1. PICK k \in Keys : k = b
          BY <2>8
    <3>2. n \in 0..(num_dups_ - 1) /\ \A j \in Keys : c[j] = IF j = k THEN n ELSE 0
      <4>1. n \in 0..(num_dups_ - 1) /\ n < num_dups_
            BY <1>7, <2>1
      <4>2. \A j \in Keys : c[j] = IF b = j /\ n < num_dups_ THEN n ELSE 0
            BY <1>5 DEF Counted
      <4>3. QED  BY <3>1, <4>1, <4>2
    <3>3. dedup = DedupPush(num_dups_, c, k)
          BY <2>2, <2>8, <3>1
    <3>4. PICK e \in [Keys -> Nat], out \in Seq(Keys), half \in Seq(Keys) :
            e = dedup.state /\ out = dedup.out /\ half = Halfway(n + 1, k)
            /\ Counted(e, n + 1, k) /\ out \o half = <<k>>
          BY <3>2, <3>3, DedupOne
    <3>5. PICK all \in Seq(Keys) : all = sink \o out
          BY <1>5, ConcatProperties
    <3>6. all \o half = sink \o <<k>>
      <4>1. (sink \o out) \o half = sink \o (out \o half)
            BY <1>5, KeysAssociative
      <4>2. out \o half = <<k>>
            BY <3>4
      <4>3. QED  BY <3>5, <4>1, <4>2, Zenon
    <3>7. Halfway(n, b) = <<k>>
          BY <2>1, <2>8, <3>1 DEF Halfway
    <3>8. /\ net' = [queue |-> q, register |-> g, dup |-> [num_dups_sent_ |-> n + 1, buf_ |-> k], dedup |-> e]
          /\ sink' = all /\ Counted(e, n + 1, k)
          BY <2>4, <2>5, <3>1, <3>4, <3>5
    <3>9. Keys_(Only(taken, Odd)) = all \o Halfway(n + 1, k)
          BY <1>6, <3>4, <3>6, <3>7
    <3>10. QED  BY <1>6, <1>8, <2>6, <3>8, <3>9
  <2>9. QED  BY <2>7, <2>8
<1>11. QED  BY <1>9, <1>10

LEMMA OnlyOfBoth ==
  \A T : \A s, t \in Seq(Elements) : Only(s \o t, T) = Only(s, T) \o Only(t, T)
<1>1. TAKE T
<1>2. TAKE s, t \in Seq(Elements)
<1>3. PICK E : E = Elements
      OBVIOUS
<1>4. s \in Seq(E) /\ t \in Seq(E)
      BY <1>3
<1>5. QED  BY <1>4, OnlyConcat

LEMMA DedupUndone ==
  ASSUME input \in Seq(Fed), DedupInv, kind = "dedup"
  PROVE  IsPrefix(sink, Keys_(Surviving(Accepted \cap Odd)))
<1>1. PICK in \in Seq(Elements) : in = Inputs("in")
      BY InputsType DEF Sides
<1>2. PICK s \in Seq(Elements) : s = Only(in, Accepted)
      BY OnlyType
<1>3. PICK q \in Seq(Elements), half \in Seq(Keys) :
        q = net.queue /\ half = Halfway(net.dup.num_dups_sent_, net.dup.buf_)
  <2>1. net.queue \in Seq(Elements) /\ Halfway(net.dup.num_dups_sent_, net.dup.buf_) \in Seq(Keys)
        BY DEF DedupInv, DedupNet, Halfway
  <2>2. QED  BY <2>1
<1>4. sink \in Seq(Keys) /\ Arrived(s, q, sink, half)
      BY <1>1, <1>2, <1>3, SurvivingAre DEF DedupInv
<1>5. PICK taken \in Seq(Elements) : s = taken \o q /\ Keys_(Only(taken, Odd)) = sink \o half
      BY <1>4 DEF Arrived
<1>6. PICK a \in Seq(Elements), b \in Seq(Elements) : a = Only(taken, Odd) /\ b = Only(q, Odd)
      BY <1>4, OnlyType
<1>7. Only(in, Accepted \cap Odd) = a \o b
  <2>1. Only(s, Odd) = Only(in, Accepted \cap Odd)
        BY <1>2, OnlyTwice
  <2>2. Only(taken \o q, Odd) = Only(taken, Odd) \o Only(q, Odd)
        BY OnlyOfBoth
  <2>3. QED  BY <1>5, <1>6, <2>1, <2>2
<1>8. PICK u \in Seq(Keys) : u = Keys_(b)
      BY KeysFacts
<1>9. Keys_(a \o b) = (sink \o half) \o u
      BY <1>5, <1>6, <1>8, KeysConcat
<1>10. PICK w \in Seq(Keys) : w = half \o u
      BY <1>4, ConcatProperties
<1>11. Keys_(a \o b) = sink \o w
      BY <1>4, <1>9, <1>10, KeysAssociative
<1>12. IsPrefix(sink, sink \o w)
      BY <1>4, PrefixOfConcat
<1>13. QED  BY <1>1, <1>7, <1>11, <1>12, SurvivingAre

DupNet == [queue : Seq(Keys), dedup : [Keys \cup {None} -> Nat]]

Dups(s) == FlattenSeq([n \in DOMAIN s |-> DupPush(num_dups_, s[n])])
Copies(n, k) == [i \in 1..n |-> k]

(* What is left of the stream, of whose first element Dedup<Pull> has counted *)
(* r copies, is what is in the queue.                                         *)
Queued(queue, counts, rest, r) ==
  /\ rest = << >> => r = 0 /\ queue = << >>
  /\ rest # << >> => queue = Copies(num_dups_ - r, Head(rest)) \o Dups(Tail(rest))
  /\ \A k \in Keys : counts[k] = IF rest # << >> /\ k = Head(rest) THEN r ELSE 0

DupInv ==
  kind = "dup" =>
    /\ net \in DupNet /\ got \in Seq(Keys)
    /\ \E rest \in Seq(Keys), r \in 0..(num_dups_ - 1) :
         /\ Keys_(Surviving(Accepted)) = got \o rest
         /\ Queued(net.queue, net.dedup, rest, r)

LEMMA CopiesFacts ==
  ASSUME NEW k \in Keys, NEW n \in Nat
  PROVE  /\ Copies(n, k) \in Seq(Keys) /\ Len(Copies(n, k)) = n /\ Copies(0, k) = << >>
         /\ DupPush(num_dups_, k) = Copies(num_dups_, k)
         /\ \A i \in 1..n : Copies(n, k)[i] = k
  BY DEF Copies, DupPush

LEMMA CopiesHead ==
  ASSUME NEW k \in Keys, NEW n \in Nat, n # 0, NEW t \in Seq(Keys)
  PROVE  /\ Copies(n, k) \o t # << >> /\ Head(Copies(n, k) \o t) = k
         /\ Tail(Copies(n, k) \o t) = Copies(n - 1, k) \o t
<1>1. PICK c \in Seq(Keys), d \in Seq(Keys) : c = Copies(n, k) /\ d = Copies(n - 1, k)
      BY CopiesFacts
<1>2. /\ Len(c) = n /\ Len(d) = n - 1 /\ (\A i \in 1..n : c[i] = k) /\ (\A i \in 1..(n - 1) : d[i] = k)
  <2>1. n - 1 \in Nat
        OBVIOUS
  <2>2. Len(c) = n /\ \A i \in 1..n : c[i] = k
        BY <1>1, CopiesFacts
  <2>3. Len(d) = n - 1 /\ \A i \in 1..(n - 1) : d[i] = k
        BY <1>1, <2>1, CopiesFacts
  <2>4. QED  BY <2>2, <2>3
<1>3. PICK u \in Seq(Keys), v \in Seq(Keys) : u = c \o t /\ v = d \o t
      BY ConcatProperties
<1>4. /\ Len(u) = n + Len(t) /\ \A i \in 1..Len(u) : u[i] = IF i <= n THEN k ELSE t[i - n]
      BY <1>2, <1>3
<1>5. /\ Len(v) = (n - 1) + Len(t) /\ \A i \in 1..Len(v) : v[i] = IF i <= n - 1 THEN k ELSE t[i - (n - 1)]
      BY <1>2, <1>3
<1>6. u # << >> /\ Head(u) = k
      BY <1>4
<1>7. PICK w \in Seq(Keys) : w = Tail(u)
      BY <1>6, HeadTailProperties
<1>8. Len(w) = Len(u) - 1 /\ \A i \in 1..Len(w) : w[i] = u[i + 1]
      BY <1>6, <1>7, HeadTailProperties
<1>9. \A i \in 1..Len(w) : w[i] = v[i]
  <2>1. TAKE i \in 1..Len(w)
  <2>2. i + 1 \in 1..Len(u) /\ i \in 1..Len(v) /\ (i + 1) - n = i - (n - 1) /\ (i + 1 <= n <=> i <= n - 1)
        BY <1>4, <1>5, <1>8
  <2>3. QED  BY <1>4, <1>5, <1>8, <2>2
<1>10. Len(w) = Len(v)
      BY <1>4, <1>5, <1>8
<1>11. w = v
      BY <1>9, <1>10, SeqEqual
<1>12. QED  BY <1>1, <1>3, <1>6, <1>7, <1>11

LEMMA FlattenOne ==
  ASSUME NEW S, NEW s \in Seq(S)
  PROVE  FlattenSeq(<<s>>) = s
<1>1. << >> \in Seq(Seq(S)) /\ Append(<< >>, s) = <<s>> /\ << >> \o s = s
      OBVIOUS
<1>2. FlattenSeq(Append(<< >>, s)) = FlattenSeq(<< >>) \o s
      BY <1>1, FlattenAppend
<1>3. QED  BY <1>1, <1>2, FlattenEmpty

LEMMA DupsAs ==
  ASSUME NEW s \in Seq(Keys)
  PROVE  /\ [n \in DOMAIN s |-> DupPush(num_dups_, s[n])] \in Seq(Seq(Keys))
         /\ Len([n \in DOMAIN s |-> DupPush(num_dups_, s[n])]) = Len(s)
         /\ \A n \in 1..Len(s) : [m \in DOMAIN s |-> DupPush(num_dups_, s[m])][n] = DupPush(num_dups_, s[n])
         /\ Dups(s) \in Seq(Keys)
<1>1. DOMAIN s = 1..Len(s) /\ Len(s) \in Nat
      BY LenProperties
<1>2. \A k \in Keys : DupPush(num_dups_, k) \in Seq(Keys)
      BY CopiesFacts, NumDupsAssumption
<1>3. \A n \in 1..Len(s) : DupPush(num_dups_, s[n]) \in Seq(Keys)
      BY <1>2, ElementOfSeq
<1>4. PICK w : w = [n \in 1..Len(s) |-> DupPush(num_dups_, s[n])]
      OBVIOUS
<1>5. /\ w \in Seq(Seq(Keys)) /\ Len(w) = Len(s) /\ \A n \in 1..Len(s) : w[n] = DupPush(num_dups_, s[n])
      BY <1>1, <1>3, <1>4
<1>6. w = [n \in DOMAIN s |-> DupPush(num_dups_, s[n])]
      BY <1>1, <1>4
<1>7. Dups(s) \in Seq(Keys)
      BY <1>5, <1>6, FlattenType DEF Dups
<1>8. QED  BY <1>5, <1>6, <1>7

LEMMA DupsConcat ==
  ASSUME NEW s \in Seq(Keys), NEW t \in Seq(Keys)
  PROVE  Dups(s \o t) = Dups(s) \o Dups(t)
<1>1. PICK u \in Seq(Keys) : u = s \o t
      BY ConcatProperties
<1>2. Len(u) = Len(s) + Len(t) /\ \A i \in 1..Len(u) : u[i] = IF i <= Len(s) THEN s[i] ELSE t[i - Len(s)]
      BY <1>1, ConcatProperties
<1>3. PICK a \in Seq(Seq(Keys)), b \in Seq(Seq(Keys)), c \in Seq(Seq(Keys)) :
        /\ a = [n \in DOMAIN s |-> DupPush(num_dups_, s[n])]
        /\ b = [n \in DOMAIN t |-> DupPush(num_dups_, t[n])]
        /\ c = [n \in DOMAIN u |-> DupPush(num_dups_, u[n])]
      BY DupsAs
<1>4. Len(a) = Len(s) /\ \A i \in 1..Len(s) : a[i] = DupPush(num_dups_, s[i])
      BY <1>3, DupsAs
<1>5. Len(b) = Len(t) /\ \A i \in 1..Len(t) : b[i] = DupPush(num_dups_, t[i])
      BY <1>3, DupsAs
<1>6. Len(c) = Len(u) /\ \A i \in 1..Len(u) : c[i] = DupPush(num_dups_, u[i])
      BY <1>3, DupsAs
<1>7. PICK d : d = a \o b
      OBVIOUS
<1>8. /\ d \in Seq(Seq(Keys)) /\ Len(d) = Len(a) + Len(b)
      /\ \A i \in 1..(Len(a) + Len(b)) : d[i] = IF i <= Len(a) THEN a[i] ELSE b[i - Len(a)]
      BY <1>7, ConcatProperties
<1>9. \A i \in 1..Len(u) : c[i] = d[i]
  <2>1. TAKE i \in 1..Len(u)
  <2>2. CASE i <= Len(s)
    <3>1. i \in 1..Len(s) /\ i \in 1..(Len(a) + Len(b)) /\ i <= Len(a)
          BY <1>2, <1>4, <1>5, <2>2
    <3>2. d[i] = a[i]
          BY <1>8, <3>1
    <3>3. QED  BY <1>2, <1>4, <1>6, <2>2, <3>1, <3>2
  <2>3. CASE ~(i <= Len(s))
    <3>1. i - Len(s) \in 1..Len(t) /\ i \in 1..(Len(a) + Len(b)) /\ ~(i <= Len(a))
          BY <1>2, <1>4, <1>5, <2>3
    <3>2. d[i] = b[i - Len(s)]
          BY <1>4, <1>8, <3>1
    <3>3. b[i - Len(s)] = DupPush(num_dups_, t[i - Len(s)])
          BY <1>5, <3>1
    <3>4. u[i] = t[i - Len(s)]
          BY <1>2, <2>3
    <3>5. QED  BY <1>6, <3>2, <3>3, <3>4
  <2>4. QED  BY <2>2, <2>3
<1>10. c = d
  <2>1. Len(c) = Len(d)
        BY <1>2, <1>4, <1>5, <1>6, <1>8
  <2>2. QED  BY <1>6, <1>8, <1>9, <2>1, SeqEqual
<1>11. FlattenSeq(a \o b) = FlattenSeq(a) \o FlattenSeq(b)
      BY FlattenConcat
<1>12. QED  BY <1>1, <1>3, <1>7, <1>10, <1>11 DEF Dups

LEMMA DupsOne ==
  ASSUME NEW k \in Keys
  PROVE  Dups(<<k>>) = DupPush(num_dups_, k) /\ Dups(<< >>) = << >>
<1>2. DupPush(num_dups_, k) \in Seq(Keys)
      BY CopiesFacts, NumDupsAssumption
<1>1. [n \in DOMAIN <<k>> |-> DupPush(num_dups_, <<k>>[n])] = <<DupPush(num_dups_, k)>>
  <2>a. <<k>> \in Seq(Keys)
        OBVIOUS
  <2>1. PICK s \in Seq(Keys) : s = <<k>>
        BY <2>a
  <2>2. Len(s) = 1 /\ s[1] = k /\ 1 \in 1..Len(s)
        BY <2>1
  <2>3. PICK w : w = [n \in DOMAIN s |-> DupPush(num_dups_, s[n])]
        OBVIOUS
  <2>4. w \in Seq(Seq(Keys)) /\ Len(w) = 1 /\ w[1] = DupPush(num_dups_, k)
        BY <2>2, <2>3, DupsAs
  <2>5. w = <<DupPush(num_dups_, k)>>
        BY <1>2, <2>4
  <2>6. QED  BY <2>1, <2>3, <2>5
<1>3. [n \in DOMAIN << >> |-> DupPush(num_dups_, << >>[n])] = << >>
      OBVIOUS
<1>4. QED  BY <1>1, <1>2, <1>3, FlattenOne, FlattenEmpty DEF Dups

LEMMA DupsHead ==
  ASSUME NEW s \in Seq(Keys), s # << >>
  PROVE  Dups(s) = Copies(num_dups_, Head(s)) \o Dups(Tail(s))
<1>1. PICK k \in Keys, t \in Seq(Keys) : k = Head(s) /\ t = Tail(s)
      BY HeadTailProperties
<1>2. s = <<k>> \o t /\ <<k>> \in Seq(Keys)
      BY <1>1
<1>3. Dups(<<k>> \o t) = Dups(<<k>>) \o Dups(t)
      BY <1>2, DupsConcat
<1>4. Dups(<<k>>) = Copies(num_dups_, k)
      BY DupsOne, CopiesFacts, NumDupsAssumption
<1>5. QED  BY <1>1, <1>2, <1>3, <1>4

LEMMA DupNetParts ==
  ASSUME NEW r
  PROVE  r \in DupNet <=>
           \E q \in Seq(Keys), c \in [Keys \cup {None} -> Nat] : r = [queue |-> q, dedup |-> c]
<1>1. PICK K : K = Keys \cup {None}
      OBVIOUS
<1>2. DupNet = [queue : Seq(Keys), dedup : [K -> Nat]]
      BY <1>1 DEF DupNet
<1>3. r \in [queue : Seq(Keys), dedup : [K -> Nat]] <=>
        \E q \in Seq(Keys), c \in [K -> Nat] : r = [queue |-> q, dedup |-> c]
      OBVIOUS
<1>4. QED  BY <1>1, <1>2, <1>3

(* What comes out of Filter, Map and Dup for one element.                     *)
LEMMA DupsPushed ==
  ASSUME NEW x \in Elements
  PROVE  LET mapped == FlattenSeq([n \in DOMAIN FilterPush(Accepted, x) |-> MapPush(key_, x)])
         IN FlattenSeq([n \in DOMAIN mapped |-> DupPush(num_dups_, mapped[n])])
              = IF x \in Accepted THEN Dups(<<x.key>>) ELSE << >>
<1>1. PICK k \in Keys : k = x.key /\ key_[x] = k
      BY ElementKey
<1>2. <<k>> \in Seq(Keys) /\ DOMAIN <<x>> = {1} /\ DOMAIN << >> = {}
      OBVIOUS
<1>3. CASE x \in Accepted
  <2>1. DOMAIN FilterPush(Accepted, x) = {1}
        BY <1>2, <1>3 DEF FilterPush
  <2>2. MapPush(key_, x) = <<k>>
        BY <1>1 DEF MapPush
  <2>3. [n \in DOMAIN FilterPush(Accepted, x) |-> MapPush(key_, x)] = << <<k>> >>
    <3>1. [n \in {1} |-> <<k>>] = << <<k>> >>
          OBVIOUS
    <3>2. QED  BY <2>1, <2>2, <3>1
  <2>4. FlattenSeq(<< <<k>> >>) = <<k>>
        BY <1>2, FlattenOne
  <2>5. QED  BY <1>1, <1>3, <2>3, <2>4 DEF Dups
<1>4. CASE x \notin Accepted
  <2>1. DOMAIN FilterPush(Accepted, x) = {}
        BY <1>2, <1>4 DEF FilterPush
  <2>2. [n \in {} |-> MapPush(key_, x)] = << >>
        OBVIOUS
  <2>3. [n \in DOMAIN << >> |-> DupPush(num_dups_, << >>[n])] = << >>
        OBVIOUS
  <2>4. QED  BY <1>4, <2>1, <2>2, <2>3, FlattenEmpty
<1>5. QED  BY <1>3, <1>4

(* One more element at the end of the stream.                                 *)
LEMMA QueuedMore ==
  ASSUME NEW queue \in Seq(Keys), NEW counts \in [Keys \cup {None} -> Nat], NEW rest \in Seq(Keys),
         NEW r \in 0..(num_dups_ - 1), NEW k \in Keys, Queued(queue, counts, rest, r)
  PROVE  Queued(queue \o Dups(<<k>>), counts, Append(rest, k), r)
<1>1. num_dups_ \in Nat /\ r \in Nat /\ num_dups_ - r \in Nat
      BY NumDupsAssumption
<1>2. PICK d \in Seq(Keys) : d = Dups(<<k>>)
  <2>1. <<k>> \in Seq(Keys)
        OBVIOUS
  <2>2. QED  BY <2>1, DupsAs
<1>3. PICK more \in Seq(Keys) : more = Append(rest, k)
      BY AppendProperties
<1>4. more # << >>
  <2>1. Len(more) = Len(rest) + 1
        BY <1>3, AppendProperties
  <2>2. QED  BY <2>1
<1>5. CASE rest = << >>
  <2>1. r = 0 /\ queue = << >> /\ Head(more) = k /\ Tail(more) = << >>
        BY <1>3, <1>5 DEF Queued
  <2>2. d = Copies(num_dups_, k) /\ Dups(<< >>) = << >> /\ num_dups_ - 0 = num_dups_
        BY <1>1, <1>2, DupsOne, CopiesFacts
  <2>3. queue \o d = d /\ d \o << >> = d
        BY <2>1, ConcatEmptySeq
  <2>4. queue \o d = Copies(num_dups_ - r, Head(more)) \o Dups(Tail(more))
        BY <2>1, <2>2, <2>3
  <2>5. \A j \in Keys : counts[j] = IF more # << >> /\ j = Head(more) THEN r ELSE 0
        BY <1>5, <2>1 DEF Queued
  <2>6. QED  BY <1>2, <1>3, <1>4, <2>4, <2>5 DEF Queued
<1>6. CASE rest # << >>
  <2>1. PICK t \in Seq(Keys), j \in Keys : t = Tail(rest) /\ j = Head(rest)
        BY <1>6, HeadTailProperties
  <2>2. Head(more) = j /\ Tail(more) = Append(t, k) /\ Append(t, k) = t \o <<k>>
        BY <1>3, <1>6, <2>1, HeadStays, AppendAsConcat
  <2>3. PICK c \in Seq(Keys), e \in Seq(Keys) : c = Copies(num_dups_ - r, j) /\ e = Dups(t)
        BY <1>1, CopiesFacts, DupsAs
  <2>4. queue = c \o e
        BY <1>6, <2>1, <2>3 DEF Queued
  <2>5. Dups(Tail(more)) = e \o d
    <3>1. <<k>> \in Seq(Keys)
          OBVIOUS
    <3>2. PICK o \in Seq(Keys) : o = <<k>>
          BY <3>1
    <3>3. Dups(t \o o) = Dups(t) \o Dups(o)
          BY DupsConcat
    <3>4. QED  BY <1>2, <2>2, <2>3, <3>2, <3>3
  <2>6. queue \o d = c \o (e \o d)
    <3>1. (c \o e) \o d = c \o (e \o d)
          BY KeysAssociative
    <3>2. QED  BY <2>4, <3>1
  <2>7. queue \o d = Copies(num_dups_ - r, Head(more)) \o Dups(Tail(more))
        BY <2>2, <2>3, <2>5, <2>6
  <2>8. \A i \in Keys : counts[i] = IF more # << >> /\ i = Head(more) THEN r ELSE 0
        BY <1>4, <1>6, <2>1, <2>2 DEF Queued
  <2>9. QED  BY <1>2, <1>3, <1>4, <2>7, <2>8 DEF Queued
<1>7. QED  BY <1>5, <1>6

LEMMA DupPushed ==
  ASSUME input \in Seq(Fed), DupInv, PushDup
  PROVE  DupInv'
<1>1. PICK i \in Feed("in") :
        LET mapped == FlattenSeq([n \in DOMAIN FilterPush(Accepted, i.x) |-> MapPush(key_, i.x)])
            dups == FlattenSeq([n \in DOMAIN mapped |-> DupPush(num_dups_, mapped[n])])
        IN /\ net' = [net EXCEPT !.queue = @ \o dups]
           /\ Pushed(i)
      BY DEF PushDup
<1>2. PICK x : x = i.x
      OBVIOUS
<1>3. x \in Elements /\ Inputs("in")' = Append(Inputs("in"), x) /\ Pushed(i)
      BY <1>1, <1>2, InputsPushed DEF Sides
<1>4. kind = "dup" /\ kind' = "dup" /\ got' = got
      BY <1>1 DEF PushDup, Pushed
<1>5. PICK q \in Seq(Keys), c \in [Keys \cup {None} -> Nat] : net = [queue |-> q, dedup |-> c]
      BY <1>4, DupNetParts DEF DupInv
<1>6. PICK in \in Seq(Elements) : in = Inputs("in")
      BY InputsType DEF Sides
<1>7. PICK s \in Seq(Elements) : s = Only(in, Accepted)
      BY OnlyType
<1>8. PICK rest \in Seq(Keys), r \in 0..(num_dups_ - 1) : Keys_(s) = got \o rest /\ Queued(q, c, rest, r)
      BY <1>4, <1>5, <1>6, <1>7, SurvivingAre DEF DupInv
<1>9. got \in Seq(Keys)
      BY <1>4 DEF DupInv
<1>10. Surviving(Accepted)' = IF x \in Accepted THEN Append(s, x) ELSE s
  <2>1. Only(Append(in, x), Accepted) = IF x \in Accepted THEN Append(s, x) ELSE s
        BY <1>3, <1>7, OnlyAppend
  <2>2. Surviving(Accepted)' = Only(Append(in, x), Accepted)
        BY <1>3, <1>6, SurvivingAre
  <2>3. QED  BY <2>1, <2>2
<1>11. PICK dups : dups = IF x \in Accepted THEN Dups(<<x.key>>) ELSE << >>
      OBVIOUS
<1>12. net' = [net EXCEPT !.queue = @ \o dups]
      BY <1>1, <1>2, <1>3, <1>11, DupsPushed
<1>13. net' = [queue |-> q \o dups, dedup |-> c]
      BY <1>5, <1>12
<1>14. CASE x \in Accepted
  <2>1. PICK k \in Keys : k = x.key
        BY <1>3, ElementKey
  <2>2. PICK p \in Seq(Keys) : p = q \o Dups(<<k>>)
    <3>1. <<k>> \in Seq(Keys)
          OBVIOUS
    <3>2. Dups(<<k>>) \in Seq(Keys)
          BY <3>1, DupsAs
    <3>3. QED  BY <3>2, ConcatProperties
  <2>3. PICK more \in Seq(Keys) : more = Append(rest, k)
        BY AppendProperties
  <2>4. Queued(p, c, more, r)
        BY <1>8, <2>2, <2>3, QueuedMore
  <2>5. Keys_(Append(s, x)) = got \o more
    <3>1. Keys_(Append(s, x)) = Append(Keys_(s), k)
          BY <1>3, <2>1, KeysAppend
    <3>2. PICK g \in Seq(Keys) : g = got
          BY <1>9
    <3>3. g \o Append(rest, k) = Append(g \o rest, k)
          BY KeysAppended
    <3>4. QED  BY <1>8, <2>3, <3>1, <3>2, <3>3
  <2>6. net' = [queue |-> p, dedup |-> c]
        BY <1>11, <1>13, <1>14, <2>1, <2>2
  <2>7. net' \in DupNet
        BY <2>6, DupNetParts
  <2>8. QED  BY <1>4, <1>9, <1>10, <1>14, <2>4, <2>5, <2>6, <2>7 DEF DupInv
<1>15. CASE x \notin Accepted
  <2>1. net' = [queue |-> q, dedup |-> c]
        BY <1>11, <1>13, <1>15, ConcatEmptySeq
  <2>2. net' \in DupNet
        BY <2>1, DupNetParts
  <2>3. QED  BY <1>4, <1>8, <1>9, <1>10, <1>15, <2>1, <2>2 DEF DupInv
<1>16. QED  BY <1>14, <1>15

LEMMA DupPulled ==
  ASSUME input \in Seq(Fed), DupInv, PullDup
  PROVE  DupInv'
<1>1. kind = "dup" /\ kind' = "dup" /\ input' = input
      BY DEF PullDup, Pulled
<1>2. PICK q \in Seq(Keys), c \in [Keys \cup {None} -> Nat] : net = [queue |-> q, dedup |-> c]
      BY <1>1, DupNetParts DEF DupInv
<1>3. PICK stream : stream = Keys_(Surviving(Accepted))
      OBVIOUS
<1>4. Keys_(Surviving(Accepted))' = stream
  <2>1. Surviving(Accepted)' = Surviving(Accepted)
        BY <1>1, InputsStay, SurvivingAre
  <2>2. Keys_(Surviving(Accepted))' = Keys_(Surviving(Accepted)')
        BY DEF Keys_
  <2>3. QED  BY <1>3, <2>1, <2>2
<1>5. PICK rest \in Seq(Keys), r \in 0..(num_dups_ - 1) : stream = got \o rest /\ Queued(q, c, rest, r)
      BY <1>1, <1>2, <1>3 DEF DupInv
<1>6. got \in Seq(Keys)
      BY <1>1 DEF DupInv
<1>7. num_dups_ \in Nat /\ num_dups_ # 0 /\ r \in Nat /\ None \notin Keys /\ num_dups_ - r \in Nat
      BY NumDupsAssumption, NoneAssumption
<1>8. PICK up, x, out : /\ up = QueuePull(q) /\ x = up.out /\ out = DedupPull(num_dups_, c, x)
      OBVIOUS
<1>9. /\ net' = [net EXCEPT !.queue = up.state, !.dedup = out.state]
      /\ got' = IF out.out = None THEN got ELSE Append(got, out.out)
  <2>1. net.queue = q /\ net.dedup = c
        BY <1>2
  <2>2. QED  BY <1>8, <2>1, Zenon DEF PullDup, Pulled
<1>10. net' = [queue |-> up.state, dedup |-> out.state]
      BY <1>2, <1>9
<1>11. CASE rest = << >>
  <2>1. q = << >>
        BY <1>5, <1>11 DEF Queued
  <2>2. up.state = q /\ x = None
        BY <1>8, <2>1 DEF QueuePull, Result
  <2>3. PICK e \in [Keys \cup {None} -> Nat] : e = out.state /\ \A k \in Keys : e[k] = c[k]
    <3>1. PICK n \in Nat : n = c[None] + 1
          OBVIOUS
    <3>2. out.state = [c EXCEPT ![None] = IF n = num_dups_ THEN 0 ELSE n]
          BY <1>8, <2>2, <3>1 DEF DedupPull, Result
    <3>3. /\ [c EXCEPT ![None] = IF n = num_dups_ THEN 0 ELSE n] \in [Keys \cup {None} -> Nat]
          /\ \A k \in Keys : [c EXCEPT ![None] = IF n = num_dups_ THEN 0 ELSE n][k] = c[k]
          BY <1>7
    <3>4. QED  BY <3>2, <3>3
  <2>4. out.out = None
        BY <1>8, <2>2 DEF DedupPull, Result
  <2>5. net' = [queue |-> q, dedup |-> e] /\ got' = got
        BY <1>9, <1>10, <2>2, <2>3, <2>4
  <2>6. Queued(q, e, rest, r)
        BY <1>5, <2>3 DEF Queued
  <2>7. net' \in DupNet
        BY <2>5, DupNetParts
  <2>8. QED  BY <1>1, <1>4, <1>5, <1>6, <2>5, <2>6, <2>7 DEF DupInv
<1>12. CASE rest # << >>
  <2>1. PICK t \in Seq(Keys), k \in Keys : t = Tail(rest) /\ k = Head(rest)
        BY <1>12, HeadTailProperties
  <2>2. PICK d \in Seq(Keys) : d = Dups(t)
        BY DupsAs
  <2>3. q = Copies(num_dups_ - r, k) \o d /\ c[k] = r /\ \A j \in Keys : j # k => c[j] = 0
        BY <1>5, <1>12, <2>1, <2>2 DEF Queued
  <2>4. PICK m \in Nat : m = num_dups_ - r /\ m # 0
        BY <1>7
  <2>5. q # << >> /\ Head(q) = k /\ Tail(q) = Copies(m - 1, k) \o d
        BY <2>3, <2>4, CopiesHead
  <2>6. PICK p \in Seq(Keys) : p = Tail(q)
        BY <2>5, HeadTailProperties
  <2>7. up.state = p /\ x = k
        BY <1>8, <2>5, <2>6 DEF QueuePull, Result
  <2>8. CASE r + 1 = num_dups_
    <3>1. out.state = [c EXCEPT ![k] = 0] /\ out.out = k
          BY <1>8, <2>3, <2>7, <2>8 DEF DedupPull, Result
    <3>2. PICK e \in [Keys \cup {None} -> Nat] : e = [c EXCEPT ![k] = 0] /\ \A j \in Keys : e[j] = 0
      <4>1. [c EXCEPT ![k] = 0] \in [Keys \cup {None} -> Nat]
            OBVIOUS
      <4>2. \A j \in Keys : [c EXCEPT ![k] = 0][j] = IF j = k THEN 0 ELSE c[j]
            OBVIOUS
      <4>3. QED  BY <2>3, <4>1, <4>2
    <3>3. net' = [queue |-> p, dedup |-> e] /\ got' = Append(got, k)
          BY <1>7, <1>9, <1>10, <2>7, <3>1, <3>2
    <3>4. p = d
      <4>1. m - 1 = 0 /\ Copies(0, k) = << >>
            BY <1>7, <2>4, <2>8, CopiesFacts
      <4>2. QED  BY <2>5, <2>6, <4>1, ConcatEmptySeq
    <3>5. t = << >> => p = << >>
          BY <2>2, <3>4, DupsOne
    <3>6. t # << >> => p = Copies(num_dups_ - 0, Head(t)) \o Dups(Tail(t))
      <4>1. num_dups_ - 0 = num_dups_
            BY <1>7
      <4>2. t # << >> => Dups(t) = Copies(num_dups_, Head(t)) \o Dups(Tail(t))
            BY DupsHead
      <4>3. QED  BY <2>2, <3>4, <4>1, <4>2
    <3>7. Queued(p, e, t, 0)
          BY <3>2, <3>5, <3>6 DEF Queued
    <3>8. stream = Append(got, k) \o t /\ Append(got, k) \in Seq(Keys)
      <4>1. PICK g \in Seq(Keys) : g = got
            BY <1>6
      <4>2. Append(g, k) \o t = g \o rest
            BY <1>12, <2>1, KeysMoved
      <4>3. Append(g, k) \in Seq(Keys)
            BY AppendProperties
      <4>4. QED  BY <1>5, <4>1, <4>2, <4>3
    <3>9. net' \in DupNet /\ 0 \in 0..(num_dups_ - 1)
      <4>1. net' \in DupNet
            BY <3>3, DupNetParts
      <4>2. QED  BY <1>7, <4>1
    <3>10. QED  BY <1>1, <1>4, <3>3, <3>7, <3>8, <3>9 DEF DupInv
  <2>9. CASE r + 1 # num_dups_
    <3>1. out.state = [c EXCEPT ![k] = r + 1] /\ out.out = None
          BY <1>8, <2>3, <2>7, <2>9 DEF DedupPull, Result
    <3>2. PICK z \in 0..(num_dups_ - 1) : z = r + 1 /\ z \in Nat
          BY <1>7, <2>9
    <3>3. PICK e \in [Keys \cup {None} -> Nat] :
            e = [c EXCEPT ![k] = z] /\ \A j \in Keys : e[j] = IF j = k THEN z ELSE 0
      <4>1. [c EXCEPT ![k] = z] \in [Keys \cup {None} -> Nat]
            BY <3>2
      <4>2. \A j \in Keys : [c EXCEPT ![k] = z][j] = IF j = k THEN z ELSE c[j]
            OBVIOUS
      <4>3. QED  BY <2>3, <4>1, <4>2
    <3>4. net' = [queue |-> p, dedup |-> e] /\ got' = got
          BY <1>9, <1>10, <2>7, <3>1, <3>2, <3>3
    <3>5. m - 1 = num_dups_ - z
          BY <1>7, <2>4, <3>2
    <3>6. Queued(p, e, rest, z)
          BY <1>12, <2>1, <2>2, <2>5, <2>6, <3>3, <3>5 DEF Queued
    <3>7. net' \in DupNet
          BY <3>4, DupNetParts
    <3>8. QED  BY <1>1, <1>4, <1>5, <1>6, <3>4, <3>6, <3>7 DEF DupInv
  <2>10. QED  BY <2>8, <2>9
<1>13. QED  BY <1>11, <1>12

LEMMA DupUndone ==
  ASSUME DupInv, kind = "dup"
  PROVE  IsPrefix(got, Keys_(Surviving(Accepted)))
<1>1. PICK rest \in Seq(Keys) : Keys_(Surviving(Accepted)) = got \o rest
      BY DEF DupInv
<1>2. got \in Seq(Keys)
      BY DEF DupInv
<1>3. IsPrefix(got, got \o rest)
      BY <1>2, PrefixOfConcat
<1>4. QED  BY <1>1, <1>3

-----------------------------------------------------------------------------
(* The circuit "branch".                                                   *)

Index == 0..(Branches - 1)
BranchNet == [queues : [Index -> Seq(Elements)], pushIndex : Index, pullIndex : Index]

(* The place in the input of element o of branch b, counted from 0.          *)
Pos(o, b) == Branches * o + b + 1

(* How many elements were dealt to branch b, after q rounds and p elements.  *)
DealtTo(q, p, b) == q + (IF b < p THEN 1 ELSE 0)

Numbered(in, q, p) == Len(in) = Branches * q + p /\ \A n \in 1..Len(in) : in[n].id = n

(* What was dealt to a branch and not pulled, P of it, is in its queue.      *)
InQueues(queues, in, P, q, p) ==
  \A b \in Index :
    /\ P[b] + Len(queues[b]) = DealtTo(q, p, b)
    /\ \A j \in 1..Len(queues[b]) : queues[b][j] = in[Pos(P[b] + j - 1, b)]

(* How far a branch c can be ahead of a branch b, with p the next to pull.   *)
Ahead(c, b, p) ==
  IF c < b THEN (IF c < p /\ p <= b THEN 2 ELSE 1) ELSE (IF b < p /\ p <= c THEN 0 ELSE 1)

Abreast(P, p) == \A b, c \in Index : b # c => P[c] <= P[b] + Ahead(c, b, p)

(* h says for everything that was pulled which element of which branch it is. *)
Dealt == [o : Nat, b : Index]

Overtaking(h, out, P) ==
  /\ Len(h) = Len(out)
  /\ \A m \in 1..Len(h) : out[m].id = Pos(h[m].o, h[m].b) /\ h[m].o < P[h[m].b]
  /\ \A m, n \in 1..Len(h) : m < n =>
       /\ h[m].b = h[n].b => h[m].o < h[n].o
       /\ h[m].b < h[n].b => h[m].o <= h[n].o + 1
       /\ h[m].b > h[n].b => h[m].o <= h[n].o

(* What was pulled, as long as no pull came back empty.                      *)
InStep(out, in, P, p) ==
  \E t \in Nat :
    /\ Len(out) = Branches * t + p /\ Len(out) <= Len(in)
    /\ \A b \in Index : P[b] = DealtTo(t, p, b)
    /\ \A m \in 1..Len(out) : out[m] = in[m]

BranchInv ==
  kind = "branch" =>
    /\ net \in BranchNet /\ got \in Seq(Elements)
    /\ Len(Inputs("in")) = Len(input)
    /\ \E P \in [Index -> Nat], q \in Nat, h \in Seq(Dealt) :
         /\ Numbered(Inputs("in"), q, net.pushIndex)
         /\ InQueues(net.queues, Inputs("in"), P, q, net.pushIndex)
         /\ Abreast(P, net.pullIndex)
         /\ Overtaking(h, got, P)
         /\ ~missed => InStep(got, Inputs("in"), P, net.pullIndex)

LEMMA PosBound ==
  ASSUME NEW o \in Nat, NEW b \in Index, NEW q \in Nat, NEW p \in Index, o < DealtTo(q, p, b)
  PROVE  Pos(o, b) \in 1..(Branches * q + p) /\ Branches * q \in Nat
<1>1. Branches \in Nat /\ Branches # 0 /\ b \in Nat /\ p \in Nat /\ b < Branches
      BY BranchesAssumption DEF Index
<1>2. Branches * o \in Nat /\ Branches * q \in Nat
      BY <1>1
<1>3. CASE o < q
  <2>1. PICK z \in Nat : q = o + 1 + z
    <3>1. q - o - 1 \in Nat /\ q = o + 1 + (q - o - 1)
          BY <1>3
    <3>2. QED  BY <3>1
  <2>2. Branches * q = Branches * o + Branches + Branches * z /\ Branches * z \in Nat
        BY <1>1, <2>1
  <2>3. QED  BY <1>1, <1>2, <2>2 DEF Pos
<1>4. CASE ~(o < q)
  <2>1. o = q /\ b < p
        BY <1>1, <1>4 DEF DealtTo
  <2>2. QED  BY <1>1, <1>2, <2>1 DEF Pos
<1>5. QED  BY <1>3, <1>4

LEMMA PosOrder ==
  ASSUME NEW o \in Nat, NEW b \in Index, NEW r \in Nat, NEW c \in Index, Pos(r, c) > Pos(o, b)
  PROVE  r > o \/ (r = o /\ c > b)
<1>1. Branches \in Nat /\ Branches # 0 /\ b \in Nat /\ c \in Nat /\ b < Branches /\ c < Branches
      BY BranchesAssumption DEF Index
<1>2. Branches * o \in Nat /\ Branches * r \in Nat
      BY <1>1
<1>3. CASE r < o
  <2>1. PICK z \in Nat : o = r + 1 + z
    <3>1. o - r - 1 \in Nat /\ o = r + 1 + (o - r - 1)
          BY <1>3
    <3>2. QED  BY <3>1
  <2>2. Branches * o = Branches * r + Branches + Branches * z /\ Branches * z \in Nat
        BY <1>1, <2>1
  <2>3. QED  BY <1>1, <1>2, <2>2 DEF Pos
<1>4. CASE r = o
      BY <1>1, <1>2, <1>4 DEF Pos
<1>5. QED  BY <1>3, <1>4

LEMMA Advance ==
  ASSUME NEW p \in Index
  PROVE  /\ RoundRobinAdvance(Branches, p) = IF p + 1 = Branches THEN 0 ELSE p + 1
         /\ RoundRobinAdvance(Branches, p) \in Index
<1>1. Branches \in Nat /\ Branches # 0 /\ p \in Nat /\ p < Branches
      BY BranchesAssumption DEF Index
<1>2. CASE p + 1 = Branches
  <2>1. (p + 1) % Branches = 0
        BY <1>1, <1>2
  <2>2. QED  BY <1>1, <1>2, <2>1 DEF RoundRobinAdvance, Index
<1>3. CASE p + 1 # Branches
  <2>1. (p + 1) % Branches = p + 1
        BY <1>1, <1>3
  <2>2. QED  BY <1>1, <1>3, <2>1 DEF RoundRobinAdvance, Index
<1>4. QED  BY <1>2, <1>3

(* Dealing one more, to the branch p.                                        *)
LEMMA DealtOneMore ==
  ASSUME NEW q \in Nat, NEW p \in Index
  PROVE  \E r \in Nat :
           LET s == RoundRobinAdvance(Branches, p)
           IN /\ Branches * r + s = Branches * q + p + 1
              /\ \A b \in Index : DealtTo(r, s, b) = DealtTo(q, p, b) + (IF b = p THEN 1 ELSE 0)
<1>1. Branches \in Nat /\ Branches # 0 /\ p \in Nat /\ p < Branches /\ Branches * q \in Nat
      BY BranchesAssumption DEF Index
<1>2. \A b \in Index : b \in Nat /\ b < Branches
      BY BranchesAssumption DEF Index
<1>3. CASE p + 1 = Branches
  <2>1. Branches * (q + 1) + 0 = Branches * q + p + 1 /\ q + 1 \in Nat
        BY <1>1, <1>3
  <2>2. \A b \in Index : DealtTo(q + 1, 0, b) = DealtTo(q, p, b) + (IF b = p THEN 1 ELSE 0)
        BY <1>1, <1>2, <1>3 DEF DealtTo
  <2>3. RoundRobinAdvance(Branches, p) = 0
        BY <1>3, Advance
  <2>4. QED  BY <2>1, <2>2, <2>3
<1>4. CASE p + 1 # Branches
  <2>1. Branches * q + (p + 1) = Branches * q + p + 1
        BY <1>1
  <2>2. \A b \in Index : DealtTo(q, p + 1, b) = DealtTo(q, p, b) + (IF b = p THEN 1 ELSE 0)
        BY <1>1, <1>2 DEF DealtTo
  <2>3. RoundRobinAdvance(Branches, p) = p + 1
        BY <1>4, Advance
  <2>4. QED  BY <2>1, <2>2, <2>3
<1>5. QED  BY <1>3, <1>4

LEMMA AbreastHit ==
  ASSUME NEW P \in [Index -> Nat], NEW p \in Index, Abreast(P, p),
         NEW R \in [Index -> Nat], \A b \in Index : R[b] = P[b] + (IF b = p THEN 1 ELSE 0)
  PROVE  Abreast(R, RoundRobinAdvance(Branches, p))
<1>1. SUFFICES ASSUME NEW b \in Index, NEW c \in Index, b # c
               PROVE  R[c] <= R[b] + Ahead(c, b, RoundRobinAdvance(Branches, p))
      BY DEF Abreast
<1>2. Branches \in Nat /\ p \in Nat /\ p < Branches /\ b \in Nat /\ b < Branches /\ c \in Nat /\ c < Branches
      BY BranchesAssumption DEF Index
<1>3. PICK s \in Index : s = RoundRobinAdvance(Branches, p) /\ s = IF p + 1 = Branches THEN 0 ELSE p + 1
      BY Advance
<1>4. P[c] <= P[b] + Ahead(c, b, p) /\ P[c] \in Nat /\ P[b] \in Nat
      BY <1>1 DEF Abreast
<1>5. R[c] = P[c] + (IF c = p THEN 1 ELSE 0) /\ R[b] = P[b] + (IF b = p THEN 1 ELSE 0)
      OBVIOUS
<1>6. R[c] <= R[b] + Ahead(c, b, s)
  <2>1. CASE p + 1 = Branches
        BY <1>1, <1>2, <1>3, <1>4, <1>5, <2>1 DEF Ahead
  <2>2. CASE p + 1 # Branches
        BY <1>1, <1>2, <1>3, <1>4, <1>5, <2>2 DEF Ahead
  <2>3. QED  BY <2>1, <2>2
<1>7. QED  BY <1>3, <1>6

(* A branch from which nothing came has nothing left, and no other was dealt *)
(* more than one element more.                                               *)
LEMMA AbreastMiss ==
  ASSUME NEW P \in [Index -> Nat], NEW p \in Index, Abreast(P, p), NEW q \in Nat, NEW a \in Index,
         P[p] = DealtTo(q, a, p), \A b \in Index : P[b] <= DealtTo(q, a, b)
  PROVE  Abreast(P, RoundRobinAdvance(Branches, p))
<1>1. SUFFICES ASSUME NEW b \in Index, NEW c \in Index, b # c
               PROVE  P[c] <= P[b] + Ahead(c, b, RoundRobinAdvance(Branches, p))
      BY DEF Abreast
<1>2. Branches \in Nat /\ p \in Nat /\ p < Branches /\ b \in Nat /\ b < Branches /\ c \in Nat /\ c < Branches
      BY BranchesAssumption DEF Index
<1>3. PICK s \in Index : s = RoundRobinAdvance(Branches, p) /\ s = IF p + 1 = Branches THEN 0 ELSE p + 1
      BY Advance
<1>4. P[c] <= P[b] + Ahead(c, b, p) /\ P[c] \in Nat /\ P[b] \in Nat /\ P[p] \in Nat
      BY <1>1 DEF Abreast
<1>5. P[c] <= DealtTo(q, a, c) /\ P[b] <= DealtTo(q, a, b) /\ a \in Nat
      BY DEF Index
<1>6. P[c] <= P[b] + Ahead(c, b, s)
  <2>1. CASE p + 1 = Branches
        BY <1>1, <1>2, <1>3, <1>4, <1>5, <2>1 DEF Ahead, DealtTo
  <2>2. CASE p + 1 # Branches
        BY <1>1, <1>2, <1>3, <1>4, <1>5, <2>2 DEF Ahead, DealtTo
  <2>3. QED  BY <2>1, <2>2
<1>7. QED  BY <1>3, <1>6

LEMMA BranchNetParts ==
  ASSUME NEW r
  PROVE  r \in BranchNet <=>
           \E queues \in [Index -> Seq(Elements)], a \in Index, p \in Index :
             r = [queues |-> queues, pushIndex |-> a, pullIndex |-> p]
  BY DEF BranchNet

LEMMA Within ==
  ASSUME NEW e \in Nat, NEW l \in Nat, NEW j \in 1..l
  PROVE  e + j - 1 \in Nat /\ e + j - 1 < e + l
  OBVIOUS

LEMMA AtEnd ==
  ASSUME NEW l \in Nat, NEW j \in 1..(l + 1), j \notin 1..l
  PROVE  j = l + 1
  OBVIOUS

LEMMA BranchPush ==
  ASSUME input \in Seq(Fed), BranchInv, PushBranch
  PROVE  BranchInv'
<1>1. PICK i \in Feed("in") :
        /\ net' = [net EXCEPT !.queues[net.pushIndex] = QueuePush(@, i.x),
                              !.pushIndex = RoundRobinAdvance(Branches, @)]
        /\ Pushed(i)
      BY DEF PushBranch
<1>2. PICK x : x = i.x
      OBVIOUS
<1>3. /\ x \in Elements /\ Inputs("in")' = Append(Inputs("in"), x)
      /\ x.id = Len(input) + 1 /\ Len(input') = Len(input) + 1
      BY <1>1, <1>2, InputsPushed DEF Sides
<1>4. kind = "branch" /\ kind' = "branch" /\ got' = got /\ missed' = missed
      BY <1>1 DEF PushBranch, Pushed
<1>5. PICK queues \in [Index -> Seq(Elements)], a \in Index, p \in Index :
        net = [queues |-> queues, pushIndex |-> a, pullIndex |-> p]
      BY <1>4, BranchNetParts DEF BranchInv
<1>6. PICK in \in Seq(Elements), more \in Seq(Elements) : in = Inputs("in") /\ more = Append(in, x)
      BY <1>3, InputsType, AppendProperties DEF Sides
<1>7. PICK P \in [Index -> Nat], q \in Nat, h \in Seq(Dealt) :
        /\ Numbered(in, q, a) /\ InQueues(queues, in, P, q, a) /\ Abreast(P, p) /\ Overtaking(h, got, P)
        /\ ~missed => InStep(got, in, P, p)
      BY <1>4, <1>5, <1>6 DEF BranchInv
<1>8. got \in Seq(Elements) /\ Len(in) = Len(input)
      BY <1>4, <1>6 DEF BranchInv
<1>9. PICK s \in Index : s = RoundRobinAdvance(Branches, a)
      BY Advance
<1>10. PICK r \in Nat :
        /\ Branches * r + s = Branches * q + a + 1
        /\ \A b \in Index : DealtTo(r, s, b) = DealtTo(q, a, b) + (IF b = a THEN 1 ELSE 0)
      BY <1>9, DealtOneMore
<1>11. PICK Q \in [Index -> Seq(Elements)] : Q = [queues EXCEPT ![a] = Append(queues[a], x)]
  <2>1. PICK u \in Seq(Elements) : u = Append(queues[a], x)
        BY <1>3, AppendProperties
  <2>2. [queues EXCEPT ![a] = u] \in [Index -> Seq(Elements)]
        OBVIOUS
  <2>3. QED  BY <2>1, <2>2
<1>12. net' = [queues |-> Q, pushIndex |-> s, pullIndex |-> p]
  <2>1. net' = [net EXCEPT !.queues[a] = Append(queues[a], x), !.pushIndex = s]
        BY <1>1, <1>2, <1>5, <1>9 DEF QueuePush
  <2>2. QED  BY <1>5, <1>11, <2>1
<1>13. /\ Len(more) = Len(in) + 1 /\ more[Len(in) + 1] = x /\ \A n \in 1..Len(in) : more[n] = in[n]
       /\ Len(in) = Branches * q + a /\ Len(in) \in Nat /\ Branches * q \in Nat
  <2>1. Branches * q \in Nat
        BY BranchesAssumption
  <2>2. QED  BY <1>3, <1>6, <1>7, <2>1, AppendProperties DEF Numbered
<1>14. Numbered(more, r, s)
  <2>1. Len(more) = Branches * r + s
        BY <1>10, <1>13
  <2>2. ASSUME NEW n \in 1..Len(more) PROVE more[n].id = n
    <3>1. n \in 1..Len(in) \/ n = Len(in) + 1
          BY <1>13
    <3>2. \A m \in 1..Len(in) : in[m].id = m
          BY <1>7 DEF Numbered
    <3>3. QED  BY <1>3, <1>8, <1>13, <3>1, <3>2
  <2>3. QED  BY <2>1, <2>2 DEF Numbered
<1>15. InQueues(Q, more, P, r, s)
  <2>1. SUFFICES ASSUME NEW b \in Index
                 PROVE  /\ P[b] + Len(Q[b]) = DealtTo(r, s, b)
                        /\ \A j \in 1..Len(Q[b]) : Q[b][j] = more[Pos(P[b] + j - 1, b)]
        BY DEF InQueues
  <2>2. PICK u \in Seq(Elements) : u = queues[b]
        OBVIOUS
  <2>3. P[b] \in Nat /\ Len(u) \in Nat /\ P[b] + Len(u) = DealtTo(q, a, b)
        BY <1>7, <2>2 DEF InQueues
  <2>4. ASSUME NEW j \in 1..Len(u) PROVE u[j] = more[Pos(P[b] + j - 1, b)]
    <3>1. P[b] + j - 1 \in Nat /\ P[b] + j - 1 < DealtTo(q, a, b)
      <4>1. PICK e \in Nat, l \in Nat : e = P[b] /\ l = Len(u)
            BY <2>3
      <4>2. j \in 1..l /\ e + l = DealtTo(q, a, b)
            BY <2>3, <4>1
      <4>3. e + j - 1 \in Nat /\ e + j - 1 < e + l
            BY <4>2, Within
      <4>4. QED  BY <4>1, <4>2, <4>3
    <3>2. Pos(P[b] + j - 1, b) \in 1..Len(in)
      <4>1. PICK o \in Nat : o = P[b] + j - 1
            BY <3>1
      <4>2. Pos(o, b) \in 1..(Branches * q + a)
            BY <3>1, <4>1, PosBound
      <4>3. QED  BY <1>13, <4>1, <4>2
    <3>3. u[j] = in[Pos(P[b] + j - 1, b)]
          BY <1>7, <2>2 DEF InQueues
    <3>4. QED  BY <1>13, <3>2, <3>3
  <2>5. CASE b # a
    <3>1. Q[b] = u /\ DealtTo(r, s, b) = DealtTo(q, a, b) + 0
          BY <1>10, <1>11, <2>2, <2>5
    <3>2. P[b] + Len(u) = DealtTo(r, s, b)
      <4>1. PICK e \in Nat, l \in Nat : e = P[b] /\ l = Len(u)
            BY <2>3
      <4>2. DealtTo(q, a, b) + 0 = e + l
            BY <2>3, <4>1
      <4>3. QED  BY <3>1, <4>1, <4>2
    <3>3. QED  BY <2>4, <3>1, <3>2
  <2>6. CASE b = a
    <3>1. PICK v \in Seq(Elements) : v = Append(u, x)
          BY <1>3, AppendProperties
    <3>2. Q[b] = v /\ DealtTo(r, s, b) = DealtTo(q, a, b) + 1
          BY <1>10, <1>11, <2>2, <2>6, <3>1
    <3>3. Len(v) = Len(u) + 1 /\ v[Len(u) + 1] = x /\ \A j \in 1..Len(u) : v[j] = u[j]
          BY <1>3, <3>1, AppendProperties
    <3>4. P[b] + (Len(u) + 1) - 1 = q /\ Pos(q, a) = Len(in) + 1
          BY <1>13, <2>3, <2>6 DEF DealtTo, Pos, Index
    <3>5. ASSUME NEW j \in 1..Len(v) PROVE v[j] = more[Pos(P[b] + j - 1, b)]
      <4>1. CASE j \in 1..Len(u)
            BY <2>4, <3>3, <4>1
      <4>2. CASE j \notin 1..Len(u)
        <5>1. j = Len(u) + 1
          <6>1. PICK l \in Nat : l = Len(u)
                BY <2>3
          <6>2. j \in 1..(l + 1) /\ j \notin 1..l
                BY <3>3, <4>2, <6>1
          <6>3. j = l + 1
                BY <6>2, AtEnd
          <6>4. QED  BY <6>1, <6>3
        <5>2. P[b] + j - 1 = q
          <6>1. PICK e \in Nat, l \in Nat : e = P[b] /\ l = Len(u)
                BY <2>3
          <6>2. QED  BY <3>4, <5>1, <6>1
        <5>3. Pos(P[b] + j - 1, b) = Len(in) + 1
              BY <2>6, <3>4, <5>2
        <5>4. QED  BY <1>13, <3>3, <5>1, <5>3
      <4>3. QED  BY <4>1, <4>2
    <3>6. P[b] + Len(v) = DealtTo(r, s, b)
          BY <2>3, <3>2, <3>3
    <3>7. QED  BY <3>2, <3>5, <3>6
  <2>7. QED  BY <2>5, <2>6
<1>16. ~missed => InStep(got, more, P, p)
  <2>1. SUFFICES ASSUME ~missed PROVE InStep(got, more, P, p)
        OBVIOUS
  <2>2. PICK t \in Nat :
          /\ Len(got) = Branches * t + p /\ Len(got) <= Len(in)
          /\ \A b \in Index : P[b] = DealtTo(t, p, b)
          /\ \A m \in 1..Len(got) : got[m] = in[m]
        BY <1>7, <2>1 DEF InStep
  <2>3. Len(got) \in Nat
        BY <1>8, LenProperties
  <2>4. Len(got) <= Len(more) /\ \A m \in 1..Len(got) : got[m] = more[m]
    <3>1. \A m \in 1..Len(got) : m \in 1..Len(in)
          BY <1>13, <2>2, <2>3
    <3>2. \A m \in 1..Len(got) : got[m] = more[m]
          BY <1>13, <2>2, <3>1
    <3>3. QED  BY <1>13, <2>2, <2>3, <3>2
  <2>5. QED  BY <2>2, <2>4 DEF InStep
<1>17. net' \in BranchNet
      BY <1>12, BranchNetParts
<1>18. /\ net'.queues = Q /\ net'.pushIndex = s /\ net'.pullIndex = p /\ Inputs("in")' = more
       /\ Len(more) = Len(input')
      BY <1>3, <1>6, <1>8, <1>12, <1>13
<1>19. QED  BY <1>4, <1>7, <1>8, <1>14, <1>15, <1>16, <1>17, <1>18 DEF BranchInv

LEMMA InQueuesPulled ==
  ASSUME NEW queues \in [Index -> Seq(Elements)], NEW in \in Seq(Elements), NEW P \in [Index -> Nat],
         NEW q \in Nat, NEW a \in Index, NEW p \in Index, InQueues(queues, in, P, q, a),
         queues[p] # << >>,
         NEW Q \in [Index -> Seq(Elements)], \A b \in Index : Q[b] = IF b = p THEN Tail(queues[p]) ELSE queues[b],
         NEW R \in [Index -> Nat], \A b \in Index : R[b] = P[b] + (IF b = p THEN 1 ELSE 0)
  PROVE  InQueues(Q, in, R, q, a)
<1>1. SUFFICES ASSUME NEW b \in Index
               PROVE  /\ R[b] + Len(Q[b]) = DealtTo(q, a, b)
                      /\ \A j \in 1..Len(Q[b]) : Q[b][j] = in[Pos(R[b] + j - 1, b)]
      BY DEF InQueues
<1>2. PICK u \in Seq(Elements), l \in Nat, e \in Nat : u = queues[b] /\ l = Len(u) /\ e = P[b]
      OBVIOUS
<1>3. e + l = DealtTo(q, a, b) /\ \A j \in 1..l : u[j] = in[Pos(e + j - 1, b)]
      BY <1>2 DEF InQueues
<1>4. CASE b # p
  <2>1. Q[b] = u /\ R[b] = e
        BY <1>2, <1>4
  <2>2. QED  BY <1>2, <1>3, <2>1
<1>5. CASE b = p
  <2>1. PICK v \in Seq(Elements), k \in Nat : v = Tail(u) /\ k = Len(v)
        BY <1>2, <1>5, HeadTailProperties
  <2>2. Q[b] = v /\ R[b] = e + 1 /\ l = k + 1 /\ \A j \in 1..k : v[j] = u[j + 1]
        BY <1>2, <1>5, <2>1, HeadTailProperties
  <2>3. (e + 1) + k = DealtTo(q, a, b)
    <3>1. (e + 1) + k = e + l
          BY <2>2
    <3>2. QED  BY <1>3, <3>1
  <2>4. ASSUME NEW j \in 1..k PROVE v[j] = in[Pos((e + 1) + j - 1, b)]
    <3>1. j + 1 \in 1..l /\ e + (j + 1) - 1 = (e + 1) + j - 1
          BY <2>2
    <3>2. u[j + 1] = in[Pos(e + (j + 1) - 1, b)]
          BY <1>3, <3>1
    <3>3. QED  BY <2>2, <3>1, <3>2
  <2>5. QED  BY <1>2, <2>1, <2>2, <2>3, <2>4
<1>6. QED  BY <1>4, <1>5

(* The head of a queue.                                                      *)
LEMMA InQueuesHead ==
  ASSUME NEW queues \in [Index -> Seq(Elements)], NEW in \in Seq(Elements), NEW P \in [Index -> Nat],
         NEW q \in Nat, NEW a \in Index, NEW p \in Index, InQueues(queues, in, P, q, a),
         Numbered(in, q, a), queues[p] # << >>
  PROVE  \E x \in Elements :
           /\ x = Head(queues[p]) /\ Pos(P[p], p) \in 1..Len(in)
           /\ x = in[Pos(P[p], p)] /\ x.id = Pos(P[p], p)
<1>1. PICK u \in Seq(Elements), l \in Nat, e \in Nat : u = queues[p] /\ l = Len(u) /\ e = P[p]
      OBVIOUS
<1>2. e + l = DealtTo(q, a, p) /\ \A j \in 1..l : u[j] = in[Pos(e + j - 1, p)]
      BY <1>1 DEF InQueues
<1>3. PICK x \in Elements : x = Head(u) /\ x = u[1] /\ l # 0
      BY <1>1, HeadTailProperties, EmptySeq
<1>4. 1 \in 1..l /\ e + 1 - 1 = e /\ e < e + l
      BY <1>3
<1>5. x = in[Pos(e, p)]
      BY <1>2, <1>3, <1>4
<1>6. Pos(e, p) \in 1..(Branches * q + a)
      BY <1>2, <1>4, PosBound
<1>7. Pos(e, p) \in 1..Len(in)
      BY <1>6 DEF Numbered
<1>8. in[Pos(e, p)].id = Pos(e, p)
      BY <1>7 DEF Numbered
<1>9. QED  BY <1>1, <1>3, <1>5, <1>7, <1>8

LEMMA Appended ==
  ASSUME NEW S, NEW s \in Seq(S), NEW x \in S
  PROVE  /\ Append(s, x) \in Seq(S) /\ Len(s) \in Nat
         /\ Len(Append(s, x)) = Len(s) + 1 /\ Append(s, x)[Len(s) + 1] = x
         /\ \A m \in 1..Len(s) : Append(s, x)[m] = s[m]
<1>1. Append(s, x) \in Seq(S) /\ Len(s) \in Nat
      OBVIOUS
<1>2. Len(Append(s, x)) = Len(s) + 1 /\ Append(s, x)[Len(s) + 1] = x
      BY AppendProperties
<1>3. \A m \in 1..Len(s) : Append(s, x)[m] = s[m]
      BY AppendProperties
<1>4. QED  BY <1>1, <1>2, <1>3

LEMMA OvertakingMore ==
  ASSUME NEW h \in Seq(Dealt), NEW out \in Seq(Elements), NEW P \in [Index -> Nat], NEW p \in Index,
         Overtaking(h, out, P), Abreast(P, p), NEW x \in Elements, x.id = Pos(P[p], p),
         NEW R \in [Index -> Nat], \A b \in Index : R[b] = P[b] + (IF b = p THEN 1 ELSE 0)
  PROVE  \E g \in Seq(Dealt) : Overtaking(g, Append(out, x), R)
<1>1. PICK e \in Nat, w \in Dealt : e = P[p] /\ w = [o |-> e, b |-> p] /\ w.o = e /\ w.b = p
  <2>1. PICK e \in Nat : e = P[p]
        OBVIOUS
  <2>2. PICK w \in Dealt : w = [o |-> e, b |-> p]
        BY DEF Dealt
  <2>3. w.o = e /\ w.b = p
        BY <2>2
  <2>4. QED  BY <2>1, <2>2, <2>3
<1>2. PICK g \in Seq(Dealt), l \in Nat :
        /\ g = Append(h, w) /\ l = Len(h)
        /\ Len(g) = l + 1 /\ g[l + 1] = w /\ \A m \in 1..l : g[m] = h[m]
  <2>1. PICK g \in Seq(Dealt) : g = Append(h, w)
        BY Appended
  <2>2. Len(g) = Len(h) + 1 /\ g[Len(h) + 1] = w /\ \A m \in 1..Len(h) : g[m] = h[m]
        BY <2>1, Appended
  <2>3. Len(h) \in Nat
        OBVIOUS
  <2>4. QED  BY <2>1, <2>2, <2>3
<1>3. PICK more \in Seq(Elements) :
        /\ more = Append(out, x)
        /\ Len(more) = l + 1 /\ more[l + 1] = x /\ \A m \in 1..l : more[m] = out[m]
  <2>1. Len(out) = l
        BY <1>2 DEF Overtaking
  <2>2. PICK more \in Seq(Elements) : more = Append(out, x)
        BY Appended
  <2>3. Len(more) = l + 1 /\ more[l + 1] = x /\ \A m \in 1..l : more[m] = out[m]
        BY <2>1, <2>2, Appended
  <2>4. QED  BY <2>2, <2>3
<1>4. \A m \in 1..l : /\ h[m] \in Dealt /\ h[m].o \in Nat /\ h[m].b \in Index
                      /\ out[m].id = Pos(h[m].o, h[m].b) /\ h[m].o < P[h[m].b]
  <2>1. \A m \in 1..l : h[m] \in Dealt
        BY <1>2, ElementOfSeq
  <2>2. QED  BY <1>2, <2>1 DEF Overtaking, Dealt
<1>5. ASSUME NEW m \in 1..(l + 1)
      PROVE  more[m].id = Pos(g[m].o, g[m].b) /\ g[m].o < R[g[m].b]
  <2>1. CASE m \in 1..l
    <3>1. PICK o \in Nat, b \in Index : o = h[m].o /\ b = h[m].b
          BY <1>4, <2>1
    <3>2. o < P[b] /\ P[b] \in Nat /\ R[b] = P[b] + (IF b = p THEN 1 ELSE 0)
          BY <1>4, <2>1, <3>1
    <3>3. o < R[b]
          BY <3>2
    <3>4. QED  BY <1>2, <1>3, <1>4, <2>1, <3>1, <3>3
  <2>2. CASE m \notin 1..l
    <3>1. m = l + 1
          BY <2>2, AtEnd
    <3>2. R[p] = e + 1 /\ e < e + 1
          BY <1>1
    <3>3. QED  BY <1>1, <1>2, <1>3, <3>1, <3>2
  <2>3. QED  BY <2>1, <2>2
<1>6. ASSUME NEW m \in 1..(l + 1), NEW n \in 1..(l + 1), m < n
      PROVE  /\ g[m].b = g[n].b => g[m].o < g[n].o
             /\ g[m].b < g[n].b => g[m].o <= g[n].o + 1
             /\ g[m].b > g[n].b => g[m].o <= g[n].o
  <2>1. m \in 1..l /\ g[m] = h[m]
        BY <1>2, <1>6
  <2>2. CASE n \in 1..l
        BY <1>2, <1>6, <2>1, <2>2 DEF Overtaking
  <2>3. CASE n \notin 1..l
    <3>1. g[n] = w
          BY <1>2, <2>3, AtEnd
    <3>2. PICK o \in Nat, c \in Index : o = h[m].o /\ c = h[m].b
          BY <1>4, <2>1
    <3>3. o < P[c] /\ P[c] \in Nat
          BY <1>4, <2>1, <3>2
    <3>4. c # p => P[c] <= e + Ahead(c, p, p)
          BY <1>1 DEF Abreast
    <3>5. c \in Nat /\ p \in Nat
          BY BranchesAssumption DEF Index
    <3>6. /\ c = p => o < e
          /\ c < p => o <= e + 1
          /\ c > p => o <= e
          BY <1>1, <3>3, <3>4, <3>5 DEF Ahead
    <3>7. QED  BY <1>1, <2>1, <3>1, <3>2, <3>6
  <2>4. QED  BY <2>2, <2>3
<1>7. Overtaking(g, more, R)
      BY <1>2, <1>3, <1>5, <1>6 DEF Overtaking
<1>8. QED  BY <1>2, <1>3, <1>7

LEMMA InStepMore ==
  ASSUME NEW out \in Seq(Elements), NEW in \in Seq(Elements), NEW P \in [Index -> Nat], NEW p \in Index,
         InStep(out, in, P, p), NEW x \in Elements, Pos(P[p], p) \in 1..Len(in), x = in[Pos(P[p], p)],
         NEW R \in [Index -> Nat], \A b \in Index : R[b] = P[b] + (IF b = p THEN 1 ELSE 0)
  PROVE  InStep(Append(out, x), in, R, RoundRobinAdvance(Branches, p))
<1>1. PICK t \in Nat :
        /\ Len(out) = Branches * t + p /\ Len(out) <= Len(in)
        /\ \A b \in Index : P[b] = DealtTo(t, p, b)
        /\ \A m \in 1..Len(out) : out[m] = in[m]
      BY DEF InStep
<1>2. PICK s \in Index : s = RoundRobinAdvance(Branches, p)
      BY Advance
<1>3. PICK r \in Nat :
        /\ Branches * r + s = Branches * t + p + 1
        /\ \A b \in Index : DealtTo(r, s, b) = DealtTo(t, p, b) + (IF b = p THEN 1 ELSE 0)
      BY <1>2, DealtOneMore
<1>4. PICK more \in Seq(Elements), l \in Nat :
        /\ more = Append(out, x) /\ l = Len(out)
        /\ Len(more) = l + 1 /\ more[l + 1] = x /\ \A m \in 1..l : more[m] = out[m]
  <2>1. PICK more \in Seq(Elements) : more = Append(out, x)
        BY Appended
  <2>2. Len(more) = Len(out) + 1 /\ more[Len(out) + 1] = x /\ \A m \in 1..Len(out) : more[m] = out[m]
        BY <2>1, Appended
  <2>3. Len(out) \in Nat
        OBVIOUS
  <2>4. QED  BY <2>1, <2>2, <2>3
<1>5. P[p] = t /\ Pos(t, p) = l + 1
  <2>1. p \in Nat /\ Branches * t \in Nat
        BY BranchesAssumption DEF Index
  <2>2. QED  BY <1>1, <1>4, <2>1 DEF DealtTo, Pos
<1>6. Len(more) = Branches * r + s /\ Len(more) <= Len(in)
      BY <1>1, <1>3, <1>4, <1>5
<1>7. \A b \in Index : R[b] = DealtTo(r, s, b)
      BY <1>1, <1>3
<1>8. ASSUME NEW m \in 1..Len(more) PROVE more[m] = in[m]
  <2>1. CASE m \in 1..l
        BY <1>1, <1>4, <2>1
  <2>2. CASE m \notin 1..l
    <3>1. m = l + 1
          BY <1>4, <2>2, AtEnd
    <3>2. QED  BY <1>4, <1>5, <3>1
  <2>3. QED  BY <2>1, <2>2
<1>9. InStep(more, in, R, s)
      BY <1>6, <1>7, <1>8 DEF InStep
<1>10. QED  BY <1>2, <1>4, <1>9

LEMMA BranchPull ==
  ASSUME input \in Seq(Fed), BranchInv, PullBranch
  PROVE  BranchInv'
<1>1. kind = "branch" /\ kind' = "branch" /\ input' = input
      BY DEF PullBranch, Pulled
<1>2. PICK queues \in [Index -> Seq(Elements)], a \in Index, p \in Index :
        net = [queues |-> queues, pushIndex |-> a, pullIndex |-> p]
      BY <1>1, BranchNetParts DEF BranchInv
<1>3. PICK in \in Seq(Elements) : in = Inputs("in") /\ Inputs("in")' = in
      BY <1>1, InputsType, InputsStay DEF Sides
<1>4. PICK P \in [Index -> Nat], q \in Nat, h \in Seq(Dealt) :
        /\ Numbered(in, q, a) /\ InQueues(queues, in, P, q, a) /\ Abreast(P, p) /\ Overtaking(h, got, P)
        /\ ~missed => InStep(got, in, P, p)
      BY <1>1, <1>2, <1>3 DEF BranchInv
<1>5. got \in Seq(Elements) /\ Len(in) = Len(input)
      BY <1>1, <1>3 DEF BranchInv
<1>6. PICK s \in Index : s = RoundRobinAdvance(Branches, p)
      BY Advance
<1>7. PICK u \in Seq(Elements) : u = queues[p]
      OBVIOUS
<1>7a. PICK up : up = QueuePull(u)
      OBVIOUS
<1>8. /\ net' = [net EXCEPT !.queues[p] = up.state, !.pullIndex = s]
      /\ got' = IF up.out = None THEN got ELSE Append(got, up.out)
      /\ missed' = (missed \/ up.out = None)
  <2>1. net.queues = queues /\ net.pullIndex = p
        BY <1>2
  <2>2. QED  BY <1>6, <1>7, <1>7a, <2>1, Zenon DEF PullBranch, Pulled
<1>9. CASE u = << >>
  <2>1. up.state = u /\ up.out = None
        BY <1>7a, <1>9 DEF QueuePull, Result
  <2>2. [queues EXCEPT ![p] = u] = queues
        BY <1>7
  <2>3. net' = [queues |-> [queues EXCEPT ![p] = u], pushIndex |-> a, pullIndex |-> s]
        BY <1>2, <1>8, <2>1
  <2>4. net' = [queues |-> queues, pushIndex |-> a, pullIndex |-> s] /\ got' = got /\ missed' = TRUE
        BY <1>8, <2>1, <2>2, <2>3
  <2>5. ASSUME NEW b \in Index PROVE P[b] <= DealtTo(q, a, b) /\ (b = p => P[b] = DealtTo(q, a, b))
    <3>1. P[b] + Len(queues[b]) = DealtTo(q, a, b)
          BY <1>4 DEF InQueues
    <3>2. PICK e \in Nat, l \in Nat : e = P[b] /\ l = Len(queues[b])
          OBVIOUS
    <3>3. b = p => l = 0
      <4>1. Len(u) = 0
            BY <1>9
      <4>2. QED  BY <1>7, <3>2, <4>1
    <3>4. e <= e + l /\ (l = 0 => e = e + l)
          OBVIOUS
    <3>5. QED  BY <3>1, <3>2, <3>3, <3>4
  <2>6. Abreast(P, s)
        BY <1>4, <1>6, <2>5, AbreastMiss
  <2>7. net' \in BranchNet /\ net'.queues = queues /\ net'.pushIndex = a /\ net'.pullIndex = s
        BY <2>4, BranchNetParts
  <2>8. QED  BY <1>1, <1>3, <1>4, <1>5, <2>4, <2>6, <2>7 DEF BranchInv
<1>10. CASE u # << >>
  <2>1. PICK x \in Elements :
          /\ x = Head(queues[p]) /\ Pos(P[p], p) \in 1..Len(in)
          /\ x = in[Pos(P[p], p)] /\ x.id = Pos(P[p], p)
    <3>1. queues[p] # << >> /\ InQueues(queues, in, P, q, a) /\ Numbered(in, q, a)
          BY <1>4, <1>7, <1>10
    <3>2. QED  BY <3>1, InQueuesHead
  <2>2. x # None
        BY NoneAssumption
  <2>3. PICK v \in Seq(Elements) : v = Tail(u)
        BY <1>10, HeadTailProperties
  <2>4. up.state = v /\ up.out = x
        BY <1>7, <1>7a, <1>10, <2>1, <2>3 DEF QueuePull, Result
  <2>5. PICK Q \in [Index -> Seq(Elements)] :
          Q = [queues EXCEPT ![p] = v] /\ \A b \in Index : Q[b] = IF b = p THEN Tail(queues[p]) ELSE queues[b]
    <3>1. [queues EXCEPT ![p] = v] \in [Index -> Seq(Elements)]
          OBVIOUS
    <3>2. \A b \in Index : [queues EXCEPT ![p] = v][b] = IF b = p THEN v ELSE queues[b]
          OBVIOUS
    <3>3. QED  BY <1>7, <2>3, <3>1, <3>2
  <2>6. PICK R \in [Index -> Nat] : \A b \in Index : R[b] = P[b] + (IF b = p THEN 1 ELSE 0)
    <3>1. [b \in Index |-> P[b] + (IF b = p THEN 1 ELSE 0)] \in [Index -> Nat]
          OBVIOUS
    <3>2. QED  BY <3>1
  <2>7. net' = [queues |-> Q, pushIndex |-> a, pullIndex |-> s]
        BY <1>2, <1>8, <2>4, <2>5
  <2>8. got' = Append(got, x) /\ (~missed' => ~missed)
    <3>1. got' = Append(got, x)
          BY <1>8, <2>2, <2>4
    <3>2. ~missed' => ~missed
          BY <1>8, Zenon
    <3>3. QED  BY <3>1, <3>2
  <2>9. Append(got, x) \in Seq(Elements)
        BY <1>5, AppendProperties
  <2>10. InQueues(Q, in, R, q, a)
    <3>1. queues[p] # << >> /\ InQueues(queues, in, P, q, a)
          BY <1>4, <1>7, <1>10
    <3>2. \A b \in Index : Q[b] = IF b = p THEN Tail(queues[p]) ELSE queues[b]
          BY <2>5
    <3>3. QED  BY <2>6, <3>1, <3>2, InQueuesPulled
  <2>11. Abreast(R, s)
        BY <1>4, <1>6, <2>6, AbreastHit
  <2>12. PICK g \in Seq(Dealt) : Overtaking(g, Append(got, x), R)
        BY <1>4, <1>5, <2>1, <2>6, OvertakingMore
  <2>13. ~missed => InStep(Append(got, x), in, R, s)
        BY <1>4, <1>5, <1>6, <2>1, <2>6, InStepMore
  <2>14. net' \in BranchNet /\ net'.queues = Q /\ net'.pushIndex = a /\ net'.pullIndex = s
        BY <2>7, BranchNetParts
  <2>15. QED  BY <1>1, <1>3, <1>4, <1>5, <2>8, <2>9, <2>10, <2>11, <2>12, <2>13, <2>14 DEF BranchInv
<1>11. QED  BY <1>9, <1>10

(* An element is overtaken by at most one of each other branch.              *)
LEMMA Overtakers ==
  ASSUME NEW h \in Seq(Dealt), NEW out \in Seq(Elements), NEW P \in [Index -> Nat],
         Overtaking(h, out, P), NEW n \in 1..Len(out)
  PROVE  Cardinality({m \in 1..(n - 1) : out[m].id > out[n].id}) < Branches
<1>1. PICK l \in Nat : l = Len(h) /\ l = Len(out)
      BY DEF Overtaking
<1>2. \A m \in 1..l : h[m].o \in Nat /\ h[m].b \in Index /\ out[m].id = Pos(h[m].o, h[m].b)
  <2>1. \A m \in 1..l : h[m] \in Dealt
        BY <1>1, ElementOfSeq
  <2>2. QED  BY <1>1, <2>1 DEF Overtaking, Dealt
<1>3. PICK M : M = {m \in 1..(n - 1) : out[m].id > out[n].id}
      OBVIOUS
<1>4. PICK o \in Nat, b \in Index : o = h[n].o /\ b = h[n].b
      BY <1>1, <1>2
<1>5. ASSUME NEW m \in M
      PROVE  /\ m \in 1..l /\ m < n /\ h[m].b \in Index /\ h[m].b # b /\ h[m].o \in Nat
             /\ h[m].o = IF h[m].b < b THEN o + 1 ELSE o
  <2>1. m \in 1..l /\ m < n /\ n \in 1..l
        BY <1>1, <1>3
  <2>2. PICK r \in Nat, c \in Index : r = h[m].o /\ c = h[m].b
        BY <1>2, <2>1
  <2>3. Pos(r, c) > Pos(o, b)
        BY <1>2, <1>3, <1>4, <2>1, <2>2
  <2>4. r > o \/ (r = o /\ c > b)
        BY <2>3, PosOrder
  <2>5. /\ c = b => r < o
        /\ c < b => r <= o + 1
        /\ c > b => r <= o
        BY <1>1, <1>4, <2>1, <2>2 DEF Overtaking
  <2>6. c \in Nat /\ b \in Nat
        BY BranchesAssumption DEF Index
  <2>7. c # b /\ r = IF c < b THEN o + 1 ELSE o
        BY <2>4, <2>5, <2>6
  <2>8. QED  BY <2>1, <2>2, <2>7
<1>6. ASSUME NEW m \in M, NEW k \in M, m < k PROVE h[m].b # h[k].b
  <2>1. m \in 1..l /\ k \in 1..l
        BY <1>5
  <2>2. h[m].b = h[k].b => h[m].o < h[k].o
        BY <1>1, <1>6, <2>1 DEF Overtaking
  <2>3. h[m].b = h[k].b => h[m].o = h[k].o
        BY <1>5
  <2>4. h[m].o \in Nat
        BY <1>5
  <2>5. QED  BY <2>2, <2>3, <2>4
<1>7. PICK f : f = [m \in M |-> h[m].b]
      OBVIOUS
<1>8. f \in Injection(M, Index \ {b})
  <2>1. f \in [M -> Index \ {b}]
        BY <1>5, <1>7
  <2>2. ASSUME NEW m \in M, NEW k \in M, f[m] = f[k] PROVE m = k
    <3>1. m \in Nat /\ k \in Nat
          BY <1>5
    <3>2. ~(m < k) /\ ~(k < m)
          BY <1>6, <1>7, <2>2
    <3>3. QED  BY <3>1, <3>2
  <2>3. QED  BY <2>1, <2>2 DEF Injection, IsInjective
<1>9. IsFiniteSet(Index) /\ Cardinality(Index) = Branches
  <2>1. PICK y \in Int, z \in Int : y = 0 /\ z = Branches - 1 /\ z - y + 1 = Branches /\ ~(y > z)
        BY BranchesAssumption
  <2>2. IsFiniteSet(y..z) /\ Cardinality(y..z) = IF y > z THEN 0 ELSE z - y + 1
        BY FS_Interval
  <2>3. QED  BY <2>1, <2>2 DEF Index
<1>10. IsFiniteSet(Index \ {b}) /\ Cardinality(Index \ {b}) = Branches - 1
      BY <1>9, FS_RemoveElement
<1>11. Cardinality(M) <= Cardinality(Index \ {b}) /\ IsFiniteSet(M)
      BY <1>8, <1>10, FS_Injection
<1>12. Cardinality(M) \in Nat
      BY <1>11, FS_CardinalityType
<1>13. QED  BY <1>3, <1>10, <1>11, <1>12, BranchesAssumption

LEMMA BranchOrder ==
  ASSUME input \in Seq(Fed), BranchInv
  PROVE  RoundRobinOrder
<1>1. SUFFICES ASSUME kind = "branch"
               PROVE  /\ ~missed => IsPrefix(got, Inputs("in"))
                      /\ \A n \in DOMAIN got :
                           Cardinality({m \in 1..(n - 1) : got[m].id > got[n].id}) < Branches
      BY DEF RoundRobinOrder
<1>2. PICK in \in Seq(Elements), out \in Seq(Elements) : in = Inputs("in") /\ out = got
      BY <1>1, InputsType DEF Sides, BranchInv
<1>3. PICK P \in [Index -> Nat], h \in Seq(Dealt) :
        Overtaking(h, out, P) /\ (~missed => InStep(out, in, P, net.pullIndex))
      BY <1>1, <1>2 DEF BranchInv
<1>4. ASSUME NEW n \in DOMAIN out
      PROVE  Cardinality({m \in 1..(n - 1) : out[m].id > out[n].id}) < Branches
  <2>1. n \in 1..Len(out)
        OBVIOUS
  <2>2. QED  BY <1>3, <2>1, Overtakers
<1>5. ASSUME ~missed PROVE IsPrefix(out, in)
  <2>1. Len(out) <= Len(in) /\ \A m \in 1..Len(out) : out[m] = in[m]
        BY <1>3, <1>5 DEF InStep
  <2>2. QED  BY <2>1 DEF IsPrefix
<1>6. QED  BY <1>2, <1>4, <1>5

-----------------------------------------------------------------------------
(* The circuit "join".                                                     *)

Pairs == Elements \X Elements
Maps == [left_map_ : [Keys -> Seq(Elements)], right_map_ : [Keys -> Seq(Elements)]]
PullState == [maps : Maps, pull_left : BOOLEAN, buf_ : Seq(Pairs)]
JoinNet == [push : Maps, left : Seq(Elements), right : Seq(Elements), pull : PullState]

(* s has every member of S exactly once, and nothing else.                   *)
Distinct(s) == \A i, j \in 1..Len(s) : s[i] = s[j] => i = j
Once(s, S) ==
  /\ Distinct(s)
  /\ \A i \in 1..Len(s) : s[i] \in S
  /\ \A x \in S : \E i \in 1..Len(s) : s[i] = x

(* A map of a join has the elements of L under their keys.                   *)
Indexed(f, L) == \A k \in Keys : Once(f[k], {x \in L : x.key = k})

Matching(L, R) == {p \in L \X R : p[1].key = p[2].key}

(* What was returned and what is in the buffer are S.                        *)
Settled(out, buf, S) ==
  \E G, B : Once(out, G) /\ Once(buf, B) /\ G \cap B = {} /\ G \cup B = S

JoinInv ==
  kind = "join" =>
    /\ net \in JoinNet /\ sink \in Seq(Pairs) /\ got \in Seq(Pairs)
    /\ \A side \in {"left", "right"} :
         Distinct(Inputs(side)) /\ \A x \in ToSet(Inputs(side)) : x.id <= Len(input)
    /\ Indexed(net.push.left_map_, ToSet(Inputs("left")))
    /\ Indexed(net.push.right_map_, ToSet(Inputs("right")))
    /\ Once(sink, Matching(ToSet(Inputs("left")), ToSet(Inputs("right"))))
    /\ \E pl, pr \in Seq(Elements) :
         /\ Inputs("left") = pl \o net.left /\ Inputs("right") = pr \o net.right
         /\ Len(pl) = Len(pr) + (IF net.pull.pull_left THEN 0 ELSE 1)
         /\ Indexed(net.pull.maps.left_map_, ToSet(pl))
         /\ Indexed(net.pull.maps.right_map_, ToSet(pr))
         /\ Settled(got, net.pull.buf_, Matching(ToSet(pl), ToSet(pr)))

LEMMA ToSetFacts ==
  ASSUME NEW S, NEW s \in Seq(S)
  PROVE  /\ ToSet(s) \subseteq S
         /\ \A x : x \in ToSet(s) <=> \E i \in 1..Len(s) : s[i] = x
         /\ \A x \in S : ToSet(Append(s, x)) = ToSet(s) \cup {x}
<1>1. \A x : x \in ToSet(s) <=> \E i \in 1..Len(s) : s[i] = x
      BY DEF ToSet
<1>2. ToSet(s) \subseteq S
      BY <1>1, ElementOfSeq
<1>3. ASSUME NEW x \in S PROVE ToSet(Append(s, x)) = ToSet(s) \cup {x}
  <2>1. PICK t \in Seq(S), l \in Nat : t = Append(s, x) /\ l = Len(s)
        BY Appended
  <2>2. Len(t) = l + 1 /\ t[l + 1] = x /\ \A m \in 1..l : t[m] = s[m]
        BY <2>1, Appended
  <2>3. \A y : y \in ToSet(t) <=> \E i \in 1..Len(t) : t[i] = y
        BY DEF ToSet
  <2>4. ASSUME NEW y \in ToSet(t) PROVE y \in ToSet(s) \cup {x}
    <3>1. PICK i \in 1..(l + 1) : t[i] = y
          BY <2>2, <2>3
    <3>2. i \in 1..l \/ i = l + 1
          BY AtEnd
    <3>3. QED  BY <1>1, <2>1, <2>2, <3>1, <3>2
  <2>5. ASSUME NEW y \in ToSet(s) PROVE y \in ToSet(t)
    <3>1. PICK i \in 1..l : s[i] = y
          BY <1>1, <2>1
    <3>2. i \in 1..(l + 1) /\ t[i] = y
          BY <2>2, <3>1
    <3>3. QED  BY <2>2, <2>3, <3>2
  <2>6. x \in ToSet(t)
    <3>1. l + 1 \in 1..(l + 1)
          OBVIOUS
    <3>2. QED  BY <2>2, <2>3, <3>1
  <2>7. QED  BY <2>1, <2>4, <2>5, <2>6
<1>4. QED  BY <1>1, <1>2, <1>3

LEMMA OnceAppend ==
  ASSUME NEW T, NEW s \in Seq(T), NEW S, Once(s, S), NEW x \in T, x \notin S
  PROVE  Once(Append(s, x), S \cup {x})
<1>1. PICK t \in Seq(T), l \in Nat : t = Append(s, x) /\ l = Len(s)
      BY Appended
<1>2. Len(t) = l + 1 /\ t[l + 1] = x /\ \A m \in 1..l : t[m] = s[m]
      BY <1>1, Appended
<1>3. \A m \in 1..l : s[m] \in S
      BY <1>1 DEF Once
<1>4. ASSUME NEW i \in 1..(l + 1) PROVE i \in 1..l \/ i = l + 1
      BY AtEnd
<1>5. Distinct(t)
  <2>1. SUFFICES ASSUME NEW i \in 1..(l + 1), NEW j \in 1..(l + 1), t[i] = t[j] PROVE i = j
        BY <1>2 DEF Distinct
  <2>2. CASE i \in 1..l /\ j \in 1..l
        BY <1>1, <1>2, <2>1, <2>2 DEF Once, Distinct
  <2>3. CASE ~(i \in 1..l /\ j \in 1..l)
        BY <1>2, <1>3, <1>4, <2>1, <2>3
  <2>4. QED  BY <2>2, <2>3
<1>6. \A i \in 1..(l + 1) : t[i] \in S \cup {x}
      BY <1>2, <1>3, <1>4
<1>7. ASSUME NEW y \in S \cup {x} PROVE \E i \in 1..(l + 1) : t[i] = y
  <2>1. CASE y = x
    <3>1. l + 1 \in 1..(l + 1)
          OBVIOUS
    <3>2. QED  BY <1>2, <2>1, <3>1
  <2>2. CASE y \in S
    <3>1. PICK i \in 1..l : s[i] = y
          BY <1>1, <2>2 DEF Once
    <3>2. i \in 1..(l + 1) /\ t[i] = y
          BY <1>2, <3>1
    <3>3. QED  BY <3>2
  <2>3. QED  BY <2>1, <2>2
<1>8. Once(t, S \cup {x})
      BY <1>2, <1>5, <1>6, <1>7 DEF Once
<1>9. QED  BY <1>1, <1>8

LEMMA OnceConcat ==
  ASSUME NEW T, NEW s \in Seq(T), NEW S, Once(s, S), NEW t \in Seq(T), NEW R, Once(t, R), S \cap R = {}
  PROVE  Once(s \o t, S \cup R)
<1>1. PICK u \in Seq(T), l \in Nat, k \in Nat : u = s \o t /\ l = Len(s) /\ k = Len(t)
  <2>1. PICK u \in Seq(T) : u = s \o t
        BY ConcatProperties
  <2>2. Len(s) \in Nat /\ Len(t) \in Nat
        OBVIOUS
  <2>3. QED  BY <2>1, <2>2
<1>2. Len(u) = l + k /\ (\A m \in 1..l : u[m] = s[m]) /\ (\A m \in (l + 1)..(l + k) : u[m] = t[m - l])
      BY <1>1, ConcatProperties
<1>3. ASSUME NEW i \in 1..(l + k)
      PROVE  \/ i \in 1..l /\ u[i] = s[i] /\ u[i] \in S
             \/ i \notin 1..l /\ i \in (l + 1)..(l + k) /\ i - l \in 1..k /\ u[i] = t[i - l] /\ u[i] \in R
  <2>1. CASE i \in 1..l
        BY <1>1, <1>2, <2>1 DEF Once
  <2>2. CASE i \notin 1..l
    <3>1. i \in (l + 1)..(l + k) /\ i - l \in 1..k
          BY <2>2
    <3>2. t[i - l] \in R
          BY <1>1, <3>1 DEF Once
    <3>3. QED  BY <1>2, <2>2, <3>1, <3>2
  <2>3. QED  BY <2>1, <2>2
<1>4. Distinct(u)
  <2>1. SUFFICES ASSUME NEW i \in 1..(l + k), NEW j \in 1..(l + k), u[i] = u[j] PROVE i = j
        BY <1>2 DEF Distinct
  <2>2. CASE i \in 1..l /\ j \in 1..l
        BY <1>1, <1>2, <2>1, <2>2 DEF Once, Distinct
  <2>3. CASE i \notin 1..l /\ j \notin 1..l
    <3>1. i - l \in 1..k /\ j - l \in 1..k /\ t[i - l] = t[j - l]
          BY <1>3, <2>1, <2>3
    <3>2. i - l = j - l
          BY <1>1, <3>1 DEF Once, Distinct
    <3>3. QED  BY <3>2
  <2>4. QED  BY <1>3, <2>1, <2>2, <2>3
<1>5. \A i \in 1..(l + k) : u[i] \in S \cup R
      BY <1>3
<1>6. ASSUME NEW y \in S \cup R PROVE \E i \in 1..(l + k) : u[i] = y
  <2>1. CASE y \in S
    <3>1. PICK i \in 1..l : s[i] = y
          BY <1>1, <2>1 DEF Once
    <3>2. i \in 1..(l + k) /\ u[i] = y
          BY <1>2, <3>1
    <3>3. QED  BY <3>2
  <2>2. CASE y \in R
    <3>1. PICK i \in 1..k : t[i] = y
          BY <1>1, <2>2 DEF Once
    <3>2. l + i \in 1..(l + k) /\ l + i \in (l + 1)..(l + k) /\ (l + i) - l = i
          OBVIOUS
    <3>3. u[l + i] = y
          BY <1>2, <3>1, <3>2
    <3>4. QED  BY <3>2, <3>3
  <2>3. QED  BY <2>1, <2>2
<1>7. Once(u, S \cup R)
      BY <1>2, <1>4, <1>5, <1>6 DEF Once
<1>8. QED  BY <1>1, <1>7

LEMMA OnceLists ==
  ASSUME NEW T, NEW s \in Seq(T), NEW S, Once(s, S)
  PROVE  Lists(s, S)
<1>1. PICK l \in Nat : l = Len(s) /\ DOMAIN s = 1..l
      OBVIOUS
<1>2. ToSet(s) = S
  <2>1. \A x : x \in ToSet(s) <=> \E i \in 1..l : s[i] = x
        BY <1>1, ToSetFacts
  <2>2. \A i \in 1..l : s[i] \in S
        BY <1>1 DEF Once
  <2>3. \A x \in S : \E i \in 1..l : s[i] = x
        BY <1>1 DEF Once
  <2>4. QED  BY <2>1, <2>2, <2>3
<1>3. PICK f : f = [i \in 1..l |-> s[i]]
      OBVIOUS
<1>4. f \in Bijection(1..l, S)
  <2>1. f \in [1..l -> S]
        BY <1>1, <1>3 DEF Once
  <2>2. \A i, j \in 1..l : f[i] = f[j] => i = j
        BY <1>1, <1>3 DEF Once, Distinct
  <2>3. \A x \in S : \E i \in 1..l : f[i] = x
        BY <1>1, <1>3 DEF Once
  <2>4. QED  BY <2>1, <2>2, <2>3 DEF Bijection, Injection, Surjection, IsInjective
<1>5. IsFiniteSet(1..l) /\ Cardinality(1..l) = l
  <2>1. PICK y \in Int, z \in Int : y = 1 /\ z = l /\ (IF y > z THEN 0 ELSE z - y + 1) = l
        OBVIOUS
  <2>2. IsFiniteSet(y..z) /\ Cardinality(y..z) = IF y > z THEN 0 ELSE z - y + 1
        BY FS_Interval
  <2>3. QED  BY <2>1, <2>2
<1>6. Cardinality(S) = l
      BY <1>4, <1>5, FS_Bijection DEF ExistsBijection
<1>7. QED  BY <1>1, <1>2, <1>6 DEF Lists

LEMMA IndexedMore ==
  ASSUME NEW f \in [Keys -> Seq(Elements)], NEW L \in SUBSET Elements, Indexed(f, L),
         NEW x \in Elements, x \notin L
  PROVE  /\ [f EXCEPT ![x.key] = Append(f[x.key], x)] \in [Keys -> Seq(Elements)]
         /\ Indexed([f EXCEPT ![x.key] = Append(f[x.key], x)], L \cup {x})
<1>1. PICK k \in Keys : k = x.key
      BY ElementKey
<1>2. PICK s \in Seq(Elements), t \in Seq(Elements) : s = f[k] /\ t = Append(s, x)
  <2>1. PICK s \in Seq(Elements) : s = f[k]
        OBVIOUS
  <2>2. Append(s, x) \in Seq(Elements)
        BY Appended
  <2>3. QED  BY <2>1, <2>2
<1>3. PICK g \in [Keys -> Seq(Elements)] : g = [f EXCEPT ![k] = t]
  <2>1. [f EXCEPT ![k] = t] \in [Keys -> Seq(Elements)]
        OBVIOUS
  <2>2. QED  BY <2>1
<1>4. ASSUME NEW j \in Keys PROVE Once(g[j], {y \in L \cup {x} : y.key = j})
  <2>1. Once(f[j], {y \in L : y.key = j})
        BY DEF Indexed
  <2>2. CASE j = k
    <3>1. PICK S : S = {y \in L : y.key = k} /\ Once(s, S)
          BY <1>2, <2>1, <2>2
    <3>2. x \notin S /\ {y \in L \cup {x} : y.key = k} = S \cup {x}
          BY <1>1, <3>1
    <3>3. Once(t, S \cup {x})
          BY <1>2, <3>1, <3>2, OnceAppend
    <3>4. QED  BY <1>3, <2>2, <3>2, <3>3
  <2>3. CASE j # k
    <3>1. {y \in L \cup {x} : y.key = j} = {y \in L : y.key = j} /\ g[j] = f[j]
          BY <1>1, <1>3, <2>3
    <3>2. QED  BY <2>1, <3>1
  <2>4. QED  BY <2>2, <2>3
<1>5. Indexed(g, L \cup {x})
      BY <1>4 DEF Indexed
<1>6. QED  BY <1>1, <1>2, <1>3, <1>5

LEMMA MatchingMore ==
  ASSUME NEW L \in SUBSET Elements, NEW R \in SUBSET Elements, NEW x \in Elements
  PROVE  /\ Matching(L \cup {x}, R) = Matching(L, R) \cup Matching({x}, R)
         /\ Matching(L, R \cup {x}) = Matching(L, R) \cup Matching(L, {x})
         /\ x \notin L => Matching(L, R) \cap Matching({x}, R) = {}
         /\ x \notin R => Matching(L, R) \cap Matching(L, {x}) = {}
  BY DEF Matching

LEMMA PairsLeftOnce ==
  ASSUME NEW maps \in Maps, NEW R \in SUBSET Elements, Indexed(maps.right_map_, R), NEW x \in Elements
  PROVE  PairsLeft(maps, x) \in Seq(Pairs) /\ Once(PairsLeft(maps, x), Matching({x}, R))
<1>1. PICK k \in Keys : k = x.key
      BY ElementKey
<1>2. PICK s \in Seq(Elements), l \in Nat : s = maps.right_map_[k] /\ l = Len(s) /\ DOMAIN s = 1..l
  <2>1. maps.right_map_ \in [Keys -> Seq(Elements)]
        BY DEF Maps
  <2>2. PICK s \in Seq(Elements) : s = maps.right_map_[k]
        BY <2>1
  <2>3. Len(s) \in Nat /\ DOMAIN s = 1..Len(s)
        OBVIOUS
  <2>4. QED  BY <2>2, <2>3
<1>3. Once(s, {y \in R : y.key = k})
      BY <1>2 DEF Indexed
<1>4. PICK p : p = [i \in 1..l |-> <<x, s[i]>>]
      OBVIOUS
<1>5. PairsLeft(maps, x) = p
      BY <1>1, <1>2, <1>4 DEF PairsLeft
<1>6. \A i \in 1..l : s[i] \in Elements
      BY <1>2, ElementOfSeq
<1>7. p \in Seq(Pairs) /\ Len(p) = l
  <2>1. \A i \in 1..l : <<x, s[i]>> \in Pairs
        BY <1>6 DEF Pairs
  <2>2. QED  BY <1>4, <2>1
<1>8. \A i, j \in 1..l : p[i] = p[j] => i = j
  <2>1. \A i, j \in 1..l : s[i] = s[j] => i = j
        BY <1>2, <1>3 DEF Once, Distinct
  <2>2. QED  BY <1>4, <2>1
<1>9. \A i \in 1..l : p[i] \in Matching({x}, R)
  <2>1. \A i \in 1..l : s[i] \in R /\ s[i].key = k
        BY <1>2, <1>3 DEF Once
  <2>2. QED  BY <1>1, <1>4, <2>1 DEF Matching
<1>10. ASSUME NEW y \in Matching({x}, R) PROVE \E i \in 1..l : p[i] = y
  <2>1. PICK z \in R : y = <<x, z>> /\ z.key = k
        BY <1>1 DEF Matching
  <2>2. PICK i \in 1..l : s[i] = z
        BY <1>2, <1>3, <2>1 DEF Once
  <2>3. QED  BY <1>4, <2>1, <2>2
<1>11. Once(p, Matching({x}, R))
      BY <1>7, <1>8, <1>9, <1>10 DEF Once, Distinct
<1>12. QED  BY <1>5, <1>7, <1>11

LEMMA PairsRightOnce ==
  ASSUME NEW maps \in Maps, NEW L \in SUBSET Elements, Indexed(maps.left_map_, L), NEW x \in Elements
  PROVE  PairsRight(maps, x) \in Seq(Pairs) /\ Once(PairsRight(maps, x), Matching(L, {x}))
<1>1. PICK k \in Keys : k = x.key
      BY ElementKey
<1>2. PICK s \in Seq(Elements), l \in Nat : s = maps.left_map_[k] /\ l = Len(s) /\ DOMAIN s = 1..l
  <2>1. maps.left_map_ \in [Keys -> Seq(Elements)]
        BY DEF Maps
  <2>2. PICK s \in Seq(Elements) : s = maps.left_map_[k]
        BY <2>1
  <2>3. Len(s) \in Nat /\ DOMAIN s = 1..Len(s)
        OBVIOUS
  <2>4. QED  BY <2>2, <2>3
<1>3. Once(s, {y \in L : y.key = k})
      BY <1>2 DEF Indexed
<1>4. PICK p : p = [i \in 1..l |-> <<s[i], x>>]
      OBVIOUS
<1>5. PairsRight(maps, x) = p
      BY <1>1, <1>2, <1>4 DEF PairsRight
<1>6. \A i \in 1..l : s[i] \in Elements
      BY <1>2, ElementOfSeq
<1>7. p \in Seq(Pairs) /\ Len(p) = l
  <2>1. \A i \in 1..l : <<s[i], x>> \in Pairs
        BY <1>6 DEF Pairs
  <2>2. QED  BY <1>4, <2>1
<1>8. \A i, j \in 1..l : p[i] = p[j] => i = j
  <2>1. \A i, j \in 1..l : s[i] = s[j] => i = j
        BY <1>2, <1>3 DEF Once, Distinct
  <2>2. QED  BY <1>4, <2>1
<1>9. \A i \in 1..l : p[i] \in Matching(L, {x})
  <2>1. \A i \in 1..l : s[i] \in L /\ s[i].key = k
        BY <1>2, <1>3 DEF Once
  <2>2. QED  BY <1>1, <1>4, <2>1 DEF Matching
<1>10. ASSUME NEW y \in Matching(L, {x}) PROVE \E i \in 1..l : p[i] = y
  <2>1. PICK z \in L : y = <<z, x>> /\ z.key = k
        BY <1>1 DEF Matching
  <2>2. PICK i \in 1..l : s[i] = z
        BY <1>2, <1>3, <2>1 DEF Once
  <2>3. QED  BY <1>4, <2>1, <2>2
<1>11. Once(p, Matching(L, {x}))
      BY <1>7, <1>8, <1>9, <1>10 DEF Once, Distinct
<1>12. QED  BY <1>5, <1>7, <1>11

LEMMA MapsExcept ==
  ASSUME NEW f, NEW g, NEW k, NEW t, NEW maps, maps = [left_map_ |-> f, right_map_ |-> g]
  PROVE  /\ [maps EXCEPT !.left_map_[k] = t] = [left_map_ |-> [f EXCEPT ![k] = t], right_map_ |-> g]
         /\ [maps EXCEPT !.right_map_[k] = t] = [left_map_ |-> f, right_map_ |-> [g EXCEPT ![k] = t]]
<1>1. maps.left_map_ = f /\ maps.right_map_ = g
      OBVIOUS
<1>2. [maps EXCEPT !.left_map_[k] = t] = [maps EXCEPT !.left_map_ = [f EXCEPT ![k] = t]]
      BY <1>1
<1>3. [maps EXCEPT !.right_map_[k] = t] = [maps EXCEPT !.right_map_ = [g EXCEPT ![k] = t]]
      BY <1>1
<1>4. PICK d, e : d = [f EXCEPT ![k] = t] /\ e = [g EXCEPT ![k] = t]
      OBVIOUS
<1>5. [maps EXCEPT !.left_map_ = d] = [left_map_ |-> d, right_map_ |-> g]
      OBVIOUS
<1>6. [maps EXCEPT !.right_map_ = e] = [left_map_ |-> f, right_map_ |-> e]
      OBVIOUS
<1>7. QED  BY <1>2, <1>3, <1>4, <1>5, <1>6

(* What joining an element of one side does to the maps and puts out.        *)
LEMMA Joined ==
  ASSUME NEW maps \in Maps, NEW L \in SUBSET Elements, NEW R \in SUBSET Elements,
         Indexed(maps.left_map_, L), Indexed(maps.right_map_, R), NEW x \in Elements
  PROVE  /\ x \notin L =>
              \E new \in Maps, out \in Seq(Pairs) :
                /\ push_left(maps, x) = Result(new, out)
                /\ Indexed(new.left_map_, L \cup {x}) /\ Indexed(new.right_map_, R)
                /\ Once(out, Matching({x}, R))
         /\ x \notin R =>
              \E new \in Maps, out \in Seq(Pairs) :
                /\ push_right(maps, x) = Result(new, out)
                /\ Indexed(new.left_map_, L) /\ Indexed(new.right_map_, R \cup {x})
                /\ Once(out, Matching(L, {x}))
<1>1. PICK f \in [Keys -> Seq(Elements)], g \in [Keys -> Seq(Elements)] :
        maps = [left_map_ |-> f, right_map_ |-> g]
      BY DEF Maps
<1>2. maps.left_map_ = f /\ maps.right_map_ = g
      BY <1>1
<1>3. x.key \in Keys
      BY ElementKey
<1>4. ASSUME x \notin L
      PROVE  \E new \in Maps, out \in Seq(Pairs) :
               /\ push_left(maps, x) = Result(new, out)
               /\ Indexed(new.left_map_, L \cup {x}) /\ Indexed(new.right_map_, R)
               /\ Once(out, Matching({x}, R))
  <2>1. PICK e \in [Keys -> Seq(Elements)] :
          e = [f EXCEPT ![x.key] = Append(f[x.key], x)] /\ Indexed(e, L \cup {x})
        BY <1>2, <1>4, IndexedMore
  <2>2. PICK new \in Maps : new = [left_map_ |-> e, right_map_ |-> g]
        BY DEF Maps
  <2>3. PICK out \in Seq(Pairs) : out = PairsLeft(maps, x) /\ Once(out, Matching({x}, R))
        BY PairsLeftOnce
  <2>4. [maps EXCEPT !.left_map_[x.key] = Append(@, x)] = new
    <3>1. PICK k, t : k = x.key /\ t = Append(f[k], x)
          OBVIOUS
    <3>2. [maps EXCEPT !.left_map_[x.key] = Append(@, x)] = [maps EXCEPT !.left_map_[k] = t]
          BY <1>2, <3>1
    <3>3. [maps EXCEPT !.left_map_[k] = t] = [left_map_ |-> [f EXCEPT ![k] = t], right_map_ |-> g]
          BY <1>1
    <3>4. QED  BY <2>1, <2>2, <3>1, <3>2, <3>3
  <2>5. push_left(maps, x) = Result(new, out)
        BY <2>3, <2>4 DEF push_left
  <2>6. new.left_map_ = e /\ new.right_map_ = g
        BY <2>2
  <2>7. QED  BY <1>2, <2>1, <2>3, <2>5, <2>6
<1>5. ASSUME x \notin R
      PROVE  \E new \in Maps, out \in Seq(Pairs) :
               /\ push_right(maps, x) = Result(new, out)
               /\ Indexed(new.left_map_, L) /\ Indexed(new.right_map_, R \cup {x})
               /\ Once(out, Matching(L, {x}))
  <2>1. PICK e \in [Keys -> Seq(Elements)] :
          e = [g EXCEPT ![x.key] = Append(g[x.key], x)] /\ Indexed(e, R \cup {x})
        BY <1>2, <1>5, IndexedMore
  <2>2. PICK new \in Maps : new = [left_map_ |-> f, right_map_ |-> e]
        BY DEF Maps
  <2>3. PICK out \in Seq(Pairs) : out = PairsRight(maps, x) /\ Once(out, Matching(L, {x}))
        BY PairsRightOnce
  <2>4. [maps EXCEPT !.right_map_[x.key] = Append(@, x)] = new
    <3>1. PICK k, t : k = x.key /\ t = Append(g[k], x)
          OBVIOUS
    <3>2. [maps EXCEPT !.right_map_[x.key] = Append(@, x)] = [maps EXCEPT !.right_map_[k] = t]
          BY <1>2, <3>1
    <3>3. [maps EXCEPT !.right_map_[k] = t] = [left_map_ |-> f, right_map_ |-> [g EXCEPT ![k] = t]]
          BY <1>1, MapsExcept
    <3>4. QED  BY <2>1, <2>2, <3>1, <3>2, <3>3
  <2>5. push_right(maps, x) = Result(new, out)
        BY <2>3, <2>4 DEF push_right
  <2>6. new.left_map_ = f /\ new.right_map_ = e
        BY <2>2
  <2>7. QED  BY <1>2, <2>1, <2>3, <2>5, <2>6
<1>6. QED  BY <1>4, <1>5

LEMMA SettledPop ==
  ASSUME NEW out \in Seq(Pairs), NEW buf \in Seq(Pairs), NEW S, Settled(out, buf, S),
         NEW n \in Nat, n = Len(buf), n # 0
  PROVE  /\ buf[n] \in Pairs /\ SubSeq(buf, 1, n - 1) \in Seq(Pairs)
         /\ Settled(Append(out, buf[n]), SubSeq(buf, 1, n - 1), S)
<1>1. PICK G, B : Once(out, G) /\ Once(buf, B) /\ G \cap B = {} /\ G \cup B = S
      BY DEF Settled
<1>2. PICK x \in Pairs : x = buf[n]
      BY ElementOfSeq
<1>3. PICK k \in Nat, b \in Seq(Pairs) :
        n = k + 1 /\ b = SubSeq(buf, 1, n - 1) /\ Len(b) = k /\ \A i \in 1..k : b[i] = buf[i]
  <2>1. PICK k \in Nat : n = k + 1 /\ n - 1 = k
    <3>1. n - 1 \in Nat /\ n = (n - 1) + 1
          OBVIOUS
    <3>2. QED  BY <3>1
  <2>2. \A i \in 1..k : i \in 1..Len(buf)
        BY <2>1
  <2>3. PICK b \in Seq(Pairs) : b = SubSeq(buf, 1, k)
    <3>1. \A i \in 1..k : buf[i] \in Pairs
          BY <2>2, ElementOfSeq
    <3>2. PICK y \in Int, z \in Int : y = 1 /\ z = k
          OBVIOUS
    <3>3. \A i \in y..z : buf[i] \in Pairs
          BY <3>1, <3>2
    <3>4. SubSeq(buf, y, z) \in Seq(Pairs)
          BY <3>3, SubSeqProperties
    <3>5. QED  BY <3>2, <3>4
  <2>4. Len(b) = k /\ \A i \in 1..k : b[i] = buf[i]
        BY <2>1, <2>2, <2>3
  <2>5. QED  BY <2>1, <2>3, <2>4
<1>4. \A i \in 1..(k + 1) : i \in 1..k \/ i = k + 1
      BY AtEnd
<1>5. k + 1 \in 1..(k + 1) /\ k + 1 \notin 1..k /\ \A i \in 1..k : i \in 1..(k + 1)
      OBVIOUS
<1>6. x \in B /\ Distinct(buf) /\ \A i \in 1..(k + 1) : buf[i] \in B
      BY <1>1, <1>2, <1>3, <1>5 DEF Once
<1>7. \A i \in 1..k : buf[i] # x
      BY <1>2, <1>3, <1>5, <1>6 DEF Distinct
<1>8. Once(b, B \ {x})
  <2>1. Distinct(b)
        BY <1>3, <1>5, <1>6 DEF Distinct
  <2>2. \A i \in 1..k : b[i] \in B \ {x}
        BY <1>3, <1>5, <1>6, <1>7
  <2>3. ASSUME NEW y \in B \ {x} PROVE \E i \in 1..k : b[i] = y
    <3>1. PICK i \in 1..(k + 1) : buf[i] = y
          BY <1>1, <1>3 DEF Once
    <3>2. QED  BY <1>2, <1>3, <1>4, <3>1
  <2>4. QED  BY <1>3, <2>1, <2>2, <2>3 DEF Once
<1>9. Once(Append(out, x), G \cup {x})
      BY <1>1, <1>6, OnceAppend
<1>10. (G \cup {x}) \cap (B \ {x}) = {} /\ (G \cup {x}) \cup (B \ {x}) = S
      BY <1>1, <1>6
<1>11. Settled(Append(out, x), b, S)
      BY <1>8, <1>9, <1>10 DEF Settled
<1>12. QED  BY <1>2, <1>3, <1>11

LEMMA SettledMore ==
  ASSUME NEW out \in Seq(Pairs), NEW S, Settled(out, << >>, S),
         NEW buf \in Seq(Pairs), NEW N, Once(buf, N), S \cap N = {}
  PROVE  Settled(out, buf, S \cup N)
<1>1. PICK G, B : Once(out, G) /\ Once(<< >>, B) /\ G \cap B = {} /\ G \cup B = S
      BY DEF Settled
<1>2. B = {}
  <2>1. Len(<< >>) = 0 /\ 1..0 = {}
        OBVIOUS
  <2>2. QED  BY <1>1, <2>1 DEF Once
<1>3. G = S
      BY <1>1, <1>2
<1>4. QED  BY <1>1, <1>3 DEF Settled

(* Taking the last one from the buffer, if there is one.                     *)
Rest(buf) == IF Len(buf) = 0 THEN buf ELSE SubSeq(buf, 1, Len(buf) - 1)
Last_(buf) == IF Len(buf) = 0 THEN None ELSE buf[Len(buf)]
Returned(out, o) == IF o = None THEN out ELSE Append(out, o)

LEMMA PopBackSettled ==
  ASSUME NEW maps, NEW turn, NEW buf \in Seq(Pairs),
         NEW out \in Seq(Pairs), NEW S, Settled(out, buf, S)
  PROVE  /\ PopBack([maps |-> maps, pull_left |-> turn, buf_ |-> buf])
              = Result([maps |-> maps, pull_left |-> turn, buf_ |-> Rest(buf)], Last_(buf))
         /\ Rest(buf) \in Seq(Pairs) /\ Last_(buf) \in Pairs \cup {None}
         /\ Returned(out, Last_(buf)) \in Seq(Pairs)
         /\ Settled(Returned(out, Last_(buf)), Rest(buf), S)
<1>1. PICK s : s = [maps |-> maps, pull_left |-> turn, buf_ |-> buf]
      OBVIOUS
<1>2. s.buf_ = buf
      BY <1>1
<1>3. PICK n \in Nat : n = Len(buf)
      OBVIOUS
<1>4. CASE n = 0
  <2>1. PopBack(s) = Result(s, None)
        BY <1>2, <1>3, <1>4 DEF PopBack
  <2>2. Rest(buf) = buf /\ Last_(buf) = None /\ Returned(out, None) = out
        BY <1>3, <1>4 DEF Rest, Last_, Returned
  <2>3. QED  BY <1>1, <2>1, <2>2
<1>5. CASE n # 0
  <2>1. PICK o \in Pairs, b \in Seq(Pairs) : o = buf[n] /\ b = SubSeq(buf, 1, n - 1) /\ Settled(Append(out, o), b, S)
        BY <1>3, <1>5, SettledPop
  <2>2. PopBack(s) = Result([s EXCEPT !.buf_ = SubSeq(@, 1, n - 1)], buf[n])
        BY <1>2, <1>3, <1>5 DEF PopBack
  <2>3. [s EXCEPT !.buf_ = SubSeq(@, 1, n - 1)] = [s EXCEPT !.buf_ = b]
        BY <1>2, <2>1
  <2>4. [s EXCEPT !.buf_ = b] = [maps |-> maps, pull_left |-> turn, buf_ |-> b]
        BY <1>1
  <2>5. PopBack(s) = Result([maps |-> maps, pull_left |-> turn, buf_ |-> b], o)
        BY <2>1, <2>2, <2>3, <2>4
  <2>6. o # None
        BY NoneAssumption DEF Pairs
  <2>7. PICK new \in Seq(Pairs) : new = Append(out, o)
        BY Appended
  <2>8. Rest(buf) = b /\ Last_(buf) = o /\ Returned(out, o) = new
        BY <1>3, <1>5, <2>1, <2>6, <2>7 DEF Rest, Last_, Returned
  <2>9. QED  BY <1>1, <2>1, <2>5, <2>7, <2>8
<1>6. QED  BY <1>4, <1>5

LEMMA JoinNetParts ==
  ASSUME NEW r
  PROVE  r \in JoinNet <=>
           \E push \in Maps, left \in Seq(Elements), right \in Seq(Elements), pull \in PullState :
             r = [push |-> push, left |-> left, right |-> right, pull |-> pull]
  BY DEF JoinNet

LEMMA PullStateParts ==
  ASSUME NEW r
  PROVE  r \in PullState <=>
           \E maps \in Maps, turn \in BOOLEAN, buf \in Seq(Pairs) :
             r = [maps |-> maps, pull_left |-> turn, buf_ |-> buf]
  BY DEF PullState

LEMMA PullStateFields ==
  ASSUME NEW r \in PullState
  PROVE  /\ r = [maps |-> r.maps, pull_left |-> r.pull_left, buf_ |-> r.buf_]
         /\ r.maps \in Maps /\ r.buf_ \in Seq(Pairs) /\ (r.pull_left = TRUE \/ r.pull_left = FALSE)
  BY DEF PullState

LEMMA DistinctAppend ==
  ASSUME NEW s \in Seq(Elements), Distinct(s), NEW x \in Elements, x \notin ToSet(s)
  PROVE  Distinct(Append(s, x))
<1>1. Once(s, ToSet(s))
  <2>1. \A y : y \in ToSet(s) <=> \E i \in 1..Len(s) : s[i] = y
        BY ToSetFacts
  <2>2. QED  BY <2>1 DEF Once
<1>2. Once(Append(s, x), ToSet(s) \cup {x})
      BY <1>1, OnceAppend
<1>3. QED  BY <1>2 DEF Once

LEMMA ElementsMoved ==
  \A s, t \in Seq(Elements) : t # << >> => Append(s, Head(t)) \o Tail(t) = s \o t
  OBVIOUS

(* What comes after p in a sequence without repetitions is not in p.         *)
LEMMA DistinctNext ==
  ASSUME NEW p \in Seq(Elements), NEW q \in Seq(Elements), q # << >>, Distinct(p \o q)
  PROVE  /\ Head(q) \in Elements /\ Tail(q) \in Seq(Elements) /\ Append(p, Head(q)) \in Seq(Elements)
         /\ Append(p, Head(q)) \o Tail(q) = p \o q
         /\ Head(q) \notin ToSet(p)
<1>1. PICK x \in Elements, t \in Seq(Elements) : x = Head(q) /\ t = Tail(q) /\ x = q[1]
  <2>1. PICK x \in Elements : x = Head(q)
        BY HeadTailProperties
  <2>2. PICK t \in Seq(Elements) : t = Tail(q)
        BY HeadTailProperties
  <2>3. Head(q) = q[1]
        OBVIOUS
  <2>4. QED  BY <2>1, <2>2, <2>3
<1>2. PICK l \in Nat, k \in Nat : l = Len(p) /\ k = Len(q) /\ k # 0
  <2>1. Len(p) \in Nat /\ Len(q) \in Nat /\ Len(q) # 0
        BY EmptySeq
  <2>2. QED  BY <2>1
<1>3. PICK u \in Seq(Elements) : u = p \o q
      BY ConcatProperties
<1>4. Len(u) = l + k /\ u[l + 1] = x /\ \A i \in 1..l : u[i] = p[i]
  <2>1. l + 1 \in 1..(l + k) /\ (l + 1) - l = 1 /\ ~(l + 1 <= l) /\ \A i \in 1..l : i \in 1..(l + k) /\ i <= l
        BY <1>2
  <2>2. /\ Len(u) = l + k
        /\ \A i \in 1..(l + k) : u[i] = IF i <= l THEN p[i] ELSE q[i - l]
        BY <1>2, <1>3, ConcatProperties
  <2>3. QED  BY <1>1, <2>1, <2>2
<1>5. ASSUME x \in ToSet(p) PROVE FALSE
  <2>1. PICK i \in 1..l : p[i] = x
        BY <1>2, <1>5, ToSetFacts
  <2>2. i \in 1..(l + k) /\ l + 1 \in 1..(l + k) /\ i # l + 1
        BY <1>2
  <2>3. QED  BY <1>3, <1>4, <2>1, <2>2 DEF Distinct
<1>6. PICK a \in Seq(Elements) : a = Append(p, x)
      BY Appended
<1>7. a \o t = p \o q
  <2>1. Append(p, Head(q)) \o Tail(q) = p \o q
        BY ElementsMoved
  <2>2. QED  BY <1>1, <1>6, <2>1
<1>8. QED  BY <1>1, <1>5, <1>6, <1>7

LEMMA ElementsAppended ==
  \A s, t \in Seq(Elements) : \A x \in Elements : Append(s \o t, x) = s \o Append(t, x)
  OBVIOUS

(* The invariant in the next state, with the inputs in it.                   *)
LEMMA JoinInvAfter ==
  ASSUME net' \in JoinNet, sink' \in Seq(Pairs), got' \in Seq(Pairs),
         \A side \in {"left", "right"} :
           Distinct(Inputs(side)') /\ \A x \in ToSet(Inputs(side)') : x.id <= Len(input'),
         Indexed(net'.push.left_map_, ToSet(Inputs("left")')),
         Indexed(net'.push.right_map_, ToSet(Inputs("right")')),
         Once(sink', Matching(ToSet(Inputs("left")'), ToSet(Inputs("right")'))),
         \E pl, pr \in Seq(Elements) :
           /\ Inputs("left")' = pl \o net'.left /\ Inputs("right")' = pr \o net'.right
           /\ Len(pl) = Len(pr) + (IF net'.pull.pull_left THEN 0 ELSE 1)
           /\ Indexed(net'.pull.maps.left_map_, ToSet(pl))
           /\ Indexed(net'.pull.maps.right_map_, ToSet(pr))
           /\ Settled(got', net'.pull.buf_, Matching(ToSet(pl), ToSet(pr)))
  PROVE  JoinInv'
  BY DEF JoinInv

LEMMA JoinPushLeft ==
  ASSUME input \in Seq(Fed), JoinInv, PushJoin("left")
  PROVE  JoinInv'
<1>1. PICK i \in Feed("left") :
        /\ net' = [net EXCEPT !.push = push_left(net.push, i.x).state, !["left"] = QueuePush(@, i.x)]
        /\ sink' = sink \o push_left(net.push, i.x).out
        /\ Pushed(i)
      BY DEF PushJoin
<1>2. PICK x : x = i.x
      OBVIOUS
<1>3. /\ x \in Elements /\ Inputs("left")' = Append(Inputs("left"), x) /\ Inputs("right")' = Inputs("right")
      /\ x.id = Len(input) + 1 /\ Len(input') = Len(input) + 1
      BY <1>1, <1>2, InputsPushed DEF Sides
<1>4. kind = "join" /\ kind' = "join" /\ got' = got
      BY <1>1 DEF PushJoin, Pushed
<1>5. PICK push \in Maps, left \in Seq(Elements), right \in Seq(Elements), pull \in PullState :
        net = [push |-> push, left |-> left, right |-> right, pull |-> pull]
      BY <1>4, JoinNetParts DEF JoinInv
<1>6. net.push = push /\ net.left = left /\ net.right = right /\ net.pull = pull
      BY <1>5
<1>7. PICK L \in Seq(Elements), R \in Seq(Elements) : L = Inputs("left") /\ R = Inputs("right")
      BY InputsType DEF Sides
<1>8. /\ sink \in Seq(Pairs) /\ got \in Seq(Pairs) /\ Distinct(L) /\ Distinct(R)
      /\ \A y \in ToSet(L) \cup ToSet(R) : y.id <= Len(input)
      /\ Indexed(push.left_map_, ToSet(L)) /\ Indexed(push.right_map_, ToSet(R))
      /\ Once(sink, Matching(ToSet(L), ToSet(R)))
      BY <1>4, <1>6, <1>7 DEF JoinInv
<1>9. PICK pl \in Seq(Elements), pr \in Seq(Elements) :
        /\ L = pl \o left /\ R = pr \o right
        /\ Len(pl) = Len(pr) + (IF pull.pull_left THEN 0 ELSE 1)
        /\ Indexed(pull.maps.left_map_, ToSet(pl)) /\ Indexed(pull.maps.right_map_, ToSet(pr))
        /\ Settled(got, pull.buf_, Matching(ToSet(pl), ToSet(pr)))
      BY <1>4, <1>6, <1>7 DEF JoinInv
<1>10. PICK n \in Nat : n = Len(input)
      OBVIOUS
<1>11. ToSet(L) \in SUBSET Elements /\ ToSet(R) \in SUBSET Elements
      BY ToSetFacts
<1>12. x \notin ToSet(L)
  <2>1. ~(n + 1 <= n)
        OBVIOUS
  <2>2. QED  BY <1>3, <1>8, <1>10, <2>1
<1>13. PICK new \in Maps, out \in Seq(Pairs) :
        /\ push_left(push, x) = Result(new, out)
        /\ Indexed(new.left_map_, ToSet(L) \cup {x}) /\ Indexed(new.right_map_, ToSet(R))
        /\ Once(out, Matching({x}, ToSet(R)))
      BY <1>8, <1>11, <1>12, <1>3, Joined
<1>14. push_left(push, x).state = new /\ push_left(push, x).out = out
      BY <1>13 DEF Result
<1>15. PICK M \in Seq(Elements), q \in Seq(Elements) :
        M = Append(L, x) /\ q = Append(left, x) /\ ToSet(M) = ToSet(L) \cup {x} /\ Distinct(M)
  <2>1. PICK M \in Seq(Elements) : M = Append(L, x)
        BY <1>3, Appended
  <2>2. PICK q \in Seq(Elements) : q = Append(left, x)
        BY <1>3, Appended
  <2>3. ToSet(M) = ToSet(L) \cup {x}
        BY <1>3, <2>1, ToSetFacts
  <2>4. Distinct(M)
        BY <1>3, <1>8, <1>12, <2>1, DistinctAppend
  <2>5. QED  BY <2>1, <2>2, <2>3, <2>4
<1>16. net' = [push |-> new, left |-> q, right |-> right, pull |-> pull]
  <2>1. net' = [net EXCEPT !.push = new, !.left = q]
        BY <1>1, <1>2, <1>6, <1>14, <1>15 DEF QueuePush
  <2>2. QED  BY <1>5, <2>1
<1>17. Inputs("left")' = M /\ Inputs("right")' = R /\ M = pl \o q
  <2>1. M = pl \o q
    <3>1. Append(pl \o left, x) = pl \o Append(left, x)
          BY <1>3, ElementsAppended
    <3>2. QED  BY <1>9, <1>15, <3>1
  <2>2. QED  BY <1>3, <1>7, <1>15, <2>1
<1>18. \A y \in ToSet(M) \cup ToSet(R) : y.id <= Len(input')
  <2>1. ASSUME NEW y \in ToSet(L) \cup ToSet(R) PROVE y.id <= n + 1
    <3>1. y.id \in Int /\ y.id <= n
          BY <1>8, <1>10, <1>11 DEF Elements
    <3>2. QED  BY <3>1
  <2>2. x.id <= n + 1
        BY <1>3, <1>10
  <2>3. QED  BY <1>3, <1>10, <1>15, <2>1, <2>2
<1>19. sink' = sink \o out /\ sink \o out \in Seq(Pairs)
       /\ Once(sink \o out, Matching(ToSet(M), ToSet(R)))
  <2>1. sink' = sink \o out
        BY <1>1, <1>2, <1>6, <1>14
  <2>2. sink \o out \in Seq(Pairs)
        BY <1>8, ConcatProperties
  <2>3. /\ Matching(ToSet(L) \cup {x}, ToSet(R)) = Matching(ToSet(L), ToSet(R)) \cup Matching({x}, ToSet(R))
        /\ Matching(ToSet(L), ToSet(R)) \cap Matching({x}, ToSet(R)) = {}
    <3>1. PICK A \in SUBSET Elements, B \in SUBSET Elements : A = ToSet(L) /\ B = ToSet(R)
          BY <1>11
    <3>2. x \notin A
          BY <1>12, <3>1
    <3>3. Matching(A \cup {x}, B) = Matching(A, B) \cup Matching({x}, B)
          BY <1>3, MatchingMore
    <3>4. Matching(A, B) \cap Matching({x}, B) = {}
          BY <1>3, <3>2, MatchingMore
    <3>5. QED  BY <3>1, <3>3, <3>4
  <2>4. Once(sink \o out, Matching(ToSet(L), ToSet(R)) \cup Matching({x}, ToSet(R)))
    <3>1. PICK A, B : A = Matching(ToSet(L), ToSet(R)) /\ B = Matching({x}, ToSet(R))
          OBVIOUS
    <3>2. Once(sink, A) /\ Once(out, B) /\ A \cap B = {} /\ sink \in Seq(Pairs)
          BY <1>8, <1>13, <2>3, <3>1
    <3>3. Once(sink \o out, A \cup B)
          BY <3>2, OnceConcat
    <3>4. QED  BY <3>1, <3>3
  <2>5. QED  BY <1>15, <2>1, <2>2, <2>3, <2>4
<1>20. /\ net' \in JoinNet
       /\ net'.push = new /\ net'.left = q /\ net'.right = right /\ net'.pull = pull
      BY <1>16, JoinNetParts
<1>21. /\ Indexed(net'.push.left_map_, ToSet(Inputs("left")')) /\ Indexed(net'.push.right_map_, ToSet(Inputs("right")'))
       /\ Once(sink', Matching(ToSet(Inputs("left")'), ToSet(Inputs("right")')))
      BY <1>13, <1>15, <1>17, <1>19, <1>20
<1>22. \A side \in {"left", "right"} :
         Distinct(Inputs(side)') /\ \A y \in ToSet(Inputs(side)') : y.id <= Len(input')
      BY <1>8, <1>15, <1>17, <1>18
<1>23. \E a, b \in Seq(Elements) :
         /\ Inputs("left")' = a \o net'.left /\ Inputs("right")' = b \o net'.right
         /\ Len(a) = Len(b) + (IF net'.pull.pull_left THEN 0 ELSE 1)
         /\ Indexed(net'.pull.maps.left_map_, ToSet(a))
         /\ Indexed(net'.pull.maps.right_map_, ToSet(b))
         /\ Settled(got', net'.pull.buf_, Matching(ToSet(a), ToSet(b)))
      BY <1>4, <1>9, <1>17, <1>20
<1>24. net' \in JoinNet /\ sink' \in Seq(Pairs) /\ got' \in Seq(Pairs)
      BY <1>4, <1>8, <1>19, <1>20
<1>25. QED  BY <1>21, <1>22, <1>23, <1>24, JoinInvAfter

LEMMA JoinPushRight ==
  ASSUME input \in Seq(Fed), JoinInv, PushJoin("right")
  PROVE  JoinInv'
<1>1. PICK i \in Feed("right") :
        /\ net' = [net EXCEPT !.push = push_right(net.push, i.x).state, !["right"] = QueuePush(@, i.x)]
        /\ sink' = sink \o push_right(net.push, i.x).out
        /\ Pushed(i)
      BY DEF PushJoin
<1>2. PICK x : x = i.x
      OBVIOUS
<1>3. /\ x \in Elements /\ Inputs("right")' = Append(Inputs("right"), x) /\ Inputs("left")' = Inputs("left")
      /\ x.id = Len(input) + 1 /\ Len(input') = Len(input) + 1
      BY <1>1, <1>2, InputsPushed DEF Sides
<1>4. kind = "join" /\ kind' = "join" /\ got' = got
      BY <1>1 DEF PushJoin, Pushed
<1>5. PICK push \in Maps, left \in Seq(Elements), right \in Seq(Elements), pull \in PullState :
        net = [push |-> push, left |-> left, right |-> right, pull |-> pull]
      BY <1>4, JoinNetParts DEF JoinInv
<1>6. net.push = push /\ net.left = left /\ net.right = right /\ net.pull = pull
      BY <1>5
<1>7. PICK L \in Seq(Elements), R \in Seq(Elements) : L = Inputs("left") /\ R = Inputs("right")
      BY InputsType DEF Sides
<1>8. /\ sink \in Seq(Pairs) /\ got \in Seq(Pairs) /\ Distinct(L) /\ Distinct(R)
      /\ \A y \in ToSet(L) \cup ToSet(R) : y.id <= Len(input)
      /\ Indexed(push.left_map_, ToSet(L)) /\ Indexed(push.right_map_, ToSet(R))
      /\ Once(sink, Matching(ToSet(L), ToSet(R)))
      BY <1>4, <1>6, <1>7 DEF JoinInv
<1>9. PICK pl \in Seq(Elements), pr \in Seq(Elements) :
        /\ L = pl \o left /\ R = pr \o right
        /\ Len(pl) = Len(pr) + (IF pull.pull_left THEN 0 ELSE 1)
        /\ Indexed(pull.maps.left_map_, ToSet(pl)) /\ Indexed(pull.maps.right_map_, ToSet(pr))
        /\ Settled(got, pull.buf_, Matching(ToSet(pl), ToSet(pr)))
      BY <1>4, <1>6, <1>7 DEF JoinInv
<1>10. PICK n \in Nat : n = Len(input)
      OBVIOUS
<1>11. ToSet(L) \in SUBSET Elements /\ ToSet(R) \in SUBSET Elements
      BY ToSetFacts
<1>12. x \notin ToSet(R)
  <2>1. ~(n + 1 <= n)
        OBVIOUS
  <2>2. QED  BY <1>3, <1>8, <1>10, <2>1
<1>13. PICK new \in Maps, out \in Seq(Pairs) :
        /\ push_right(push, x) = Result(new, out)
        /\ Indexed(new.left_map_, ToSet(L)) /\ Indexed(new.right_map_, ToSet(R) \cup {x})
        /\ Once(out, Matching(ToSet(L), {x}))
      BY <1>8, <1>11, <1>12, <1>3, Joined
<1>14. push_right(push, x).state = new /\ push_right(push, x).out = out
      BY <1>13 DEF Result
<1>15. PICK M \in Seq(Elements), q \in Seq(Elements) :
        M = Append(R, x) /\ q = Append(right, x) /\ ToSet(M) = ToSet(R) \cup {x} /\ Distinct(M)
  <2>1. PICK M \in Seq(Elements) : M = Append(R, x)
        BY <1>3, Appended
  <2>2. PICK q \in Seq(Elements) : q = Append(right, x)
        BY <1>3, Appended
  <2>3. ToSet(M) = ToSet(R) \cup {x}
        BY <1>3, <2>1, ToSetFacts
  <2>4. Distinct(M)
        BY <1>3, <1>8, <1>12, <2>1, DistinctAppend
  <2>5. QED  BY <2>1, <2>2, <2>3, <2>4
<1>16. net' = [push |-> new, left |-> left, right |-> q, pull |-> pull]
  <2>1. net' = [net EXCEPT !.push = new, !.right = q]
        BY <1>1, <1>2, <1>6, <1>14, <1>15 DEF QueuePush
  <2>2. QED  BY <1>5, <2>1
<1>17. Inputs("left")' = L /\ Inputs("right")' = M /\ M = pr \o q
  <2>1. M = pr \o q
    <3>1. Append(pr \o right, x) = pr \o Append(right, x)
          BY <1>3, ElementsAppended
    <3>2. QED  BY <1>9, <1>15, <3>1
  <2>2. QED  BY <1>3, <1>7, <1>15, <2>1
<1>18. \A y \in ToSet(M) \cup ToSet(L) : y.id <= Len(input')
  <2>1. ASSUME NEW y \in ToSet(L) \cup ToSet(R) PROVE y.id <= n + 1
    <3>1. y.id \in Int /\ y.id <= n
          BY <1>8, <1>10, <1>11 DEF Elements
    <3>2. QED  BY <3>1
  <2>2. x.id <= n + 1
        BY <1>3, <1>10
  <2>3. QED  BY <1>3, <1>10, <1>15, <2>1, <2>2
<1>19. sink' = sink \o out /\ sink \o out \in Seq(Pairs)
       /\ Once(sink \o out, Matching(ToSet(L), ToSet(M)))
  <2>1. sink' = sink \o out
        BY <1>1, <1>2, <1>6, <1>14
  <2>2. sink \o out \in Seq(Pairs)
        BY <1>8, ConcatProperties
  <2>3. /\ Matching(ToSet(L), ToSet(R) \cup {x}) = Matching(ToSet(L), ToSet(R)) \cup Matching(ToSet(L), {x})
        /\ Matching(ToSet(L), ToSet(R)) \cap Matching(ToSet(L), {x}) = {}
    <3>1. PICK A \in SUBSET Elements, B \in SUBSET Elements : A = ToSet(L) /\ B = ToSet(R)
          BY <1>11
    <3>2. x \notin B
          BY <1>12, <3>1
    <3>3. Matching(A, B \cup {x}) = Matching(A, B) \cup Matching(A, {x})
          BY <1>3 DEF Matching
    <3>4. Matching(A, B) \cap Matching(A, {x}) = {}
          BY <1>3, <3>2, MatchingMore
    <3>5. QED  BY <3>1, <3>3, <3>4
  <2>4. Once(sink \o out, Matching(ToSet(L), ToSet(R)) \cup Matching(ToSet(L), {x}))
    <3>1. PICK A, B : A = Matching(ToSet(L), ToSet(R)) /\ B = Matching(ToSet(L), {x})
          OBVIOUS
    <3>2. Once(sink, A) /\ Once(out, B) /\ A \cap B = {} /\ sink \in Seq(Pairs)
          BY <1>8, <1>13, <2>3, <3>1
    <3>3. Once(sink \o out, A \cup B)
          BY <3>2, OnceConcat
    <3>4. QED  BY <3>1, <3>3
  <2>5. QED  BY <1>15, <2>1, <2>2, <2>3, <2>4
<1>20. /\ net' \in JoinNet
       /\ net'.push = new /\ net'.left = left /\ net'.right = q /\ net'.pull = pull
      BY <1>16, JoinNetParts
<1>21. /\ Indexed(net'.push.left_map_, ToSet(Inputs("left")')) /\ Indexed(net'.push.right_map_, ToSet(Inputs("right")'))
       /\ Once(sink', Matching(ToSet(Inputs("left")'), ToSet(Inputs("right")')))
      BY <1>13, <1>15, <1>17, <1>19, <1>20
<1>22. \A side \in {"left", "right"} :
         Distinct(Inputs(side)') /\ \A y \in ToSet(Inputs(side)') : y.id <= Len(input')
      BY <1>8, <1>15, <1>17, <1>18
<1>23. \E a, b \in Seq(Elements) :
         /\ Inputs("left")' = a \o net'.left /\ Inputs("right")' = b \o net'.right
         /\ Len(a) = Len(b) + (IF net'.pull.pull_left THEN 0 ELSE 1)
         /\ Indexed(net'.pull.maps.left_map_, ToSet(a))
         /\ Indexed(net'.pull.maps.right_map_, ToSet(b))
         /\ Settled(got', net'.pull.buf_, Matching(ToSet(a), ToSet(b)))
      BY <1>4, <1>9, <1>17, <1>20
<1>24. net' \in JoinNet /\ sink' \in Seq(Pairs) /\ got' \in Seq(Pairs)
      BY <1>4, <1>8, <1>19, <1>20
<1>25. QED  BY <1>21, <1>22, <1>23, <1>24, JoinInvAfter

(* What Join<Pull> has of pl and pr, the elements it has pulled.             *)
Held(maps, out, buf, pl, pr, ahead) ==
  /\ Len(pl) = Len(pr) + ahead
  /\ Indexed(maps.left_map_, ToSet(pl)) /\ Indexed(maps.right_map_, ToSet(pr))
  /\ Settled(out, buf, Matching(ToSet(pl), ToSet(pr)))

(* The pull that joins x, with j what that does to the maps and puts out.    *)
Pops(maps, turn, next, x, j) ==
  JoinPull([maps |-> maps, pull_left |-> turn, buf_ |-> << >>], x)
    = Result([maps |-> j.state, pull_left |-> next, buf_ |-> Rest(j.out)], Last_(j.out))

(* A pull from the left queue, with the buffer empty.                        *)
LEMMA JoinPullLeft ==
  ASSUME NEW maps \in Maps, NEW out \in Seq(Pairs), NEW pl \in Seq(Elements), NEW pr \in Seq(Elements),
         Held(maps, out, << >>, pl, pr, 0),
         NEW x \in Elements, x \notin ToSet(pl),
         NEW j, j = push_left(maps, x), NEW ql \in Seq(Elements), ql = Append(pl, x)
  PROVE  /\ Pops(maps, TRUE, FALSE, x, j)
         /\ j.state \in Maps /\ Rest(j.out) \in Seq(Pairs) /\ Returned(out, Last_(j.out)) \in Seq(Pairs)
         /\ Held(j.state, Returned(out, Last_(j.out)), Rest(j.out), ql, pr, 1)
<1>1. PICK L \in SUBSET Elements, R \in SUBSET Elements : L = ToSet(pl) /\ R = ToSet(pr)
      BY ToSetFacts
<1>2. Indexed(maps.left_map_, L) /\ Indexed(maps.right_map_, R) /\ x \notin L /\ Settled(out, << >>, Matching(L, R))
      BY <1>1 DEF Held
<1>3. PICK m \in Maps, buf \in Seq(Pairs) :
        /\ push_left(maps, x) = Result(m, buf)
        /\ Indexed(m.left_map_, L \cup {x}) /\ Indexed(m.right_map_, R)
        /\ Once(buf, Matching({x}, R))
      BY <1>2, Joined
<1>4. Matching(L \cup {x}, R) = Matching(L, R) \cup Matching({x}, R)
      BY DEF Matching
<1>5. Matching(L, R) \cap Matching({x}, R) = {}
      BY <1>2 DEF Matching
<1>6. Settled(out, buf, Matching(L \cup {x}, R))
  <2>1. PICK A, B : A = Matching(L, R) /\ B = Matching({x}, R)
        OBVIOUS
  <2>2. Settled(out, << >>, A) /\ Once(buf, B) /\ A \cap B = {}
        BY <1>2, <1>3, <1>5, <2>1
  <2>3. Settled(out, buf, A \cup B)
        BY <2>2, SettledMore
  <2>4. QED  BY <1>4, <2>1, <2>3
<1>7. ToSet(ql) = L \cup {x} /\ Len(ql) = Len(pl) + 1
      BY <1>1, ToSetFacts, Appended
<1>8. j.state = m /\ j.out = buf
      BY <1>3 DEF Result
<1>9. /\ JoinPull([maps |-> maps, pull_left |-> TRUE, buf_ |-> << >>], x)
           = Result([maps |-> m, pull_left |-> FALSE, buf_ |-> Rest(buf)], Last_(buf))
      /\ Rest(buf) \in Seq(Pairs) /\ Returned(out, Last_(buf)) \in Seq(Pairs)
      /\ Settled(Returned(out, Last_(buf)), Rest(buf), Matching(L \cup {x}, R))
  <2>1. PICK s : s = [maps |-> maps, pull_left |-> TRUE, buf_ |-> << >>]
        OBVIOUS
  <2>2. s.maps = maps /\ s.pull_left = TRUE /\ s.buf_ = << >> /\ x # None
        BY <2>1, NoneAssumption
  <2>3. JoinPull(s, x) = PopBack([maps |-> j.state, pull_left |-> FALSE, buf_ |-> j.out])
        BY <2>2 DEF JoinPull
  <2>4. JoinPull(s, x) = PopBack([maps |-> m, pull_left |-> FALSE, buf_ |-> buf])
        BY <1>8, <2>3
  <2>5. QED  BY <1>6, <2>1, <2>4, PopBackSettled
<1>10. Len(ql) = Len(pr) + 1
  <2>1. PICK a \in Nat, b \in Nat : a = Len(pl) /\ b = Len(pr)
        OBVIOUS
  <2>2. QED  BY <1>7, <2>1 DEF Held
<1>11. QED  BY <1>1, <1>3, <1>7, <1>8, <1>9, <1>10 DEF Held, Pops

(* A pull from the right queue, with the buffer empty.                        *)
LEMMA JoinPullRight ==
  ASSUME NEW maps \in Maps, NEW out \in Seq(Pairs), NEW pl \in Seq(Elements), NEW pr \in Seq(Elements),
         Held(maps, out, << >>, pl, pr, 1),
         NEW x \in Elements, x \notin ToSet(pr),
         NEW j, j = push_right(maps, x), NEW qr \in Seq(Elements), qr = Append(pr, x)
  PROVE  /\ Pops(maps, FALSE, TRUE, x, j)
         /\ j.state \in Maps /\ Rest(j.out) \in Seq(Pairs) /\ Returned(out, Last_(j.out)) \in Seq(Pairs)
         /\ Held(j.state, Returned(out, Last_(j.out)), Rest(j.out), pl, qr, 0)
<1>1. PICK L \in SUBSET Elements, R \in SUBSET Elements : L = ToSet(pl) /\ R = ToSet(pr)
      BY ToSetFacts
<1>2. Indexed(maps.left_map_, L) /\ Indexed(maps.right_map_, R) /\ x \notin R /\ Settled(out, << >>, Matching(L, R))
      BY <1>1 DEF Held
<1>3. PICK m \in Maps, buf \in Seq(Pairs) :
        /\ push_right(maps, x) = Result(m, buf)
        /\ Indexed(m.left_map_, L) /\ Indexed(m.right_map_, R \cup {x})
        /\ Once(buf, Matching(L, {x}))
      BY <1>2, Joined
<1>4. Matching(L, R \cup {x}) = Matching(L, R) \cup Matching(L, {x})
      BY DEF Matching
<1>5. Matching(L, R) \cap Matching(L, {x}) = {}
      BY <1>2 DEF Matching
<1>6. Settled(out, buf, Matching(L, R \cup {x}))
  <2>1. PICK A, B : A = Matching(L, R) /\ B = Matching(L, {x})
        OBVIOUS
  <2>2. Settled(out, << >>, A) /\ Once(buf, B) /\ A \cap B = {}
        BY <1>2, <1>3, <1>5, <2>1
  <2>3. Settled(out, buf, A \cup B)
        BY <2>2, SettledMore
  <2>4. QED  BY <1>4, <2>1, <2>3
<1>7. ToSet(qr) = R \cup {x} /\ Len(qr) = Len(pr) + 1
      BY <1>1, ToSetFacts, Appended
<1>8. j.state = m /\ j.out = buf
      BY <1>3 DEF Result
<1>9. /\ JoinPull([maps |-> maps, pull_left |-> FALSE, buf_ |-> << >>], x)
           = Result([maps |-> m, pull_left |-> TRUE, buf_ |-> Rest(buf)], Last_(buf))
      /\ Rest(buf) \in Seq(Pairs) /\ Returned(out, Last_(buf)) \in Seq(Pairs)
      /\ Settled(Returned(out, Last_(buf)), Rest(buf), Matching(L, R \cup {x}))
  <2>1. PICK s : s = [maps |-> maps, pull_left |-> FALSE, buf_ |-> << >>]
        OBVIOUS
  <2>2. s.maps = maps /\ s.pull_left = FALSE /\ s.buf_ = << >> /\ x # None
        BY <2>1, NoneAssumption
  <2>3. JoinPull(s, x) = PopBack([maps |-> j.state, pull_left |-> TRUE, buf_ |-> j.out])
        BY <2>2 DEF JoinPull
  <2>4. JoinPull(s, x) = PopBack([maps |-> m, pull_left |-> TRUE, buf_ |-> buf])
        BY <1>8, <2>3
  <2>5. QED  BY <1>6, <2>1, <2>4, PopBackSettled
<1>10. Len(pl) = Len(qr) + 0
  <2>1. PICK a \in Nat, b \in Nat : a = Len(pl) /\ b = Len(pr)
        OBVIOUS
  <2>2. QED  BY <1>7, <2>1 DEF Held
<1>11. QED  BY <1>1, <1>3, <1>7, <1>8, <1>9, <1>10 DEF Held, Pops

LEMMA JoinPulled ==
  ASSUME input \in Seq(Fed), JoinInv, PullJoin
  PROVE  JoinInv'
<1>1. kind = "join" /\ kind' = "join" /\ input' = input /\ sink' = sink
      BY DEF PullJoin, Pulled
<1>2. PICK push \in Maps, left \in Seq(Elements), right \in Seq(Elements), pull \in PullState :
        net = [push |-> push, left |-> left, right |-> right, pull |-> pull]
      BY <1>1, JoinNetParts DEF JoinInv
<1>3. net.push = push /\ net.left = left /\ net.right = right /\ net.pull = pull
      BY <1>2
<1>4. PICK turn : turn = pull.pull_left
      OBVIOUS
<1>5. PICK maps \in Maps, buf \in Seq(Pairs) : pull.maps = maps /\ pull.pull_left = turn /\ pull.buf_ = buf
      BY <1>4, PullStateFields
<1>5a. (turn = TRUE \/ turn = FALSE) /\ pull = [maps |-> maps, pull_left |-> turn, buf_ |-> buf]
      BY <1>5, PullStateFields
<1>6. PICK L \in Seq(Elements), R \in Seq(Elements) :
        L = Inputs("left") /\ R = Inputs("right") /\ Inputs("left")' = L /\ Inputs("right")' = R
      BY <1>1, InputsType, InputsStay DEF Sides
<1>7. /\ sink \in Seq(Pairs) /\ got \in Seq(Pairs) /\ Distinct(L) /\ Distinct(R)
      /\ \A y \in ToSet(L) \cup ToSet(R) : y.id <= Len(input)
      /\ Indexed(push.left_map_, ToSet(L)) /\ Indexed(push.right_map_, ToSet(R))
      /\ Once(sink, Matching(ToSet(L), ToSet(R)))
      BY <1>1, <1>3, <1>6 DEF JoinInv
<1>8. PICK pl \in Seq(Elements), pr \in Seq(Elements) :
        /\ L = pl \o left /\ R = pr \o right
        /\ Len(pl) = Len(pr) + (IF turn THEN 0 ELSE 1)
        /\ Indexed(maps.left_map_, ToSet(pl)) /\ Indexed(maps.right_map_, ToSet(pr))
        /\ Settled(got, buf, Matching(ToSet(pl), ToSet(pr)))
      BY <1>1, <1>3, <1>5, <1>6 DEF JoinInv
<1>9. \A side \in {"left", "right"} :
        Distinct(Inputs(side)') /\ \A y \in ToSet(Inputs(side)') : y.id <= Len(input')
      BY <1>1, <1>6, <1>7
<1>10. ASSUME NEW a \in Seq(Elements), NEW b \in Seq(Elements), NEW ql \in Seq(Elements), NEW qr \in Seq(Elements),
              NEW m \in Maps, NEW flag, flag = TRUE \/ flag = FALSE, NEW rest \in Seq(Pairs),
              net' = [push |-> push, left |-> ql, right |-> qr,
                      pull |-> [maps |-> m, pull_left |-> flag, buf_ |-> rest]],
              got' \in Seq(Pairs), L = a \o ql, R = b \o qr,
              Len(a) = Len(b) + (IF flag THEN 0 ELSE 1),
              Indexed(m.left_map_, ToSet(a)), Indexed(m.right_map_, ToSet(b)),
              Settled(got', rest, Matching(ToSet(a), ToSet(b)))
       PROVE  JoinInv'
  <2>1. PICK p \in PullState : p = [maps |-> m, pull_left |-> flag, buf_ |-> rest]
        BY <1>10, PullStateParts
  <2>2. p.maps = m /\ p.pull_left = flag /\ p.buf_ = rest
        BY <2>1
  <2>3. /\ net' = [push |-> push, left |-> ql, right |-> qr, pull |-> p]
        /\ net'.push = push /\ net'.left = ql /\ net'.right = qr /\ net'.pull = p
        BY <1>10, <2>1
  <2>4. net' \in JoinNet
        BY <2>3, JoinNetParts
  <2>5. \E c, d \in Seq(Elements) :
          /\ Inputs("left")' = c \o net'.left /\ Inputs("right")' = d \o net'.right
          /\ Len(c) = Len(d) + (IF net'.pull.pull_left THEN 0 ELSE 1)
          /\ Indexed(net'.pull.maps.left_map_, ToSet(c))
          /\ Indexed(net'.pull.maps.right_map_, ToSet(d))
          /\ Settled(got', net'.pull.buf_, Matching(ToSet(c), ToSet(d)))
        BY <1>6, <1>10, <2>2, <2>3
  <2>6. /\ Indexed(net'.push.left_map_, ToSet(Inputs("left")'))
        /\ Indexed(net'.push.right_map_, ToSet(Inputs("right")'))
        /\ Once(sink', Matching(ToSet(Inputs("left")'), ToSet(Inputs("right")')))
        BY <1>1, <1>6, <1>7, <2>3
  <2>7. sink' \in Seq(Pairs)
        BY <1>1, <1>7
  <2>8. QED  BY <1>9, <1>10, <2>4, <2>5, <2>6, <2>7, JoinInvAfter
<1>11. PICK from, up, joined :
        /\ from = JoinPullsFrom(pull)
        /\ up = (IF from = "nobody" THEN Result(<< >>, None) ELSE QueuePull(net[from]))
        /\ joined = JoinPull(pull, up.out)
      OBVIOUS
<1>12. /\ net' = IF from = "nobody" THEN [net EXCEPT !.pull = joined.state]
                  ELSE [net EXCEPT !.pull = joined.state, ![from] = up.state]
       /\ got' = Returned(got, joined.out)
      BY <1>3, <1>11, Zenon DEF PullJoin, Pulled, Returned
<1>13. CASE buf # << >>
  <2>1. from = "nobody" /\ joined = PopBack(pull)
        BY <1>5, <1>11, <1>13 DEF JoinPullsFrom, JoinPull
  <2>2. PICK Z : Z = Matching(ToSet(pl), ToSet(pr)) /\ Settled(got, buf, Z)
        BY <1>8
  <2>3. /\ PopBack(pull) = Result([maps |-> maps, pull_left |-> turn, buf_ |-> Rest(buf)], Last_(buf))
        /\ Rest(buf) \in Seq(Pairs)
        /\ Returned(got, Last_(buf)) \in Seq(Pairs)
        /\ Settled(Returned(got, Last_(buf)), Rest(buf), Z)
    <3>1. PICK out \in Seq(Pairs) : out = got
          BY <1>7
    <3>2. Settled(out, buf, Z)
          BY <2>2, <3>1
    <3>3. /\ PopBack([maps |-> maps, pull_left |-> turn, buf_ |-> buf])
               = Result([maps |-> maps, pull_left |-> turn, buf_ |-> Rest(buf)], Last_(buf))
          /\ Rest(buf) \in Seq(Pairs)
          /\ Returned(out, Last_(buf)) \in Seq(Pairs)
          /\ Settled(Returned(out, Last_(buf)), Rest(buf), Z)
          BY <3>2, PopBackSettled
    <3>4. QED  BY <1>5a, <3>1, <3>3
  <2>4. joined.state = [maps |-> maps, pull_left |-> turn, buf_ |-> Rest(buf)] /\ joined.out = Last_(buf)
        BY <2>1, <2>3 DEF Result
  <2>5. net' = [net EXCEPT !.pull = joined.state]
        BY <1>12, <2>1
  <2>6. net' = [push |-> push, left |-> left, right |-> right,
                pull |-> [maps |-> maps, pull_left |-> turn, buf_ |-> Rest(buf)]]
        BY <1>2, <2>4, <2>5
  <2>7. got' \in Seq(Pairs) /\ Settled(got', Rest(buf), Matching(ToSet(pl), ToSet(pr)))
        BY <1>12, <2>2, <2>3, <2>4
  <2>8. QED  BY <1>5a, <1>8, <1>10, <2>3, <2>6, <2>7
<1>14. CASE buf = << >> /\ turn = TRUE
  <2>1. from = "left" /\ up = QueuePull(left)
    <3>1. from = "left"
          BY <1>5, <1>11, <1>14 DEF JoinPullsFrom
    <3>2. net["left"] = left
          BY <1>2
    <3>3. QED  BY <1>11, <3>1, <3>2
  <2>2. net' = [net EXCEPT !.pull = joined.state, !["left"] = up.state]
        BY <1>12, <2>1
  <2>3. net' = [push |-> push, left |-> up.state, right |-> right, pull |-> joined.state]
        BY <1>2, <2>2
  <2>4. CASE left = << >>
    <3>1. up.out = None /\ up.state = left
          BY <2>1, <2>4 DEF QueuePull, Result
    <3>2. joined = Result(pull, None)
          BY <1>5, <1>11, <1>14, <3>1 DEF JoinPull
    <3>3. joined.state = pull /\ joined.out = None
          BY <3>2 DEF Result
    <3>4. net' = [push |-> push, left |-> left, right |-> right,
                  pull |-> [maps |-> maps, pull_left |-> turn, buf_ |-> buf]]
          BY <1>5a, <2>3, <3>1, <3>3
    <3>5. got' = got
          BY <1>12, <3>3 DEF Returned
    <3>6. QED  BY <1>5a, <1>7, <1>8, <1>10, <3>4, <3>5
  <2>5. CASE left # << >>
    <3>1. Distinct(pl \o left)
          BY <1>7, <1>8
    <3>2. PICK x \in Elements, t \in Seq(Elements) :
            x = Head(left) /\ t = Tail(left) /\ Append(pl, x) \o t = pl \o left /\ x \notin ToSet(pl)
          BY <2>5, <3>1, DistinctNext
    <3>3. up.out = x /\ up.state = t
          BY <2>1, <2>5, <3>2 DEF QueuePull, Result
    <3>4. Settled(got, << >>, Matching(ToSet(pl), ToSet(pr))) /\ pull = [maps |-> maps, pull_left |-> TRUE, buf_ |-> << >>]
          BY <1>5a, <1>8, <1>14
    <3>5. PICK ql \in Seq(Elements) : ql = Append(pl, x)
          BY Appended
    <3>5a. PICK j : j = push_left(maps, x)
          OBVIOUS
    <3>6. PICK m \in Maps, b \in Seq(Pairs), new \in Seq(Pairs) :
            /\ joined.state = [maps |-> m, pull_left |-> FALSE, buf_ |-> b] /\ new = Returned(got, joined.out)
            /\ Len(ql) = Len(pr) + 1
            /\ Indexed(m.left_map_, ToSet(ql)) /\ Indexed(m.right_map_, ToSet(pr))
            /\ Settled(new, b, Matching(ToSet(ql), ToSet(pr)))
      <4>1. PICK out \in Seq(Pairs) : out = got
            BY <1>7
      <4>2. x \notin ToSet(pl)
            BY <3>2
      <4>3. Held(maps, out, << >>, pl, pr, 0)
            BY <1>8, <1>14, <3>4, <4>1 DEF Held
      <4>4. /\ Pops(maps, TRUE, FALSE, x, j)
            /\ j.state \in Maps /\ Rest(j.out) \in Seq(Pairs) /\ Returned(out, Last_(j.out)) \in Seq(Pairs)
            /\ Held(j.state, Returned(out, Last_(j.out)), Rest(j.out), ql, pr, 1)
            BY <3>5, <3>5a, <4>2, <4>3, JoinPullLeft
      <4>5. joined = Result([maps |-> j.state, pull_left |-> FALSE, buf_ |-> Rest(j.out)], Last_(j.out))
            BY <1>11, <3>3, <3>4, <4>4 DEF Pops
      <4>6. /\ joined.state = [maps |-> j.state, pull_left |-> FALSE, buf_ |-> Rest(j.out)]
            /\ joined.out = Last_(j.out)
            BY <4>5 DEF Result
      <4>7. QED  BY <4>1, <4>4, <4>6 DEF Held
    <3>7. net' = [push |-> push, left |-> t, right |-> right,
                  pull |-> [maps |-> m, pull_left |-> FALSE, buf_ |-> b]]
          BY <2>3, <3>3, <3>6
    <3>8. got' = new
          BY <1>12, <3>6
    <3>9. L = ql \o t /\ R = pr \o right
          BY <1>8, <3>2, <3>5
    <3>10. Len(ql) = Len(pr) + (IF FALSE THEN 0 ELSE 1)
          BY <3>6
    <3>11. got' \in Seq(Pairs) /\ Settled(got', b, Matching(ToSet(ql), ToSet(pr)))
          BY <3>6, <3>8
    <3>12. QED  BY <1>10, <3>6, <3>7, <3>9, <3>10, <3>11
  <2>6. QED  BY <2>4, <2>5
<1>15. CASE buf = << >> /\ turn = FALSE
  <2>1. from = "right" /\ up = QueuePull(right)
    <3>1. from = "right"
          BY <1>5, <1>11, <1>15 DEF JoinPullsFrom
    <3>2. net["right"] = right
          BY <1>2
    <3>3. QED  BY <1>11, <3>1, <3>2
  <2>2. net' = [net EXCEPT !.pull = joined.state, !["right"] = up.state]
        BY <1>12, <2>1
  <2>3. net' = [push |-> push, left |-> left, right |-> up.state, pull |-> joined.state]
        BY <1>2, <2>2
  <2>4. CASE right = << >>
    <3>1. up.out = None /\ up.state = right
          BY <2>1, <2>4 DEF QueuePull, Result
    <3>2. joined = Result(pull, None)
          BY <1>5, <1>11, <1>15, <3>1 DEF JoinPull
    <3>3. joined.state = pull /\ joined.out = None
          BY <3>2 DEF Result
    <3>4. net' = [push |-> push, left |-> left, right |-> right,
                  pull |-> [maps |-> maps, pull_left |-> turn, buf_ |-> buf]]
          BY <1>5a, <2>3, <3>1, <3>3
    <3>5. got' = got
          BY <1>12, <3>3 DEF Returned
    <3>6. QED  BY <1>5a, <1>7, <1>8, <1>10, <3>4, <3>5
  <2>5. CASE right # << >>
    <3>1. Distinct(pr \o right)
          BY <1>7, <1>8
    <3>2. PICK x \in Elements, t \in Seq(Elements) :
            x = Head(right) /\ t = Tail(right) /\ Append(pr, x) \o t = pr \o right /\ x \notin ToSet(pr)
          BY <2>5, <3>1, DistinctNext
    <3>3. up.out = x /\ up.state = t
          BY <2>1, <2>5, <3>2 DEF QueuePull, Result
    <3>4. Settled(got, << >>, Matching(ToSet(pl), ToSet(pr))) /\ pull = [maps |-> maps, pull_left |-> FALSE, buf_ |-> << >>]
          BY <1>5a, <1>8, <1>15
    <3>5. PICK qr \in Seq(Elements) : qr = Append(pr, x)
          BY Appended
    <3>5a. PICK j : j = push_right(maps, x)
          OBVIOUS
    <3>6. PICK m \in Maps, b \in Seq(Pairs), new \in Seq(Pairs) :
            /\ joined.state = [maps |-> m, pull_left |-> TRUE, buf_ |-> b] /\ new = Returned(got, joined.out)
            /\ Len(pl) = Len(qr) + 0
            /\ Indexed(m.left_map_, ToSet(pl)) /\ Indexed(m.right_map_, ToSet(qr))
            /\ Settled(new, b, Matching(ToSet(pl), ToSet(qr)))
      <4>1. PICK out \in Seq(Pairs) : out = got
            BY <1>7
      <4>2. x \notin ToSet(pr)
            BY <3>2
      <4>3. Held(maps, out, << >>, pl, pr, 1)
            BY <1>8, <1>15, <3>4, <4>1 DEF Held
      <4>4. /\ Pops(maps, FALSE, TRUE, x, j)
            /\ j.state \in Maps /\ Rest(j.out) \in Seq(Pairs) /\ Returned(out, Last_(j.out)) \in Seq(Pairs)
            /\ Held(j.state, Returned(out, Last_(j.out)), Rest(j.out), pl, qr, 0)
            BY <3>5, <3>5a, <4>2, <4>3, JoinPullRight
      <4>5. joined = Result([maps |-> j.state, pull_left |-> TRUE, buf_ |-> Rest(j.out)], Last_(j.out))
            BY <1>11, <3>3, <3>4, <4>4 DEF Pops
      <4>6. /\ joined.state = [maps |-> j.state, pull_left |-> TRUE, buf_ |-> Rest(j.out)]
            /\ joined.out = Last_(j.out)
            BY <4>5 DEF Result
      <4>7. QED  BY <4>1, <4>4, <4>6 DEF Held
    <3>7. net' = [push |-> push, left |-> left, right |-> t,
                  pull |-> [maps |-> m, pull_left |-> TRUE, buf_ |-> b]]
          BY <2>3, <3>3, <3>6
    <3>8. got' = new
          BY <1>12, <3>6
    <3>9. L = pl \o left /\ R = qr \o t
          BY <1>8, <3>2, <3>5
    <3>10. Len(pl) = Len(qr) + (IF TRUE THEN 0 ELSE 1)
          BY <3>6
    <3>11. got' \in Seq(Pairs) /\ Settled(got', b, Matching(ToSet(pl), ToSet(qr)))
          BY <3>6, <3>8
    <3>12. QED  BY <1>10, <3>6, <3>7, <3>9, <3>10, <3>11
  <2>6. QED  BY <2>4, <2>5
<1>16. QED  BY <1>5a, <1>13, <1>14, <1>15

LEMMA JoinComplete ==
  ASSUME input \in Seq(Fed), JoinInv
  PROVE  JoinsComplete
<1>1. SUFFICES ASSUME kind = "join" PROVE JoinsComplete
      BY DEF JoinsComplete
<1>2. PICK push \in Maps, left \in Seq(Elements), right \in Seq(Elements), pull \in PullState :
        net = [push |-> push, left |-> left, right |-> right, pull |-> pull]
      BY <1>1, JoinNetParts DEF JoinInv
<1>3. net["left"] = left /\ net["right"] = right /\ net.pull = pull /\ net.left = left /\ net.right = right
      BY <1>2
<1>5a. PICK L \in Seq(Elements), R \in Seq(Elements) : L = Inputs("left") /\ R = Inputs("right")
      BY InputsType DEF Sides
<1>5. PICK pl \in Seq(Elements), pr \in Seq(Elements) :
        /\ L = pl \o left /\ R = pr \o right
        /\ Len(pl) = Len(pr) + (IF pull.pull_left THEN 0 ELSE 1)
        /\ Settled(got, pull.buf_, Matching(ToSet(pl), ToSet(pr)))
      BY <1>1, <1>3, <1>5a DEF JoinInv
<1>6. PICK buf \in Seq(Pairs) : buf = pull.buf_
      BY PullStateParts
<1>7. sink \in Seq(Pairs) /\ got \in Seq(Pairs) /\ Once(sink, Matching(ToSet(L), ToSet(R)))
      BY <1>1, <1>5a DEF JoinInv
<1>8. /\ Match(L, R) = Matching(ToSet(L), ToSet(R))
      /\ Match(pl, pr) = Matching(ToSet(pl), ToSet(pr))
      BY DEF Match, Matching
<1>9. Lists(sink, Match(L, R))
      BY <1>7, <1>8, OnceLists
<1>10. Lists(got \o buf, Match(pl, pr))
  <2>1. PICK G, B : Once(got, G) /\ Once(buf, B) /\ G \cap B = {} /\ G \cup B = Match(pl, pr)
        BY <1>5, <1>6, <1>8 DEF Settled
  <2>2. Once(got \o buf, G \cup B)
        BY <1>7, <2>1, OnceConcat
  <2>3. got \o buf \in Seq(Pairs)
        BY <1>7, ConcatProperties
  <2>4. QED  BY <2>1, <2>2, <2>3, OnceLists
<1>11. ASSUME NEW p \in Seq(Elements), NEW q \in Seq(Elements)
       PROVE  Len(p \o q) - Len(q) = Len(p) /\ SubSeq(p \o q, 1, Len(p)) = p
  <2>1. Len(p \o q) = Len(p) + Len(q) /\ Len(p) \in Nat /\ Len(q) \in Nat
        BY ConcatProperties
  <2>2. SubSeq(p \o q, 1, Len(p)) = p
        OBVIOUS
  <2>3. QED  BY <2>1, <2>2
<1>12. Len(L) - Len(left) = Len(pl) /\ Len(R) - Len(right) = Len(pr)
       /\ SubSeq(L, 1, Len(pl)) = pl /\ SubSeq(R, 1, Len(pr)) = pr
      BY <1>5, <1>11
<1>13. Len(pl) - Len(pr) = IF pull.pull_left THEN 0 ELSE 1
  <2>1. PICK i \in Nat, j \in Nat : i = Len(pl) /\ j = Len(pr)
        OBVIOUS
  <2>2. QED  BY <1>5, <2>1
<1>14. QED  BY <1>3, <1>5a, <1>6, <1>9, <1>10, <1>12, <1>13 DEF JoinsComplete

-----------------------------------------------------------------------------
(* The circuits together.                                                  *)

CircuitInv ==
  input \in Seq(Fed) /\ GroupInv /\ DedupInv /\ DupInv /\ BranchInv /\ JoinInv

LEMMA KeysEmpty == Keys_(<< >>) = << >>
  BY DEF Keys_

LEMMA InputsInit ==
  ASSUME input = << >>
  PROVE  input \in Seq(Fed) /\ \A side : Inputs(side) = << >>
<1>1. ASSUME NEW side PROVE Inputs(side) = << >>
  <2>1. Only(<< >>, On(side)) = << >>
        BY OnlyEmpty
  <2>2. Only(input, [side : {side}, x : Elements]) = << >>
        BY <2>1 DEF On
  <2>3. Inputs(side) = [n \in DOMAIN << >> |-> << >>[n].x]
        BY <2>2 DEF Inputs
  <2>4. QED  BY <2>3
<1>2. QED  BY <1>1

LEMMA GroupInit ==
  ASSUME Init
  PROVE  GroupInv
<1>1. SUFFICES ASSUME kind = "group" PROVE GroupInv
      BY DEF GroupInv
<1>2. input = << >> /\ got = << >>
      BY DEF Init
<1>3. PICK g \in [Keys -> Seq(Elements)], d \in [Keys -> Nat] :
        (\A k \in Keys : g[k] = << >> /\ d[k] = 0)
        /\ net = [pushes |-> 0, groups |-> g, dedup |-> d, queue |-> << >>, pulls |-> 0]
  <2>1. /\ [k \in Keys |-> << >>] \in [Keys -> Seq(Elements)] /\ [k \in Keys |-> 0] \in [Keys -> Nat]
        /\ \A k \in Keys : [j \in Keys |-> << >>][k] = << >> /\ [j \in Keys |-> 0][k] = 0
        OBVIOUS
  <2>2. net = [pushes |-> 0, groups |-> [k \in Keys |-> << >>], dedup |-> [k \in Keys |-> 0],
               queue |-> << >>, pulls |-> 0]
        BY <1>1 DEF Init, InitialNet, DedupInit
  <2>3. QED  BY <2>1, <2>2
<1>4. net.groups = g /\ net.dedup = d /\ net.queue = << >>
      BY <1>3
<1>5. << >> \in Seq(Groups) /\ net \in GroupNet
  <2>1. << >> \in Seq(Groups) /\ 0 \in Nat
        OBVIOUS
  <2>2. QED  BY <1>3, <2>1, GroupNetHas
<1>6. ASSUME NEW k \in Keys PROVE Complete(got \o net.queue, net.groups[k], Inputs("in"), k)
  <2>1. /\ got \o net.queue = << >> /\ net.groups[k] = << >> /\ Inputs("in") = << >>
        BY <1>2, <1>3, <1>4, InputsInit
  <2>2. Only(<< >>, Of(k)) = << >> /\ Only(<< >>, {x \in Elements : x.key = k}) = << >>
        BY OnlyEmpty
  <2>3. Together(<< >>) = << >>
        BY FlattenEmpty DEF Together
  <2>4. Complete(<< >>, << >>, << >>, k)
        BY <2>2, <2>3, NumDupsAssumption DEF Complete
  <2>5. QED  BY <2>1, <2>4
<1>7. \A k \in Keys : net.dedup[k] = Len(net.groups[k])
      BY <1>3, <1>4
<1>8. QED  BY <1>2, <1>5, <1>6, <1>7, GroupsCompleteAre DEF GroupInv

LEMMA DedupFirst ==
  ASSUME Init
  PROVE  DedupInv
<1>1. SUFFICES ASSUME kind = "dedup" PROVE DedupInv
      BY DEF DedupInv
<1>2. input = << >> /\ sink = << >>
      BY DEF Init
<1>3. PICK c \in [Keys -> Nat] : c = [k \in Keys |-> 0] /\ \A k \in Keys : c[k] = 0
  <2>1. [k \in Keys |-> 0] \in [Keys -> Nat] /\ \A k \in Keys : [j \in Keys |-> 0][k] = 0
        OBVIOUS
  <2>2. QED  BY <2>1
<1>4. net = [queue |-> << >>, register |-> None, dup |-> [num_dups_sent_ |-> 0, buf_ |-> None], dedup |-> c]
      BY <1>1, <1>3 DEF Init, InitialNet, DedupInit, DupInit
<1>5. net.queue = << >> /\ net.dup.num_dups_sent_ = 0 /\ net.dup.buf_ = None /\ net.dedup = c
      BY <1>4
<1>6. net \in DedupNet
  <2>1. << >> \in Seq(Elements) /\ 0 \in 0..num_dups_
        BY NumDupsAssumption
  <2>2. QED  BY <1>4, <2>1, DedupNetParts
<1>7. Counted(c, 0, None)
      BY <1>3 DEF Counted
<1>8. Surviving(Accepted) = << >>
      BY <1>2, InputsInit, OnlyEmpty, SurvivingAre
<1>9. Arrived(<< >>, << >>, << >>, Halfway(0, None))
  <2>1. Halfway(0, None) = << >>
        BY DEF Halfway
  <2>2. Keys_(Only(<< >>, Odd)) = << >>
        BY OnlyEmpty, KeysEmpty
  <2>3. << >> \in Seq(Elements) /\ << >> = << >> \o << >>
        OBVIOUS
  <2>4. QED  BY <2>1, <2>2, <2>3 DEF Arrived
<1>10. sink \in Seq(Keys)
      BY <1>2
<1>11. QED  BY <1>2, <1>5, <1>6, <1>7, <1>8, <1>9, <1>10 DEF DedupInv

LEMMA DupFirst ==
  ASSUME Init
  PROVE  DupInv
<1>1. SUFFICES ASSUME kind = "dup" PROVE DupInv
      BY DEF DupInv
<1>2. input = << >> /\ got = << >>
      BY DEF Init
<1>3. PICK c \in [Keys \cup {None} -> Nat] : c = [k \in Keys \cup {None} |-> 0] /\ \A k \in Keys : c[k] = 0
  <2>1. /\ [k \in Keys \cup {None} |-> 0] \in [Keys \cup {None} -> Nat]
        /\ \A k \in Keys : [j \in Keys \cup {None} |-> 0][k] = 0
        OBVIOUS
  <2>2. QED  BY <2>1
<1>4. net = [queue |-> << >>, dedup |-> c]
      BY <1>1, <1>3 DEF Init, InitialNet, DedupInit
<1>5. net.queue = << >> /\ net.dedup = c
      BY <1>4
<1>6. << >> \in Seq(Keys) /\ net \in DupNet
  <2>1. << >> \in Seq(Keys)
        OBVIOUS
  <2>2. QED  BY <1>4, <2>1, DupNetParts
<1>7. Keys_(Surviving(Accepted)) = << >>
      BY <1>2, InputsInit, OnlyEmpty, SurvivingAre, KeysEmpty
<1>8. Queued(<< >>, c, << >>, 0) /\ 0 \in 0..(num_dups_ - 1)
      BY <1>3, NumDupsAssumption DEF Queued
<1>9. << >> = << >> \o << >>
      OBVIOUS
<1>10. QED  BY <1>2, <1>5, <1>6, <1>7, <1>8, <1>9 DEF DupInv

LEMMA BranchInit ==
  ASSUME Init
  PROVE  BranchInv
<1>1. SUFFICES ASSUME kind = "branch" PROVE BranchInv
      BY DEF BranchInv
<1>2. input = << >> /\ got = << >> /\ Inputs("in") = << >>
      BY InputsInit DEF Init
<1>3. PICK queues \in [Index -> Seq(Elements)] :
        queues = [b \in Index |-> << >>] /\ \A b \in Index : queues[b] = << >>
  <2>1. [b \in Index |-> << >>] \in [Index -> Seq(Elements)] /\ \A b \in Index : [c \in Index |-> << >>][b] = << >>
        OBVIOUS
  <2>2. QED  BY <2>1
<1>4. PICK P \in [Index -> Nat] : \A b \in Index : P[b] = 0
  <2>1. [b \in Index |-> 0] \in [Index -> Nat] /\ \A b \in Index : [c \in Index |-> 0][b] = 0
        OBVIOUS
  <2>2. QED  BY <2>1
<1>5. net = [queues |-> queues, pushIndex |-> 0, pullIndex |-> 0]
      BY <1>1, <1>3 DEF Init, InitialNet, Index
<1>6. 0 \in Index /\ Branches * 0 = 0 /\ Branches \in Nat /\ \A b \in Index : b \in Nat
      BY BranchesAssumption DEF Index
<1>7. net \in BranchNet
      BY <1>5, <1>6, BranchNetParts
<1>8. net.queues = queues /\ net.pushIndex = 0 /\ net.pullIndex = 0
      BY <1>5
<1>9. Numbered(<< >>, 0, 0)
      BY <1>6 DEF Numbered
<1>10. \A b \in Index : DealtTo(0, 0, b) = 0
      BY <1>6 DEF DealtTo
<1>11. InQueues(queues, << >>, P, 0, 0)
      BY <1>3, <1>4, <1>10 DEF InQueues
<1>12. Abreast(P, 0)
  <2>1. ASSUME NEW b \in Index, NEW c \in Index PROVE 0 <= 0 + Ahead(c, b, 0)
        BY <1>6 DEF Ahead
  <2>2. QED  BY <1>4, <2>1 DEF Abreast
<1>13. PICK h \in Seq(Dealt) : h = << >>
  <2>1. << >> \in Seq(Dealt)
        BY EmptySeq
  <2>2. QED  BY <2>1
<1>14. Overtaking(h, << >>, P)
      BY <1>13 DEF Overtaking
<1>15. InStep(<< >>, << >>, P, 0)
  <2>1. Len(<< >>) = Branches * 0 + 0 /\ Len(<< >>) <= Len(<< >>) /\ \A m \in 1..Len(<< >>) : FALSE
        BY <1>6
  <2>2. QED  BY <1>4, <1>10, <2>1 DEF InStep
<1>16. << >> \in Seq(Elements)
      OBVIOUS
<1>17. QED  BY <1>2, <1>7, <1>8, <1>9, <1>11, <1>12, <1>14, <1>15, <1>16 DEF BranchInv

LEMMA OnceEmpty == Once(<< >>, {}) /\ Distinct(<< >>)
<1>1. Len(<< >>) = 0 /\ 1..0 = {}
      OBVIOUS
<1>2. QED  BY <1>1 DEF Once, Distinct

LEMMA JoinInit_ ==
  ASSUME Init
  PROVE  JoinInv
<1>1. SUFFICES ASSUME kind = "join" PROVE JoinInv
      BY DEF JoinInv
<1>2. input = << >> /\ got = << >> /\ sink = << >> /\ \A side : Inputs(side) = << >>
      BY InputsInit DEF Init
<1>3. PICK f \in [Keys -> Seq(Elements)] : f = [k \in Keys |-> << >>] /\ \A k \in Keys : f[k] = << >>
  <2>1. [k \in Keys |-> << >>] \in [Keys -> Seq(Elements)] /\ \A k \in Keys : [j \in Keys |-> << >>][k] = << >>
        OBVIOUS
  <2>2. QED  BY <2>1
<1>4. PICK maps \in Maps : maps = [left_map_ |-> f, right_map_ |-> f]
      BY DEF Maps
<1>5. PICK pull \in PullState : pull = [maps |-> maps, pull_left |-> TRUE, buf_ |-> << >>]
  <2>1. << >> \in Seq(Pairs) /\ TRUE \in BOOLEAN
        OBVIOUS
  <2>2. QED  BY <2>1, PullStateParts
<1>6. maps.left_map_ = f /\ maps.right_map_ = f /\ pull.maps = maps /\ pull.pull_left = TRUE /\ pull.buf_ = << >>
      BY <1>4, <1>5
<1>7. net = [push |-> maps, left |-> << >>, right |-> << >>, pull |-> pull]
  <2>1. JoinInit(Keys) = maps /\ JoinPullInit(Keys) = pull
        BY <1>3, <1>4, <1>5 DEF JoinInit, JoinPullInit
  <2>2. QED  BY <1>1, <2>1 DEF Init, InitialNet
<1>8. net.push = maps /\ net.left = << >> /\ net.right = << >> /\ net.pull = pull
      BY <1>7
<1>9. << >> \in Seq(Elements) /\ << >> \in Seq(Pairs) /\ net \in JoinNet
  <2>1. << >> \in Seq(Elements) /\ << >> \in Seq(Pairs)
        OBVIOUS
  <2>2. QED  BY <1>7, <2>1, JoinNetParts
<1>10. ToSet(<< >>) = {} /\ Matching({}, {}) = {}
      BY DEF ToSet, Matching
<1>11. Indexed(f, {})
  <2>1. \A k \in Keys : {x \in {} : x.key = k} = {}
        OBVIOUS
  <2>2. QED  BY <1>3, <2>1, OnceEmpty DEF Indexed
<1>12. Settled(<< >>, << >>, {})
  <2>1. {} \cap {} = {} /\ {} \cup {} = {}
        OBVIOUS
  <2>2. QED  BY <2>1, OnceEmpty DEF Settled
<1>13. \A side \in {"left", "right"} :
         Distinct(Inputs(side)) /\ \A x \in ToSet(Inputs(side)) : x.id <= Len(input)
      BY <1>2, <1>10, OnceEmpty
<1>14. \E pl, pr \in Seq(Elements) :
         /\ Inputs("left") = pl \o net.left /\ Inputs("right") = pr \o net.right
         /\ Len(pl) = Len(pr) + (IF net.pull.pull_left THEN 0 ELSE 1)
         /\ Indexed(net.pull.maps.left_map_, ToSet(pl))
         /\ Indexed(net.pull.maps.right_map_, ToSet(pr))
         /\ Settled(got, net.pull.buf_, Matching(ToSet(pl), ToSet(pr)))
  <2>1. << >> = << >> \o << >> /\ Len(<< >>) = Len(<< >>) + 0
        OBVIOUS
  <2>2. QED  BY <1>2, <1>6, <1>8, <1>9, <1>10, <1>11, <1>12, <2>1
<1>15. /\ Indexed(net.push.left_map_, ToSet(Inputs("left"))) /\ Indexed(net.push.right_map_, ToSet(Inputs("right")))
       /\ Once(sink, Matching(ToSet(Inputs("left")), ToSet(Inputs("right"))))
      BY <1>2, <1>6, <1>8, <1>10, <1>11, OnceEmpty
<1>16. sink \in Seq(Pairs) /\ got \in Seq(Pairs)
      BY <1>2, <1>9
<1>17. QED  BY <1>9, <1>13, <1>14, <1>15, <1>16 DEF JoinInv

LEMMA CircuitInit == Init => CircuitInv
  BY InputsInit, GroupInit, DedupFirst, DupFirst, BranchInit, JoinInit_ DEF Init, CircuitInv

LEMMA InputKept ==
  ASSUME input \in Seq(Fed), Push \/ Pull
  PROVE  input' \in Seq(Fed) /\ kind' = kind
<1>1. ASSUME NEW side \in Sides, NEW i \in Feed(side), Pushed(i) PROVE input' \in Seq(Fed) /\ kind' = kind
      BY <1>1, InputsPushed DEF Pushed
<1>2. ASSUME NEW x, Pulled(x) PROVE input' \in Seq(Fed) /\ kind' = kind
      BY <1>2 DEF Pulled
<1>3. ASSUME Pull PROVE \E x : Pulled(x)
      BY <1>3, Zenon DEF Pull, PullJoin, PullBranch, PullDup, PullDedup, PullGroup
<1>4. ASSUME Push PROVE \E side \in Sides : \E i \in Feed(side) : Pushed(i)
  <2>1. ASSUME NEW side \in {"left", "right"}, PushJoin(side) PROVE side \in Sides /\ \E i \in Feed(side) : Pushed(i)
        BY <2>1, Zenon DEF PushJoin, Sides
  <2>2. ASSUME PushBranch \/ PushDup \/ PushDedup \/ PushGroup PROVE \E i \in Feed("in") : Pushed(i)
        BY <2>2, Zenon DEF PushBranch, PushDup, PushDedup, PushGroup
  <2>3. "in" \in Sides
        BY DEF Sides
  <2>4. QED  BY <1>4, <2>1, <2>2, <2>3, Zenon DEF Push
<1>5. QED  BY <1>1, <1>2, <1>3, <1>4

(* An action of one circuit leaves nothing to show for the others.           *)
LEMMA CircuitStep ==
  ASSUME CircuitInv, Push \/ Pull
  PROVE  CircuitInv'
<1>1. input \in Seq(Fed) /\ GroupInv /\ DedupInv /\ DupInv /\ BranchInv /\ JoinInv
      BY DEF CircuitInv
<1>2. input' \in Seq(Fed) /\ kind' = kind
      BY <1>1, InputKept
<1>3. /\ kind # "group" => GroupInv'
      /\ kind # "dedup" => DedupInv'
      /\ kind # "dup" => DupInv'
      /\ kind # "branch" => BranchInv'
      /\ kind # "join" => JoinInv'
      BY <1>2 DEF GroupInv, DedupInv, DupInv, BranchInv, JoinInv
<1>4. CASE PushJoin("left") \/ PushJoin("right") \/ PullJoin
  <2>1. kind = "join"
        BY <1>4 DEF PushJoin, PullJoin
  <2>2. JoinInv'
        BY <1>1, <1>4, JoinPushLeft, JoinPushRight, JoinPulled
  <2>3. QED  BY <1>2, <1>3, <2>1, <2>2 DEF CircuitInv
<1>5. CASE PushBranch \/ PullBranch
  <2>1. kind = "branch"
        BY <1>5 DEF PushBranch, PullBranch
  <2>2. BranchInv'
        BY <1>1, <1>5, BranchPush, BranchPull
  <2>3. QED  BY <1>2, <1>3, <2>1, <2>2 DEF CircuitInv
<1>6. CASE PushDup \/ PullDup
  <2>1. kind = "dup"
        BY <1>6 DEF PushDup, PullDup
  <2>2. DupInv'
        BY <1>1, <1>6, DupPushed, DupPulled
  <2>3. QED  BY <1>2, <1>3, <2>1, <2>2 DEF CircuitInv
<1>7. CASE PushDedup \/ PullDedup
  <2>1. kind = "dedup"
        BY <1>7 DEF PushDedup, PullDedup
  <2>2. DedupInv'
        BY <1>1, <1>7, DedupPushed, DedupPulled
  <2>3. QED  BY <1>2, <1>3, <2>1, <2>2 DEF CircuitInv
<1>8. CASE PushGroup \/ PullGroup
  <2>1. kind = "group"
        BY <1>8 DEF PushGroup, PullGroup
  <2>2. GroupInv'
        BY <1>1, <1>8, GroupPush, GroupPull
  <2>3. QED  BY <1>2, <1>3, <2>1, <2>2 DEF CircuitInv
<1>9. PushJoin("left") \/ PushJoin("right") \/ PullJoin \/ PushBranch \/ PullBranch \/ PushDup \/ PullDup
      \/ PushDedup \/ PullDedup \/ PushGroup \/ PullGroup
  <2>1. ASSUME NEW side \in {"left", "right"}, PushJoin(side) PROVE PushJoin("left") \/ PushJoin("right")
    <3>1. side = "left" \/ side = "right"
          OBVIOUS
    <3>2. QED  BY <2>1, <3>1
  <2>2. QED  BY <2>1, Zenon DEF Push, Pull
<1>10. QED  BY <1>4, <1>5, <1>6, <1>7, <1>8, <1>9

LEMMA CircuitStutter ==
  ASSUME CircuitInv, UNCHANGED vars
  PROVE  CircuitInv'
<1>1. kind' = kind /\ net' = net /\ sink' = sink /\ got' = got /\ input' = input /\ missed' = missed
      BY DEF vars
<1>2. \A side : Inputs(side)' = Inputs(side)
      BY <1>1, InputsStay
<1>3. GroupInv'
      BY <1>1, <1>2, GroupsCompleteAre DEF CircuitInv, GroupInv
<1>4. \A T : Surviving(T)' = Surviving(T)
      BY <1>2, SurvivingAre
<1>5. DedupInv'
      BY <1>1, <1>4 DEF CircuitInv, DedupInv
<1>6. Keys_(Surviving(Accepted))' = Keys_(Surviving(Accepted))
  <2>1. Keys_(Surviving(Accepted))' = Keys_(Surviving(Accepted)')
        BY DEF Keys_
  <2>2. QED  BY <1>4, <2>1
<1>7. DupInv'
      BY <1>1, <1>6 DEF CircuitInv, DupInv
<1>8. BranchInv'
      BY <1>1, <1>2 DEF CircuitInv, BranchInv
<1>9. JoinInv'
      BY <1>1, <1>2 DEF CircuitInv, JoinInv
<1>10. QED  BY <1>1, <1>3, <1>5, <1>7, <1>8, <1>9 DEF CircuitInv

(* The invariants of all circuits hold after any number of pushes and pulls, *)
(* in whatever order the pusher and the puller take turns.                   *)
THEOREM CircuitsInvariant == Spec => []CircuitInv
<1>1. CircuitInv /\ [Push \/ Pull]_vars => CircuitInv'
      BY CircuitStep, CircuitStutter
<1>2. QED  BY <1>1, CircuitInit, PTL DEF Spec

(* pushpull/group_by.h, tee.h, dedup.h: behind a Tee whose other branch ends *)
(* the group by a Dedup, GroupBy loses, repeats and reorders nothing.  The   *)
(* groups of a key that end_group flushed, with the one that is open, are    *)
(* what push_group was given for the key, and each has exactly num_dups_     *)
(* elements.                                                                 *)
THEOREM GroupsKept == Spec => []GroupsComplete
<1>1. CircuitInv => GroupsComplete
      BY DEF CircuitInv, GroupInv, GroupsComplete
<1>2. QED  BY <1>1, CircuitsInvariant, PTL

(* pushpull/dup.h, dedup.h: what Dedup<Pull> returns of a Queue that         *)
(* Dup<Push> filled, and what Dedup<Push> passes on of what Dup<Pull>        *)
(* returned, is a prefix of the keys that the filters let through, however   *)
(* many pulls come back empty.                                               *)
THEOREM DupsCancel == Spec => []DupsUndone
<1>1. CircuitInv => DupsUndone
      BY DupUndone, DedupUndone DEF CircuitInv, DupsUndone
<1>2. QED  BY <1>1, CircuitsInvariant, PTL

(* pushpull/round_robin.h: RoundRobin<Pull> collects in the order in which   *)
(* RoundRobin<Push> dealt out until a pull comes back empty, and from then   *)
(* on fewer than Branches elements ever overtake one.                        *)
THEOREM BranchesInOrder == Spec => []RoundRobinOrder
<1>1. CircuitInv => RoundRobinOrder
      BY BranchOrder DEF CircuitInv
<1>2. QED  BY <1>1, CircuitsInvariant, PTL

(* pushpull/join.h: Join<Push> has pushed, and Join<Pull> has returned or    *)
(* buffered, every pair of equal keys among the elements it has taken        *)
(* exactly once, and Join<Pull> is never more than one element ahead with    *)
(* its left side.                                                            *)
THEOREM JoinsExact == Spec => []JoinsComplete
<1>1. CircuitInv => JoinsComplete
      BY JoinComplete DEF CircuitInv
<1>2. QED  BY <1>1, CircuitsInvariant, PTL
==============================================================================
