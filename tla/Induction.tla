----------------------------- MODULE Induction -----------------------------
(***************************************************************************)
(* Induction for the proofs about streams.  The provers do not instantiate *)
(* a theorem for an operator, but they do for a set: every non-empty set   *)
(* of naturals has a least element, and induction over a set, definition   *)
(* by recursion and the facts about FlattenSeq follow from that.           *)
(***************************************************************************)
EXTENDS Naturals, Sequences, SequencesExt, SequenceTheorems, WellFoundedInduction,
        TLAPS

\* A set of naturals that is not empty has a least element.
LEMMA LeastElement ==
  ASSUME NEW T \in SUBSET Nat, T # {}
  PROVE  \E n \in T : \A m \in T : n <= m
<1> DEFINE less == OpToRel(<, Nat)
<1>1. IsWellFoundedOn(less, Nat)
  BY NatLessThanWellFounded, Zenon
<1>2. \A m, n \in Nat : m < n => <<m, n>> \in less
  BY Zenon DEF OpToRel
<1> HIDE DEF less
<1>3. PICK n \in T : \A m \in T : <<m, n>> \notin less
  BY <1>1, WFMin
<1>4. ASSUME NEW m \in T  PROVE n <= m
  <2>1. ~(m < n)
    BY <1>2, <1>3
  <2> QED
    BY <2>1
<1> QED
  BY <1>4

\* Induction, with the statement as a set.
LEMMA SetInduction ==
  ASSUME NEW S, 0 \in S, \A n \in Nat : n \in S => n + 1 \in S
  PROVE  Nat \subseteq S
<1> DEFINE T == Nat \ S
<1> SUFFICES ASSUME T # {} PROVE FALSE
  OBVIOUS
<1>1. PICK n \in T : \A m \in T : n <= m
  BY LeastElement
<1>2. n # 0 /\ n - 1 \in Nat /\ n - 1 \notin T
  BY <1>1
<1> QED
  BY <1>2

\* Each value of f up to the n-th follows from the one before it.
Follows(f, n, base, next) ==
  f[0] = base /\ \A i \in 1..n : f[i] = next[<<i, f[i - 1]>>]

\* Such a function exists.
LEMMA Recursion ==
  ASSUME NEW T, NEW n \in Nat, NEW base \in T, NEW next \in [(1..n) \X T -> T]
  PROVE  \E f \in [0..n -> T] : Follows(f, n, base, next)
<1> USE DEF Follows
<1> DEFINE Upto(m, f) == Follows(f, m, base, next)
           S == {m \in Nat : m <= n => \E f \in [0..n -> T] : Upto(m, f)}
<1>1. 0 \in S
  <2> DEFINE f == [i \in 0..n |-> base]
  <2>1. f \in [0..n -> T] /\ Upto(0, f)
    OBVIOUS
  <2> QED
    BY <2>1
<1>2. ASSUME NEW m \in Nat, m \in S  PROVE m + 1 \in S
  <2> SUFFICES ASSUME m + 1 <= n  PROVE \E f \in [0..n -> T] : Upto(m + 1, f)
    OBVIOUS
  <2>1. PICK f \in [0..n -> T] : Upto(m, f)
    BY <1>2
  <2> DEFINE v == next[<<m + 1, f[m]>>]
             g == [f EXCEPT ![m + 1] = v]
  <2>2. v \in T
    BY <2>1
  <2> HIDE DEF v
  <2>3. g \in [0..n -> T] /\ \A i \in 0..n : g[i] = IF i = m + 1 THEN v ELSE f[i]
    BY <2>2
  <2> HIDE DEF g
  <2>4. ASSUME NEW i \in 1..(m + 1)  PROVE g[i] = next[<<i, g[i - 1]>>]
    <3>1. i \in 0..n /\ i - 1 \in 0..n /\ g[i - 1] = f[i - 1]
      BY <2>3
    <3>2. CASE i = m + 1
      <4>1. g[i] = v /\ i - 1 = m
        BY <2>3, <3>1, <3>2
      <4> QED
        BY <3>1, <3>2, <4>1 DEF v
    <3>3. CASE i # m + 1
      <4>1. i \in 1..m /\ g[i] = f[i]
        BY <2>3, <3>1, <3>3
      <4> QED
        BY <2>1, <3>1, <4>1
    <3> QED
      BY <3>2, <3>3
  <2>5. g[0] = base
    BY <2>1, <2>3
  <2> QED
    BY <2>3, <2>4, <2>5
<1> HIDE DEF S
<1>3. n \in S
  BY <1>1, <1>2, SetInduction
<1> QED
  BY <1>3 DEF S

-----------------------------------------------------------------------------
(* FlattenSeq: its value is built up one sequence after the other.         *)

\* The partial results of FlattenSeq.
IsFlattening(f, ss) ==
  f[0] = <<>> /\ \A i \in 1..Len(ss) : f[i] = f[i - 1] \o ss[i]

\* The function inside FlattenSeq, which begins with the first sequence.
Flattens(g, ss) ==
  g = [i \in 1..Len(ss) |-> IF i = 1 THEN ss[i] ELSE g[i - 1] \o ss[i]]

\* They exist, and are sequences.
LEMMA FlattenExists ==
  ASSUME NEW S, NEW ss \in Seq(Seq(S))
  PROVE  \E f \in [0..Len(ss) -> Seq(S)] : IsFlattening(f, ss)
<1> DEFINE n == Len(ss)
           T == Seq(S)
           next == [x \in (1..n) \X T |-> x[2] \o ss[x[1]]]
<1>1. n \in Nat /\ ss \in [1..n -> T] /\ <<>> \in T
  OBVIOUS
<1>2. next \in [(1..n) \X T -> T]
  BY <1>1
<1>3. \A i \in 1..n, t \in T : next[<<i, t>>] = t \o ss[i]
  OBVIOUS
<1> HIDE DEF n, T, next
<1>4. PICK f \in [0..n -> T] : Follows(f, n, <<>>, next)
  BY <1>1, <1>2, Recursion
<1>5. \A i \in 1..n : f[i - 1] \in T
  BY <1>1, <1>4
<1>6. \A i \in 1..n : f[i] = f[i - 1] \o ss[i]
  BY <1>3, <1>4, <1>5 DEF Follows
<1> QED
  BY <1>4, <1>6 DEF Follows, IsFlattening, n, T

\* They begin with the first sequence, as the function inside FlattenSeq does.
LEMMA FlattenFirst ==
  ASSUME NEW S, NEW ss \in Seq(Seq(S)), NEW f \in [0..Len(ss) -> Seq(S)],
         IsFlattening(f, ss), NEW i \in 1..Len(ss)
  PROVE  f[i] = IF i = 1 THEN ss[i] ELSE f[i - 1] \o ss[i]
<1>1. ss[i] \in Seq(S) /\ <<>> \o ss[i] = ss[i]
  BY ConcatEmptySeq
<1>2. f[i] = f[i - 1] \o ss[i] /\ f[0] = <<>>
  BY Zenon DEF IsFlattening
<1>3. i = 1 => i - 1 = 0
  OBVIOUS
<1> QED
  BY <1>1, <1>2, <1>3, Zenon

\* So there is such a function.
LEMMA FlattensExists ==
  ASSUME NEW S, NEW ss \in Seq(Seq(S))
  PROVE  \E g : Flattens(g, ss)
<1>1. PICK f \in [0..Len(ss) -> Seq(S)] : IsFlattening(f, ss)
  BY FlattenExists
<1> DEFINE g == [i \in 1..Len(ss) |-> f[i]]
<1>2. \A i \in 1..Len(ss) : f[i] = IF i = 1 THEN ss[i] ELSE g[i - 1] \o ss[i]
  <2>1. ASSUME NEW i \in 1..Len(ss)
        PROVE  f[i] = IF i = 1 THEN ss[i] ELSE g[i - 1] \o ss[i]
    <3>1. i # 1 => g[i - 1] = f[i - 1]
      OBVIOUS
    <3> HIDE DEF g
    <3>2. f[i] = IF i = 1 THEN ss[i] ELSE f[i - 1] \o ss[i]
      BY <1>1, FlattenFirst
    <3> QED
      BY <3>1, <3>2
  <2> QED
    BY <2>1
<1>3. Flattens(g, ss)
  BY <1>2 DEF Flattens
<1> QED
  BY <1>3

\* And any such function has the partial results as its values.
LEMMA FlattensAgree ==
  ASSUME NEW S, NEW ss \in Seq(Seq(S)), NEW g, Flattens(g, ss),
         NEW f \in [0..Len(ss) -> Seq(S)], IsFlattening(f, ss)
  PROVE  \A i \in 1..Len(ss) : g[i] = f[i]
<1> DEFINE Agree == {i \in Nat : i \in 1..Len(ss) => g[i] = f[i]}
<1>1. 0 \in Agree
  OBVIOUS
<1>2. ASSUME NEW i \in Nat, i \in Agree  PROVE i + 1 \in Agree
  <2> SUFFICES ASSUME i + 1 \in 1..Len(ss)  PROVE g[i + 1] = f[i + 1]
    OBVIOUS
  <2>1. g[i + 1] = IF i + 1 = 1 THEN ss[i + 1] ELSE g[(i + 1) - 1] \o ss[i + 1]
    BY Zenon DEF Flattens
  <2>2. f[i + 1] = IF i + 1 = 1 THEN ss[i + 1] ELSE f[(i + 1) - 1] \o ss[i + 1]
    BY FlattenFirst
  <2>3. (i + 1) - 1 = i /\ (i + 1 # 1 => i \in 1..Len(ss))
    OBVIOUS
  <2>4. i + 1 # 1 => g[i] = f[i]
    BY <1>2, <2>3
  <2> QED
    BY <2>1, <2>2, <2>3, <2>4, Zenon
<1> HIDE DEF Agree
<1>3. Nat \subseteq Agree
  BY <1>1, <1>2, SetInduction
<1> QED
  BY <1>3 DEF Agree

\* FlattenSeq is the last of the partial results, all of them sequences.
LEMMA FlattenDef ==
  ASSUME NEW S, NEW ss \in Seq(Seq(S)),
         NEW f \in [0..Len(ss) -> Seq(S)], IsFlattening(f, ss)
  PROVE  FlattenSeq(ss) = f[Len(ss)]
<1>1. CASE Len(ss) = 0
  <2>1. FlattenSeq(ss) = ss /\ ss = <<>>
    BY <1>1 DEF FlattenSeq
  <2> QED
    BY <1>1, <2>1 DEF IsFlattening
<1>2. CASE Len(ss) # 0
  <2> DEFINE g == CHOOSE h : Flattens(h, ss)
  <2>1. FlattenSeq(ss) = g[Len(ss)]
    BY <1>2, Zenon DEF FlattenSeq, Flattens
  <2>2. Flattens(g, ss)
    BY FlattensExists
  <2>3. Len(ss) \in 1..Len(ss)
    BY <1>2
  <2> HIDE DEF g
  <2>4. g[Len(ss)] = f[Len(ss)]
    BY <2>2, <2>3, FlattensAgree, SMTT(30)
  <2> QED
    BY <2>1, <2>4
<1> QED
  BY <1>1, <1>2

\* The i-th sequence lies in the last partial result, behind the one before it.
PlacedIn(f, ss, i) ==
  /\ Len(f[i]) = Len(f[i - 1]) + Len(ss[i])
  /\ Len(f[i]) <= Len(f[Len(ss)])
  /\ \A k \in 1..Len(ss[i]) : f[Len(ss)][Len(f[i - 1]) + k] = ss[i][k]

\* Each partial result begins the last one, and every sequence has its place there.
LEMMA FlattenPlaces ==
  ASSUME NEW S, NEW ss \in Seq(Seq(S)),
         NEW f \in [0..Len(ss) -> Seq(S)], IsFlattening(f, ss),
         NEW x \in 1..Len(ss)
  PROVE  PlacedIn(f, ss, x)
<1> DEFINE n == Len(ss)
           Placed(i, g) == /\ Len(f[i]) = Len(f[i - 1]) + Len(ss[i])
                           /\ Len(f[i]) <= Len(g)
                           /\ \A k \in 1..Len(ss[i]) : g[Len(f[i - 1]) + k] = ss[i][k]
           Done == {j \in Nat : j \in 0..n => \A i \in 1..j : Placed(i, f[j])}
           T == Seq(S)
<1>1. n \in Nat /\ f \in [0..n -> T] /\ ss \in [1..n -> T]
  OBVIOUS
<1> HIDE DEF n
<1>2. ASSUME NEW i \in 1..n
      PROVE  /\ i - 1 \in 0..n /\ i \in 0..n
             /\ f[i - 1] \in Seq(S) /\ ss[i] \in Seq(S) /\ f[i] \in Seq(S)
             /\ f[i] = f[i - 1] \o ss[i]
  <2> HIDE DEF T
  <2>1. i - 1 \in 0..n /\ i \in 0..n
    BY <1>1
  <2>2. f[i] = f[i - 1] \o ss[i]
    BY Zenon DEF IsFlattening, n
  <2>3. f[i - 1] \in T /\ ss[i] \in T /\ f[i] \in T
    BY <1>1, <2>1
  <2> QED
    BY <2>1, <2>2, <2>3 DEF T
<1>3. 0 \in Done
  <2> HIDE DEF Placed
  <2> QED
    OBVIOUS
<1>4. ASSUME NEW j \in Nat, j \in Done  PROVE j + 1 \in Done
  <2> SUFFICES ASSUME j + 1 \in 0..n, NEW i \in 1..(j + 1)  PROVE Placed(i, f[j + 1])
    <3> HIDE DEF Placed
    <3> QED
      OBVIOUS
  <2>1. j + 1 \in 1..n /\ (j + 1) - 1 = j /\ i \in 1..n /\ j \in 0..n
    BY <1>1
  <2> DEFINE a == f[j]
             b == ss[j + 1]
  <2>2. a \in Seq(S) /\ b \in Seq(S) /\ f[j + 1] = a \o b
    BY <1>2, <2>1
  <2>3. CASE i = j + 1
    <3> HIDE DEF a, b
    <3>1. /\ Len(a \o b) = Len(a) + Len(b) /\ Len(a) \in Nat /\ Len(b) \in Nat
          /\ \A k \in 1..Len(b) : (a \o b)[Len(a) + k] = b[k]
      BY <2>2
    <3>2. f[i] = a \o b /\ f[i - 1] = a /\ ss[i] = b
      BY <2>1, <2>2, <2>3 DEF a, b
    <3> QED
      BY <2>2, <3>1, <3>2
  <2>4. CASE i # j + 1
    <3>1. i \in 1..j /\ Placed(i, a)
      <4>1. i \in 1..j
        BY <2>1, <2>4
      <4> QED
        BY <1>4, <2>1, <4>1
    <3>2. /\ Len(f[i - 1]) \in Nat /\ Len(ss[i]) \in Nat /\ Len(f[i]) \in Nat
      BY <1>2, <2>1
    <3> HIDE DEF a, b
    <3>3. /\ Len(a \o b) = Len(a) + Len(b) /\ Len(a) \in Nat /\ Len(b) \in Nat
          /\ \A k \in 1..Len(a) : (a \o b)[k] = a[k]
      BY <2>2
    <3>4. \A u, v, w \in Nat : u + v <= w => \A k \in 1..v : u + k \in 1..w
      OBVIOUS
    <3>5. Len(f[i - 1]) + Len(ss[i]) <= Len(a)
      BY <3>1
    <3>6. \A k \in 1..Len(ss[i]) : Len(f[i - 1]) + k \in 1..Len(a)
      BY <3>2, <3>3, <3>4, <3>5
    <3>7. \A k \in 1..Len(ss[i]) : f[j + 1][Len(f[i - 1]) + k] = ss[i][k]
      BY <2>2, <3>1, <3>3, <3>6
    <3>8. Len(f[i]) <= Len(f[j + 1])
      <4>1. Len(f[j + 1]) = Len(a) + Len(b)
        BY <2>2, <3>3
      <4>2. Len(f[i]) <= Len(a)
        BY <3>1
      <4>3. \A u, v, w \in Nat : u <= v => u <= v + w
        OBVIOUS
      <4> QED
        BY <3>2, <3>3, <4>1, <4>2, <4>3
    <3> QED
      BY <3>1, <3>7, <3>8
  <2> QED
    BY <2>3, <2>4
<1> HIDE DEF Done
<1>5. Nat \subseteq Done
  BY <1>3, <1>4, SetInduction
<1>6. Placed(x, f[n])
  <2>1. n \in Done /\ n \in 0..n /\ x \in 1..n
    BY <1>1, <1>5 DEF n
  <2> QED
    BY <2>1, Zenon DEF Done
<1> QED
  BY <1>6, Zenon DEF n, PlacedIn

\* To flatten one sequence more is to append it.
LEMMA FlattenAppend ==
  ASSUME NEW S, NEW ss \in Seq(Seq(S)), NEW s \in Seq(S)
  PROVE  /\ FlattenSeq(ss) \in Seq(S)
         /\ FlattenSeq(Append(ss, s)) = FlattenSeq(ss) \o s
<1> DEFINE all == Append(ss, s)
           n == Len(ss)
<1>1. /\ all \in Seq(Seq(S)) /\ Len(all) = n + 1 /\ n \in Nat
      /\ all[n + 1] = s /\ \A i \in 1..n : all[i] = ss[i]
  OBVIOUS
<1> HIDE DEF all
<1>2. PICK f \in [0..Len(all) -> Seq(S)] : IsFlattening(f, all)
  BY <1>1, FlattenExists
<1>3. FlattenSeq(all) = f[n + 1]
  BY <1>1, <1>2, FlattenDef
<1>4. f[n + 1] = f[n] \o s
  <2>1. n + 1 \in 1..Len(all) /\ (n + 1) - 1 = n
    BY <1>1
  <2>2. f[n + 1] = f[(n + 1) - 1] \o all[n + 1]
    BY <1>2, <2>1, Zenon DEF IsFlattening
  <2> QED
    BY <1>1, <2>1, <2>2
<1> DEFINE g == [i \in 0..n |-> f[i]]
<1>5. g \in [0..n -> Seq(S)] /\ g[n] = f[n]
  BY <1>1, <1>2
<1>6. IsFlattening(g, ss)
  <2>1. g[0] = <<>>
    BY <1>1, <1>2 DEF IsFlattening
  <2>2. ASSUME NEW i \in 1..n  PROVE g[i] = g[i - 1] \o ss[i]
    <3>1. i \in 1..Len(all) /\ i \in 0..n /\ i - 1 \in 0..n
      BY <1>1
    <3>2. f[i] = f[i - 1] \o all[i]
      BY <1>2, <3>1, Zenon DEF IsFlattening
    <3>3. g[i] = f[i] /\ g[i - 1] = f[i - 1] /\ all[i] = ss[i]
      BY <1>1, <3>1
    <3> QED
      BY <3>2, <3>3, Zenon
  <2> QED
    BY <2>1, <2>2 DEF IsFlattening
<1> HIDE DEF g
<1>7. FlattenSeq(ss) = f[n]
  BY <1>5, <1>6, FlattenDef
<1> QED
  BY <1>3, <1>4, <1>5, <1>7 DEF all
=============================================================================
