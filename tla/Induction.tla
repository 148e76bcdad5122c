----------------------------- MODULE Induction -----------------------------
(* Induction over data, for the proofs about what a recursive function      *)
(* computes: the induction theorems of the library take the induction       *)
(* hypothesis as an operator, these take it as a set.                       *)
EXTENDS Integers, Sequences, FiniteSetTheorems, FunctionTheorems, SequenceTheorems, TLAPS

(* A set with 0 that has n + 1 with every n has every number: below a number *)
(* that it lacked, to add 1 would be an injection of a finite set into less  *)
(* of it.                                                                   *)
LEMMA SetInduction ==
  ASSUME NEW S, 0 \in S, \A n \in Nat : n \in S => n + 1 \in S
  PROVE  Nat \subseteq S
<1> SUFFICES ASSUME NEW n \in Nat, n \notin S PROVE FALSE OBVIOUS
<1> DEFINE A == {k \in 0 .. n : k \in S}
           f == [k \in A |-> k + 1]
<1>1. IsFiniteSet(A)
  <2>1. IsFiniteSet(0 .. n) BY FS_Interval
  <2> QED BY <2>1, FS_Subset
<1>2. f \in [A -> A \ {0}] OBVIOUS
<1>3. \A a, b \in A : f[a] = f[b] => a = b OBVIOUS
<1>4. f \in Injection(A, A \ {0}) BY <1>2, <1>3 DEF Injection, IsInjective
<1>5. IsFiniteSet(A \ {0}) BY <1>1, FS_Subset
<1>6. Cardinality(A) <= Cardinality(A \ {0}) BY <1>4, <1>5, FS_Injection
<1>7. 0 \in A OBVIOUS
<1>8. Cardinality(A \ {0}) = Cardinality(A) - 1 BY <1>1, <1>7, FS_RemoveElement
<1>9. Cardinality(A) \in Nat BY <1>1, FS_CardinalityType
<1> QED BY <1>6, <1>8, <1>9

(* A function defined by recursion exists: one step f[n] after another.    *)
StepsOf(L, V) == [1 .. L -> [V -> V]]
IsRun(w, L, V, b, F) ==
    w \in [0 .. L -> V] /\ w[0] = b /\ \A n \in 1 .. L : w[n] = F[n][w[n - 1]]

LEMMA Iterates ==
  ASSUME NEW V, NEW L \in Nat, NEW b \in V, NEW F \in StepsOf(L, V)
  PROVE  \E w : IsRun(w, L, V, b, F)
<1> USE DEF StepsOf, IsRun
<1> DEFINE Is(w, k) == w[0] = b /\ \A n \in 1 .. k : w[n] = F[n][w[n - 1]]
           S == {k \in Nat : k <= L => \E w \in [0 .. k -> V] : Is(w, k)}
<1>1. 0 \in S
  <2>1. [n \in 0 .. 0 |-> b] \in [0 .. 0 -> V] /\ Is([n \in 0 .. 0 |-> b], 0) OBVIOUS
  <2> QED BY <2>1
<1>2. ASSUME NEW k \in Nat, k \in S PROVE k + 1 \in S
  <2> SUFFICES ASSUME k + 1 <= L PROVE \E w \in [0 .. k + 1 -> V] : Is(w, k + 1) OBVIOUS
  <2>1. PICK w \in [0 .. k -> V] : Is(w, k) BY <1>2
  <2> DEFINE x == F[k + 1][w[k]]
             v == [n \in 0 .. k + 1 |-> IF n = k + 1 THEN x ELSE w[n]]
  <2>2. k + 1 \in 1 .. L /\ w[k] \in V OBVIOUS
  <2>3. x \in V BY <2>2
  <2>4. v \in [0 .. k + 1 -> V] BY <2>3
  <2>5. \A n \in 0 .. k : v[n] = w[n] OBVIOUS
  <2>6. v[k + 1] = F[k + 1][v[k]]
    <3>1. v[k + 1] = x OBVIOUS
    <3>2. v[k] = w[k] BY <2>5
    <3> QED BY <3>1, <3>2
  <2>7. \A n \in 1 .. k : v[n] = F[n][v[n - 1]] BY <2>1, <2>5
  <2>8. Is(v, k + 1)
    <3>1. \A n \in 1 .. k + 1 : n = k + 1 \/ n \in 1 .. k OBVIOUS
    <3>2. v[0] = b BY <2>1, <2>5
    <3>3. \A n \in 1 .. k + 1 : v[n] = F[n][v[n - 1]]
      <4> TAKE n \in 1 .. k + 1
      <4>1. CASE n = k + 1
        <5>1. n - 1 = k BY <4>1
        <5> HIDE DEF v
        <5> QED BY <4>1, <5>1, <2>6
      <4>2. CASE n \in 1 .. k
        <5> HIDE DEF v
        <5> QED BY <4>2, <2>7
      <4> QED BY <3>1, <4>1, <4>2
    <3> QED BY <3>2, <3>3
  <2> QED BY <2>4, <2>8
<1> HIDE DEF S
<1>3. Nat \subseteq S BY <1>1, <1>2, SetInduction
<1> QED BY <1>3 DEF S

(* A beginning of a sequence, and a sequence with one more element. *)
LEMMA Upto ==
  ASSUME NEW S, NEW s \in Seq(S), NEW k \in 0 .. Len(s)
  PROVE  /\ SubSeq(s, 1, k) \in Seq(S) /\ Len(SubSeq(s, 1, k)) = k
         /\ \A i \in 1 .. k : SubSeq(s, 1, k)[i] = s[i]
<1>1. k \in Int /\ 1 \in Int /\ k - 1 + 1 = k /\ (IF 1 <= k THEN k - 1 + 1 ELSE 0) = k OBVIOUS
<1>2. \A i \in 1 .. k : s[i] \in S OBVIOUS
<1>3. /\ SubSeq(s, 1, k) \in Seq(S)
      /\ Len(SubSeq(s, 1, k)) = IF 1 <= k THEN k - 1 + 1 ELSE 0
      /\ \A i \in 1 .. k - 1 + 1 : SubSeq(s, 1, k)[i] = s[1 + i - 1]
  BY <1>1, <1>2, SubSeqProperties
<1>4. \A i \in 1 .. k : 1 + i - 1 = i OBVIOUS
<1> QED BY <1>1, <1>3, <1>4

LEMMA Appended ==
  ASSUME NEW S, NEW s \in Seq(S), NEW e \in S
  PROVE  /\ Append(s, e) \in Seq(S) /\ Len(s) + 1 \in Nat /\ Len(s) + 1 \notin DOMAIN s
         /\ DOMAIN Append(s, e) = DOMAIN s \cup {Len(s) + 1}
         /\ Append(s, e)[Len(s) + 1] = e
         /\ \A i \in DOMAIN s : Append(s, e)[i] = s[i] /\ i \in Nat /\ i <= Len(s) + 1
<1>1. /\ Len(s) \in Nat /\ DOMAIN s = 1 .. Len(s) OBVIOUS
<1>2. Append(s, e) \in Seq(S) /\ Len(Append(s, e)) = Len(s) + 1 OBVIOUS
<1>3. DOMAIN Append(s, e) = 1 .. Len(s) + 1 BY <1>2
<1>4. 1 .. Len(s) + 1 = 1 .. Len(s) \cup {Len(s) + 1} BY <1>1
<1>5. Append(s, e)[Len(s) + 1] = e /\ \A i \in 1 .. Len(s) : Append(s, e)[i] = s[i] OBVIOUS
<1>6. \A i \in 1 .. Len(s) : i \in Nat /\ i <= Len(s) + 1 BY <1>1
<1>7. Len(s) + 1 \in Nat /\ Len(s) + 1 \notin 1 .. Len(s) BY <1>1
<1> QED BY <1>1, <1>2, <1>3, <1>4, <1>5, <1>6, <1>7
=============================================================================
