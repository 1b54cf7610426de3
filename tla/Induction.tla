------------------------------ MODULE Induction ------------------------------
(***************************************************************************)
(* Lemmas on numbers and sequences that the proofs of several components   *)
(* rest on.                                                                *)
(*                                                                         *)
(* Induction is over sets of numbers and of sequences (NatSet,             *)
(* StrongNatSet, SeqSetAppend, SeqSetFirst), which follow from the least   *)
(* element of a set.  A recursive function is first shown to exist, and    *)
(* only then does its definition say what it is.                           *)
(***************************************************************************)
EXTENDS Naturals, Sequences, SequencesExt, SequenceTheorems, WellFoundedInduction, TLAPS

-----------------------------------------------------------------------------
(* Numbers.                                                                *)

\* A nonempty set of numbers has a least element.
LEMMA LeastNat ==
  ASSUME NEW T, T \subseteq Nat, T # {}
  PROVE  \E n \in T : \A m \in T : n <= m
<1> DEFINE R == OpToRel(<, Nat)
<1>1. IsWellFoundedOn(R, Nat)
  BY NatLessThanWellFounded
<1>2. PICK n \in T : \A m \in T : ~(<<m, n>> \in R)
  <2> HIDE DEF R
  <2> QED BY <1>1, WFMin
<1>3. \A m \in T : m < n => <<m, n>> \in R
  BY DEF OpToRel
<1>4. \A m \in T : m \in Nat /\ ~(m < n)
  BY <1>2, <1>3
<1>5. n \in Nat
  OBVIOUS
<1>6. \A m \in T : n <= m
  BY <1>4, <1>5
<1> QED BY <1>6

\* A set that every number enters when the smaller ones are in it holds them all.
LEMMA StrongNatSet ==
  ASSUME NEW T, T \subseteq Nat,
         \A n \in Nat : (\A m \in Nat : m < n => m \in T) => n \in T
  PROVE  T = Nat
<1> DEFINE U == Nat \ T
<1>1. ASSUME U # {} PROVE FALSE
  <2>1. U \subseteq Nat
    OBVIOUS
  <2>2. PICK n \in U : \A m \in U : n <= m
    <3> HIDE DEF U
    <3> QED BY <1>1, <2>1, LeastNat
  <2>3. \A m \in Nat : m < n => m \in T
    BY <2>2
  <2> QED BY <2>2, <2>3
<1> QED BY <1>1

\* A set that holds 0 and, with each number, the next holds them all.
LEMMA NatSet ==
  ASSUME NEW T, T \subseteq Nat, 0 \in T, \A n \in T : n + 1 \in T
  PROVE  T = Nat
<1>1. ASSUME NEW n \in Nat, \A m \in Nat : m < n => m \in T
      PROVE  n \in T
  <2>1. CASE n = 0
    BY <2>1
  <2>2. CASE n # 0
    <3>1. n - 1 \in Nat /\ n - 1 < n /\ (n - 1) + 1 = n
      BY <2>2
    <3>2. n - 1 \in T
      BY <1>1, <3>1
    <3> QED BY <3>1, <3>2
  <2> QED BY <2>1, <2>2
<1> QED BY <1>1, StrongNatSet

\* The bound of a set of numbers that holds it is its Max, and its Min.
LEMMA MaxIs ==
  ASSUME NEW s, s \subseteq Nat, NEW n \in s, \A m \in s : m <= n
  PROVE  Max(s) = n
<1>1. \E x \in s : \A y \in s : x >= y
  <2>1. \A y \in s : n >= y
    OBVIOUS
  <2> QED BY <2>1
<1>2. Max(s) \in s /\ \A y \in s : Max(s) >= y
  BY <1>1, Zenon DEF Max
<1>3. Max(s) \in Nat /\ n \in Nat /\ Max(s) <= n /\ Max(s) >= n
  BY <1>2
<1> QED BY <1>3

LEMMA MinIs ==
  ASSUME NEW s, s \subseteq Nat, NEW n \in s, \A m \in s : n <= m
  PROVE  Min(s) = n
<1>1. \E x \in s : \A y \in s : x =< y
  OBVIOUS
<1>2. Min(s) \in s /\ \A y \in s : Min(s) =< y
  BY <1>1, Zenon DEF Min
<1>3. Min(s) \in Nat /\ n \in Nat /\ n <= Min(s) /\ Min(s) <= n
  BY <1>2
<1> QED BY <1>3

-----------------------------------------------------------------------------
(* Folds.  FoldLeft takes the last of the positions that are left, folds   *)
(* the others, and applies its operator (here a function F of the value so *)
(* far and of a position, base being the first value).                     *)

LEMMA MaxExists ==
  ASSUME NEW n \in Nat
  PROVE  \A s \in SUBSET (1..n) : s # {} => Max(s) \in s
<1> DEFINE T == {k \in Nat : \A s \in SUBSET (1..k) : s # {} => Max(s) \in s}
<1>1. 0 \in T
  <2>1. \A s \in SUBSET (1..0) : s = {}
    OBVIOUS
  <2> QED BY <2>1
<1>2. ASSUME NEW k \in T
      PROVE  k + 1 \in T
  <2>1. ASSUME NEW s \in SUBSET (1..(k + 1)), s # {}
        PROVE  Max(s) \in s
    <3>1. CASE k + 1 \in s
      <4>1. s \subseteq Nat /\ \A m \in s : m <= k + 1
        OBVIOUS
      <4>2. Max(s) = k + 1
        BY <3>1, <4>1, MaxIs
      <4> QED BY <3>1, <4>2
    <3>2. CASE k + 1 \notin s
      <4>1. s \in SUBSET (1..k)
        BY <3>2
      <4> QED BY <2>1, <4>1
    <3> QED BY <3>1, <3>2
  <2> QED BY <2>1
<1>3. T = Nat
  <2>1. T \subseteq Nat
    OBVIOUS
  <2> HIDE DEF T
  <2> QED BY <1>1, <1>2, <2>1, NatSet
<1> QED BY <1>3

\* F is an operator on the values in V for the positions up to N, and g the values
\* of its fold over sets of these.
FoldOperator(V, base, N, F) ==
  base \in V /\ N \in Nat /\ F \in [V -> [1..N -> V]]

FoldValues(V, base, N, F, g) ==
  /\ g \in [SUBSET (1..N) -> V]
  /\ \A s \in SUBSET (1..N) : g[s] = IF s = {} THEN base ELSE F[g[s \ {Max(s)}]][Max(s)]

LEMMA FoldExists ==
  ASSUME NEW V, NEW base, NEW N, NEW F, FoldOperator(V, base, N, F)
  PROVE  \E g : FoldValues(V, base, N, F, g)
<1> USE DEF FoldOperator
<1> DEFINE Folds(n, g) ==
             /\ g \in [SUBSET (1..n) -> V]
             /\ \A s \in SUBSET (1..n) :
                  g[s] = IF s = {} THEN base ELSE F[g[s \ {Max(s)}]][Max(s)]
           T == {n \in Nat : n <= N => \E g : Folds(n, g)}
<1>1. 0 \in T
  <2>1. \A s \in SUBSET (1..0) : s = {}
    OBVIOUS
  <2>2. Folds(0, [s \in SUBSET (1..0) |-> base])
    BY <2>1
  <2> QED BY <2>2
<1>2. ASSUME NEW n \in T
      PROVE  n + 1 \in T
  <2>0. n \in Nat /\ n + 1 \in Nat
    OBVIOUS
  <2> SUFFICES ASSUME n + 1 <= N
               PROVE  \E h : Folds(n + 1, h)
    <3> HIDE DEF Folds
    <3> QED BY <2>0
  <2>1. n \in Nat /\ n <= N /\ n + 1 \in 1..N
    BY <2>0
  <2>2. PICK g : Folds(n, g)
    <3> HIDE DEF Folds
    <3> QED BY <2>1
  <2> DEFINE h == [s \in SUBSET (1..(n + 1)) |->
                     IF n + 1 \in s THEN F[g[s \ {n + 1}]][n + 1] ELSE g[s]]
  <2>3. ASSUME NEW s \in SUBSET (1..(n + 1)), n + 1 \in s
        PROVE  h[s] \in V /\ h[s] = IF s = {} THEN base ELSE F[h[s \ {Max(s)}]][Max(s)]
    <3>1. Max(s) = n + 1
      <4>1. s \subseteq Nat /\ \A m \in s : m <= n + 1
        BY <2>1
      <4> QED BY <2>3, <4>1, MaxIs
    <3>2. s \ {n + 1} \in SUBSET (1..n)
      BY <2>1
    <3>3. h[s \ {n + 1}] = g[s \ {n + 1}] /\ g[s \ {n + 1}] \in V
      BY <2>2, <3>2
    <3>4. h[s] = F[g[s \ {n + 1}]][n + 1] /\ s # {}
      BY <2>3
    <3>5. F[g[s \ {n + 1}]] \in [1..N -> V]
      BY <3>3
    <3>6. F[g[s \ {n + 1}]][n + 1] \in V
      BY <2>1, <3>5
    <3> HIDE DEF h
    <3> QED BY <3>1, <3>3, <3>4, <3>6
  <2>4. ASSUME NEW s \in SUBSET (1..(n + 1)), n + 1 \notin s
        PROVE  h[s] \in V /\ h[s] = IF s = {} THEN base ELSE F[h[s \ {Max(s)}]][Max(s)]
    <3>1. s \in SUBSET (1..n)
      BY <2>1, <2>4
    <3>2. h[s] = g[s] /\ g[s] \in V
      BY <2>2, <2>4, <3>1
    <3>3. s \ {Max(s)} \in SUBSET (1..n) /\ n + 1 \notin s \ {Max(s)}
      BY <2>4, <3>1
    <3>4. h[s \ {Max(s)}] = g[s \ {Max(s)}]
      BY <2>4, <3>3
    <3>5. g[s] = IF s = {} THEN base ELSE F[g[s \ {Max(s)}]][Max(s)]
      BY <2>2, <3>1
    <3> HIDE DEF h
    <3> QED BY <3>2, <3>4, <3>5
  <2>5. \A s \in SUBSET (1..(n + 1)) :
          h[s] \in V /\ h[s] = IF s = {} THEN base ELSE F[h[s \ {Max(s)}]][Max(s)]
    <3> HIDE DEF h
    <3> QED BY <2>3, <2>4
  <2>6. h = [s \in SUBSET (1..(n + 1)) |-> h[s]]
    OBVIOUS
  <2>7. Folds(n + 1, h)
    <3> HIDE DEF h
    <3>1. h \in [SUBSET (1..(n + 1)) -> V]
      BY <2>5, <2>6
    <3> QED BY <2>5, <3>1
  <2> HIDE DEF h, Folds
  <2> QED BY <2>7
<1>3. T = Nat
  <2>1. T \subseteq Nat
    OBVIOUS
  <2> HIDE DEF T
  <2> QED BY <1>1, <1>2, <2>1, NatSet
<1>4. \E g : Folds(N, g)
  <2>1. N \in T
    <3> HIDE DEF T
    <3> QED BY <1>3
  <2>2. N <= N
    OBVIOUS
  <2> HIDE DEF Folds
  <2> QED BY <2>1, <2>2
<1> QED BY <1>4 DEF FoldValues

\* The positions that a fold has taken, from the first on, are 1..k.
LEMMA LastTaken ==
  ASSUME NEW k \in Nat, k # 0
  PROVE  Max(1..k) = k /\ (1..k) \ {Max(1..k)} = 1..(k - 1) /\ 1..k # {}
<1>1. k \in 1..k /\ 1..k \subseteq Nat /\ \A m \in 1..k : m <= k
  OBVIOUS
<1>2. Max(1..k) = k
  BY <1>1, MaxIs
<1>3. (1..k) \ {k} = 1..(k - 1)
  OBVIOUS
<1> QED BY <1>1, <1>2, <1>3

-----------------------------------------------------------------------------
(* Sequences.                                                              *)

\* Every sequence is reached by adding elements at its end, or at its beginning.
LEMMA SeqSetAppend ==
  ASSUME NEW S, NEW T, T \subseteq Seq(S), <<>> \in T,
         \A c \in T : \A e \in S : Append(c, e) \in T
  PROVE  T = Seq(S)
<1> DEFINE U == {n \in Nat : \A c \in Seq(S) : Len(c) = n => c \in T}
<1>1. 0 \in U
  <2>1. \A c \in Seq(S) : Len(c) = 0 => c = <<>>
    OBVIOUS
  <2> QED BY <2>1
<1>2. ASSUME NEW n \in U
      PROVE  n + 1 \in U
  <2>1. n \in Nat /\ n + 1 \in Nat
    OBVIOUS
  <2>2. ASSUME NEW c \in Seq(S), Len(c) = n + 1
        PROVE  c \in T
    <3>1. c # <<>>
      BY <2>1, <2>2
    <3>2. PICK d \in Seq(S), e \in S : c = Append(d, e)
      BY <3>1, SequenceEmptyOrAppend
    <3>3. Len(d) \in Nat /\ Len(c) = Len(d) + 1
      BY <3>2, AppendProperties
    <3>4. Len(d) = n
      BY <2>1, <2>2, <3>3
    <3>5. d \in T
      BY <3>4
    <3> HIDE DEF U
    <3> QED BY <3>2, <3>5
  <2> QED BY <2>1, <2>2
<1>3. U = Nat
  <2>1. U \subseteq Nat
    OBVIOUS
  <2> HIDE DEF U
  <2> QED BY <1>1, <1>2, <2>1, NatSet
<1>4. ASSUME NEW c \in Seq(S)
      PROVE  c \in T
  <2>1. Len(c) \in U
    <3>1. Len(c) \in Nat
      BY LenProperties
    <3> HIDE DEF U
    <3> QED BY <1>3, <3>1
  <2> QED BY <2>1
<1> QED BY <1>4

LEMMA SeqSetFirst ==
  ASSUME NEW S, NEW T, T \subseteq Seq(S), <<>> \in T,
         \A c \in T : \A e \in S : <<e>> \o c \in T
  PROVE  T = Seq(S)
<1> DEFINE U == {n \in Nat : \A c \in Seq(S) : Len(c) = n => c \in T}
<1>1. 0 \in U
  <2>1. \A c \in Seq(S) : Len(c) = 0 => c = <<>>
    OBVIOUS
  <2> QED BY <2>1
<1>2. ASSUME NEW n \in U
      PROVE  n + 1 \in U
  <2>1. n \in Nat /\ n + 1 \in Nat
    OBVIOUS
  <2>2. ASSUME NEW c \in Seq(S), Len(c) = n + 1
        PROVE  c \in T
    <3>1. Len(c) \in Nat /\ 1 \in 1..Len(c) /\ Len(c) \in 1..Len(c)
      BY <2>1, <2>2
    <3> DEFINE d == SubSeq(c, 2, Len(c))
    <3>2. c = <<c[1]>> \o d
      <4>1. SubSeq(c, 1, Len(c)) = c
        BY SubSeqFull
      <4>2. SubSeq(c, 1, Len(c)) = <<c[1]>> \o SubSeq(c, 1 + 1, Len(c))
        BY <3>1, SubSeqRecursiveFirst
      <4>3. 1 + 1 = 2
        OBVIOUS
      <4> QED BY <4>1, <4>2, <4>3, Zenon
    <3>3. d \in Seq(S) /\ Len(d) = n
      <4>1. \A i \in 2..Len(c) : c[i] \in S
        BY <3>1, ElementOfSeq
      <4>2. d \in Seq(S) /\ Len(d) = IF 2 <= Len(c) THEN Len(c) - 2 + 1 ELSE 0
        BY <3>1, <4>1, SubSeqProperties
      <4> HIDE DEF d
      <4> QED BY <2>1, <2>2, <4>2
    <3> HIDE DEF d
    <3>4. d \in T /\ c[1] \in S
      BY <3>1, <3>3, ElementOfSeq
    <3> HIDE DEF U
    <3>5. <<c[1]>> \o d \in T
      BY <3>4
    <3> QED BY <3>2, <3>5
  <2> QED BY <2>1, <2>2
<1>3. U = Nat
  <2>1. U \subseteq Nat
    OBVIOUS
  <2> HIDE DEF U
  <2> QED BY <1>1, <1>2, <2>1, NatSet
<1>4. ASSUME NEW c \in Seq(S)
      PROVE  c \in T
  <2>1. Len(c) \in U
    <3>1. Len(c) \in Nat
      BY LenProperties
    <3> HIDE DEF U
    <3> QED BY <1>3, <3>1
  <2> QED BY <2>1
<1> QED BY <1>4

\* What follows a part of a sequence.
LEMMA Rest ==
  ASSUME NEW S, NEW a \in Seq(S), NEW q \in Seq(S)
  PROVE  SubSeq(a \o q, Len(a) + 1, Len(a \o q)) = q
<1> DEFINE b == a \o q
           s == SubSeq(b, Len(a) + 1, Len(b))
<1>1. Len(a) \in Nat /\ Len(q) \in Nat
  OBVIOUS
<1>2. /\ b \in Seq(S) /\ Len(b) = Len(a) + Len(q)
      /\ \A i \in 1..(Len(a) + Len(q)) : b[i] = IF i <= Len(a) THEN a[i] ELSE q[i - Len(a)]
  BY ConcatProperties
<1> HIDE DEF b
<1>3. \A i \in (Len(a) + 1)..Len(b) : b[i] \in S
  <2>1. \A i \in (Len(a) + 1)..Len(b) : i \in 1..Len(b)
    BY <1>1, <1>2
  <2> QED BY <1>2, <2>1, ElementOfSeq
<1>4. Len(a) + 1 \in Int /\ Len(b) \in Int
  BY <1>1, <1>2
<1>5. /\ s \in Seq(S)
      /\ Len(s) = IF Len(a) + 1 <= Len(b) THEN Len(b) - (Len(a) + 1) + 1 ELSE 0
      /\ \A i \in 1..(Len(b) - (Len(a) + 1) + 1) : s[i] = b[(Len(a) + 1) + i - 1]
  BY <1>3, <1>4, SubSeqProperties
<1> HIDE DEF s
<1>6. Len(s) = Len(q) /\ Len(b) - (Len(a) + 1) + 1 = Len(q)
  BY <1>1, <1>2, <1>5
<1>7. ASSUME NEW i \in 1..Len(q)
      PROVE  s[i] = q[i]
  <2> DEFINE j == (Len(a) + 1) + i - 1
  <2>1. j \in 1..(Len(a) + Len(q)) /\ ~(j <= Len(a)) /\ j - Len(a) = i
    BY <1>1
  <2>2. s[i] = b[j]
    BY <1>5, <1>6
  <2> HIDE DEF j
  <2> QED BY <1>2, <2>1, <2>2
<1>8. s = q
  BY <1>5, <1>6, <1>7, SeqEqual
<1> QED BY <1>8 DEF s, b

-----------------------------------------------------------------------------
(* Sequences put one after the other.                                      *)

\* The function by which FlattenSeq is defined.
FlattenIs(s, n, g) == g = [i \in 1..n |-> IF i = 1 THEN s[i] ELSE g[i - 1] \o s[i]]

\* g[i] are the first i of the n parts, one after the other.
FlattenChain(S, s, n, g) ==
  /\ g \in [1..n -> Seq(S)]
  /\ n > 0 => g[1] = s[1]
  /\ \A i \in 1..n : i # 1 => g[i] = g[i - 1] \o s[i]

LEMMA FlattenExists ==
  ASSUME NEW S, NEW s \in Seq(Seq(S))
  PROVE  \E g : FlattenChain(S, s, Len(s), g)
<1> DEFINE T == {n \in Nat : n <= Len(s) => \E g : FlattenChain(S, s, n, g)}
<1>0. Len(s) \in Nat /\ \A i \in 1..Len(s) : s[i] \in Seq(S)
  OBVIOUS
<1>1. 0 \in T
  <2>1. FlattenChain(S, s, 0, [i \in 1..0 |-> <<>>])
    BY DEF FlattenChain
  <2> QED BY <2>1
<1>2. ASSUME NEW n \in T
      PROVE  n + 1 \in T
  <2>0. n \in Nat /\ n + 1 \in Nat
    OBVIOUS
  <2> SUFFICES ASSUME n + 1 <= Len(s)
               PROVE  \E h : FlattenChain(S, s, n + 1, h)
    BY <2>0
  <2>1. n + 1 \in 1..Len(s) /\ n <= Len(s)
    BY <1>0, <2>0
  <2>2. PICK g : FlattenChain(S, s, n, g)
    BY <2>1
  <2> HIDE DEF T
  <2> DEFINE h == [i \in 1..(n + 1) |-> IF i <= n THEN g[i] ELSE IF i = 1 THEN s[1] ELSE g[n] \o s[i]]
  <2>3. /\ \A i \in 1..n : g[i] \in Seq(S)
        /\ n > 0 => g[1] = s[1]
        /\ \A i \in 1..n : i # 1 => g[i] = g[i - 1] \o s[i]
    BY <2>2 DEF FlattenChain
  <2>4. ASSUME NEW i \in 1..(n + 1)
        PROVE  h[i] \in Seq(S)
    <3>1. CASE i <= n
      BY <2>0, <2>3, <3>1
    <3>2. CASE ~(i <= n) /\ i = 1
      BY <1>0, <2>1, <3>2
    <3>3. CASE ~(i <= n) /\ i # 1
      <4>1. n \in 1..n /\ i = n + 1
        BY <2>0, <3>3
      <4>2. g[n] \in Seq(S) /\ s[i] \in Seq(S)
        BY <1>0, <2>1, <2>3, <4>1
      <4>3. g[n] \o s[i] \in Seq(S)
        BY <4>2, ConcatProperties
      <4> QED BY <3>3, <4>3
    <3> QED BY <3>1, <3>2, <3>3
  <2>5. h[1] = s[1]
    <3>1. 1 \in 1..(n + 1)
      BY <2>0
    <3>2. CASE 1 <= n
      BY <2>0, <2>3, <3>1, <3>2
    <3>3. CASE ~(1 <= n)
      BY <3>1, <3>3
    <3> QED BY <3>2, <3>3
  <2>6. ASSUME NEW i \in 1..(n + 1), i # 1
        PROVE  h[i] = h[i - 1] \o s[i]
    <3>1. i - 1 \in 1..(n + 1) /\ i - 1 <= n
      BY <2>0, <2>6
    <3>2. h[i - 1] = g[i - 1]
      BY <3>1
    <3>3. CASE i <= n
      <4>1. i \in 1..n
        BY <2>0, <3>3
      <4> QED BY <2>3, <2>6, <3>2, <3>3, <4>1
    <3>4. CASE ~(i <= n)
      <4>1. i - 1 = n
        BY <2>0, <3>4
      <4> QED BY <2>6, <3>2, <3>4, <4>1
    <3> QED BY <3>3, <3>4
  <2>7. h \in [1..(n + 1) -> Seq(S)]
    <3>1. h = [i \in 1..(n + 1) |-> h[i]]
      OBVIOUS
    <3> HIDE DEF h
    <3> QED BY <2>4, <3>1
  <2> HIDE DEF h
  <2>8. FlattenChain(S, s, n + 1, h)
    BY <2>5, <2>6, <2>7 DEF FlattenChain
  <2> QED BY <2>8
<1>3. T = Nat
  <2>1. T \subseteq Nat
    OBVIOUS
  <2> HIDE DEF T
  <2> QED BY <1>1, <1>2, <2>1, NatSet
<1>4. Len(s) \in T
  <2> HIDE DEF T
  <2> QED BY <1>0, <1>3
<1>5. Len(s) <= Len(s)
  BY <1>0
<1> QED BY <1>4, <1>5

LEMMA FlattenedIs ==
  ASSUME NEW S, NEW s \in Seq(Seq(S)), s # <<>>
  PROVE  \E g : FlattenChain(S, s, Len(s), g) /\ FlattenSeq(s) = g[Len(s)]
<1> DEFINE n == Len(s)
           it == CHOOSE flatten : flatten = [i \in 1..n |->
                   IF i = 1 THEN s[i] ELSE flatten[i - 1] \o s[i]]
<1>1. n \in Nat /\ n # 0 /\ n > 0
  OBVIOUS
<1>2. PICK g : FlattenChain(S, s, n, g)
  BY FlattenExists
<1>3. FlattenIs(s, n, g)
  <2>1. g = [i \in 1..n |-> g[i]]
    BY <1>2 DEF FlattenChain
  <2>2. \A i \in 1..n : g[i] = IF i = 1 THEN s[i] ELSE g[i - 1] \o s[i]
    BY <1>1, <1>2 DEF FlattenChain
  <2> QED BY <2>1, <2>2 DEF FlattenIs
<1>4. FlattenIs(s, n, it)
  BY <1>3, Zenon DEF FlattenIs
<1>5. FlattenSeq(s) = it[n]
  BY <1>1, Zenon DEF FlattenSeq
<1> HIDE DEF it, n
<1>6. \A i \in 1..n : it[i] = IF i = 1 THEN s[i] ELSE it[i - 1] \o s[i]
  BY <1>4 DEF FlattenIs
<1>7. \A i \in 1..n : g[i] = IF i = 1 THEN s[i] ELSE g[i - 1] \o s[i]
  BY <1>3 DEF FlattenIs
<1> DEFINE T == {k \in Nat : k \in 1..n => it[k] = g[k]}
<1>8. 0 \in T
  BY <1>1
<1>9. ASSUME NEW k \in T
      PROVE  k + 1 \in T
  <2>1. k \in Nat /\ k + 1 \in Nat
    OBVIOUS
  <2>2. ASSUME k + 1 \in 1..n
        PROVE  it[k + 1] = g[k + 1]
    <3>1. CASE k = 0
      BY <1>6, <1>7, <2>2, <3>1
    <3>2. CASE k # 0
      <4>1. k \in 1..n /\ (k + 1) - 1 = k /\ k + 1 # 1
        BY <1>1, <2>1, <2>2, <3>2
      <4>2. it[k] = g[k]
        BY <4>1
      <4> HIDE DEF T
      <4> QED BY <1>6, <1>7, <2>2, <4>1, <4>2
    <3> QED BY <3>1, <3>2
  <2> QED BY <2>1, <2>2
<1>10. n \in T
  <2>1. T \subseteq Nat
    OBVIOUS
  <2> HIDE DEF T
  <2> QED BY <1>1, <1>8, <1>9, <2>1, NatSet
<1>11. n \in 1..n
  BY <1>1
<1>12. FlattenSeq(s) = g[n]
  BY <1>5, <1>10, <1>11
<1> QED BY <1>2, <1>12 DEF n

LEMMA FlattenEmpty == FlattenSeq(<<>>) = <<>>
BY DEF FlattenSeq

\* A part more at the end.
LEMMA FlattenAppend ==
  ASSUME NEW S, NEW s \in Seq(Seq(S)), NEW e \in Seq(S)
  PROVE  FlattenSeq(Append(s, e)) = FlattenSeq(s) \o e
<1> DEFINE d == Append(s, e)
           n == Len(s)
<1>0. /\ d \in Seq(Seq(S)) /\ Len(d) = n + 1 /\ n \in Nat
      /\ d[n + 1] = e /\ \A i \in 1..n : d[i] = s[i]
  OBVIOUS
<1>1. /\ d \in Seq(Seq(S)) /\ d # <<>> /\ Len(d) = n + 1 /\ n \in Nat
      /\ d[n + 1] = e /\ \A i \in 1..n : d[i] = s[i]
  <2>1. Len(<<>>) = 0 /\ n + 1 # 0
    BY <1>0
  <2> HIDE DEF d, n
  <2> QED BY <1>0, <2>1
<1> HIDE DEF d
<1>2. PICK h : FlattenChain(S, d, Len(d), h) /\ FlattenSeq(d) = h[Len(d)]
  BY <1>1, FlattenedIs
<1>3. /\ h[1] = d[1]
      /\ \A i \in 1..(n + 1) : i # 1 => h[i] = h[i - 1] \o d[i]
      /\ FlattenSeq(d) = h[n + 1]
  BY SMTT(30), <1>1, <1>2 DEF FlattenChain
<1>4. CASE s = <<>>
  <2>1. n = 0
    BY <1>4
  <2>2. FlattenSeq(d) = e
    BY <1>1, <1>3, <2>1
  <2>3. FlattenSeq(s) = <<>>
    BY <1>4, FlattenEmpty
  <2>4. <<>> \o e = e
    BY ConcatEmptySeq
  <2> QED BY <2>2, <2>3, <2>4 DEF d
<1>5. CASE s # <<>>
  <2>1. n # 0 /\ n > 0 /\ n \in 1..n /\ n + 1 \in 1..(n + 1) /\ n + 1 # 1 /\ (n + 1) - 1 = n
    BY <1>1, <1>5
  <2>2. PICK g : FlattenChain(S, s, n, g) /\ FlattenSeq(s) = g[n]
    BY <1>5, FlattenedIs
  <2> HIDE DEF n
  <2>3. /\ g[1] = s[1]
        /\ \A i \in 1..n : i # 1 => g[i] = g[i - 1] \o s[i]
    BY <1>1, <2>1, <2>2 DEF FlattenChain
  <2> DEFINE T == {k \in Nat : k \in 1..n => h[k] = g[k]}
  <2>4. 0 \in T
    OBVIOUS
  <2>5. ASSUME NEW k \in T
        PROVE  k + 1 \in T
    <3>1. k \in Nat /\ k + 1 \in Nat
      OBVIOUS
    <3>2. ASSUME k + 1 \in 1..n
          PROVE  h[k + 1] = g[k + 1]
      <4>1. CASE k = 0
        BY <1>1, <1>3, <2>3, <3>2, <4>1
      <4>2. CASE k # 0
        <5>1. k \in 1..n /\ (k + 1) - 1 = k /\ k + 1 # 1 /\ k + 1 \in 1..(n + 1)
          BY <1>1, <3>1, <3>2, <4>2
        <5>2. h[k] = g[k]
          BY <5>1
        <5> HIDE DEF T
        <5> QED BY <1>1, <1>3, <2>3, <3>2, <5>1, <5>2
      <4> QED BY <4>1, <4>2
    <3> QED BY <3>1, <3>2
  <2>6. n \in T
    <3>1. T \subseteq Nat
      OBVIOUS
    <3> HIDE DEF T
    <3> QED BY <1>1, <2>4, <2>5, <3>1, NatSet
  <2>7. h[n] = g[n]
    BY <2>1, <2>6
  <2>8. FlattenSeq(d) = h[n] \o e
    BY <1>1, <1>3, <2>1
  <2> HIDE DEF T
  <2> QED BY <2>2, <2>7, <2>8 DEF d
<1> QED BY <1>4, <1>5

LEMMA FlattenIsSeq ==
  ASSUME NEW S, NEW s \in Seq(Seq(S))
  PROVE  FlattenSeq(s) \in Seq(S)
<1>1. CASE s = <<>>
  <2>1. <<>> \in Seq(S)
    OBVIOUS
  <2> QED BY <1>1, <2>1, FlattenEmpty, Zenon
<1>2. CASE s # <<>>
  <2>1. PICK g : FlattenChain(S, s, Len(s), g) /\ FlattenSeq(s) = g[Len(s)]
    BY <1>2, FlattenedIs
  <2>2. Len(s) \in 1..Len(s)
    BY <1>2
  <2>3. \A i \in 1..Len(s) : g[i] \in Seq(S)
    BY <2>1 DEF FlattenChain
  <2> QED BY <2>1, <2>2, <2>3, Zenon
<1> QED BY <1>1, <1>2

LEMMA PartsAssociative ==
  ASSUME NEW S, NEW a \in Seq(Seq(S)), NEW b \in Seq(Seq(S)), NEW c \in Seq(Seq(S))
  PROVE  (a \o b) \o c = a \o (b \o c)
  BY SMTT(30), ConcatAssociative

\* The first part comes first.
LEMMA FlattenFirst ==
  ASSUME NEW S, NEW e \in Seq(S), NEW s \in Seq(Seq(S))
  PROVE  FlattenSeq(<<e>> \o s) = e \o FlattenSeq(s)
<1> DEFINE T == {c \in Seq(Seq(S)) : FlattenSeq(<<e>> \o c) = e \o FlattenSeq(c)}
<1>1. <<>> \in T
  <2>1. <<e>> \o <<>> = Append(<<>>, e) /\ <<>> \in Seq(Seq(S))
    OBVIOUS
  <2>2. FlattenSeq(<<e>> \o <<>>) = <<>> \o e
    BY <2>1, FlattenAppend, FlattenEmpty
  <2>3. <<>> \o e = e /\ e \o <<>> = e
    BY ConcatEmptySeq
  <2> QED BY <2>1, <2>2, <2>3, FlattenEmpty
<1> HIDE DEF T
<1>2. ASSUME NEW c \in T, NEW d \in Seq(S)
      PROVE  Append(c, d) \in T
  <2> DEFINE f == FlattenSeq(c)
             x == <<e>>
  <2>1. c \in Seq(Seq(S)) /\ FlattenSeq(x \o c) = e \o f
    BY DEF T
  <2>2. x \in Seq(Seq(S))
    OBVIOUS
  <2> HIDE DEF x
  <2>3. f \in Seq(S) /\ x \o c \in Seq(Seq(S)) /\ Append(c, d) \in Seq(Seq(S))
    BY <2>1, <2>2, FlattenIsSeq, ConcatProperties, AppendProperties
  <2>4. x \o Append(c, d) = Append(x \o c, d)
    <3>1. Append(c, d) = c \o <<d>> /\ Append(x \o c, d) = (x \o c) \o <<d>>
      BY <2>1, <2>3, AppendIsConcat
    <3>2. <<d>> \in Seq(Seq(S))
      OBVIOUS
    <3>3. (x \o c) \o <<d>> = x \o (c \o <<d>>)
      <4> DEFINE y == <<d>>
      <4>1. y \in Seq(Seq(S))
        BY <3>2
      <4> HIDE DEF y
      <4>2. c \in Seq(Seq(S))
        BY <2>1
      <4>3. (x \o c) \o y = x \o (c \o y)
        BY SMTT(30), <2>2, <4>1, <4>2, PartsAssociative
      <4> QED BY <4>3 DEF y
    <3> QED BY <3>1, <3>3
  <2>5. FlattenSeq(x \o Append(c, d)) = (e \o f) \o d
    BY <2>1, <2>3, <2>4, FlattenAppend
  <2>6. FlattenSeq(Append(c, d)) = f \o d
    BY <2>1, FlattenAppend
  <2> HIDE DEF f
  <2>7. (e \o f) \o d = e \o (f \o d)
    BY SMTT(30), <2>3, ConcatAssociative
  <2> QED BY <2>3, <2>5, <2>6, <2>7 DEF T, x
<1>3. T = Seq(Seq(S))
  <2>1. T \subseteq Seq(Seq(S))
    BY DEF T
  <2> QED BY <1>1, <1>2, <2>1, SeqSetAppend
<1> QED BY <1>3 DEF T

\* Where each part is: L[i] is where the parts up to the i-th end, and each place in
\* the whole belongs to a part.
Placed(s, f, L) ==
  /\ L \in [0..Len(s) -> Nat]
  /\ L[0] = 0
  /\ \A i \in 1..Len(s) : L[i] = L[i - 1] + Len(s[i])
  /\ Len(f) = L[Len(s)]
  /\ \A i \in 1..Len(s) : \A j \in 1..Len(s[i]) :
       L[i - 1] + j \in 1..Len(f) /\ f[L[i - 1] + j] = s[i][j]
  /\ \A k \in 1..Len(f) : \E i \in 1..Len(s) : \E j \in 1..Len(s[i]) : k = L[i - 1] + j

LEMMA AppendPlaced ==
  ASSUME NEW S, NEW s \in Seq(Seq(S)), NEW e \in Seq(S), NEW f \in Seq(S), NEW L,
         Placed(s, f, L)
  PROVE  \E M : Placed(Append(s, e), f \o e, M)
<1> DEFINE d == Append(s, e)
           n == Len(s)
           g == f \o e
           l == Len(f)
           M == [i \in 0..(n + 1) |-> IF i <= n THEN L[i] ELSE l + Len(e)]
<1>1. /\ d \in Seq(Seq(S)) /\ Len(d) = n + 1 /\ n \in Nat
      /\ d[n + 1] = e /\ \A i \in 1..n : d[i] = s[i]
  OBVIOUS
<1>2. \A i \in 1..n : s[i] \in Seq(S) /\ Len(s[i]) \in Nat
  OBVIOUS
<1>3. l \in Nat /\ Len(e) \in Nat
  OBVIOUS
<1>4. /\ g \in Seq(S) /\ Len(g) = l + Len(e)
      /\ \A k \in 1..(l + Len(e)) : g[k] = IF k <= l THEN f[k] ELSE e[k - l]
  BY ConcatProperties
<1>5. /\ \A i \in 0..n : L[i] \in Nat
      /\ L[0] = 0 /\ l = L[n]
      /\ \A i \in 1..n : L[i] = L[i - 1] + Len(s[i])
      /\ \A i \in 1..n : \A j \in 1..Len(s[i]) :
           L[i - 1] + j \in 1..l /\ f[L[i - 1] + j] = s[i][j]
      /\ \A k \in 1..l : \E i \in 1..n : \E j \in 1..Len(s[i]) : k = L[i - 1] + j
  BY DEF Placed
<1> HIDE DEF d, n, g, l
<1>6. /\ \A i \in 0..n : M[i] = L[i]
      /\ M[n + 1] = l + Len(e)
  BY <1>1
<1>7. M \in [0..(n + 1) -> Nat]
  BY SMTT(30), <1>1, <1>3, <1>5
<1> HIDE DEF M
<1>8. M[0] = 0 /\ Len(g) = M[n + 1]
  BY <1>1, <1>4, <1>5, <1>6
<1>9. ASSUME NEW i \in 1..(n + 1)
      PROVE  M[i] = M[i - 1] + Len(d[i])
  <2>1. CASE i \in 1..n
    <3>1. i \in 0..n /\ i - 1 \in 0..n
      BY <1>1, <2>1
    <3> QED BY <1>1, <1>5, <1>6, <2>1, <3>1
  <2>2. CASE i = n + 1
    <3>1. i - 1 = n /\ n \in 0..n
      BY <1>1, <2>2
    <3> QED BY <1>1, <1>5, <1>6, <2>2, <3>1
  <2> QED BY <1>1, <2>1, <2>2
<1>11. ASSUME NEW i \in 1..(n + 1), NEW j \in 1..Len(d[i])
       PROVE  M[i - 1] + j \in 1..Len(g) /\ g[M[i - 1] + j] = d[i][j]
  <2>1. CASE i \in 1..n
    <3>1. i - 1 \in 0..n /\ d[i] = s[i] /\ M[i - 1] = L[i - 1]
      BY <1>1, <1>6, <2>1
    <3>2. j \in 1..Len(s[i])
      BY <3>1
    <3>3. L[i - 1] + j \in 1..l
      BY <1>5, <2>1, <3>2
    <3>4. L[i - 1] + j \in 1..(l + Len(e)) /\ L[i - 1] + j <= l
      BY <1>3, <3>3
    <3>5. f[L[i - 1] + j] = s[i][j]
      BY <1>5, <2>1, <3>2
    <3> QED BY <1>4, <3>1, <3>4, <3>5
  <2>2. CASE i = n + 1
    <3>1. d[i] = e /\ i - 1 = n /\ n \in 0..n
      BY <1>1, <2>2
    <3>2. M[i - 1] = l /\ j \in 1..Len(e)
      BY <1>5, <1>6, <3>1
    <3>3. l + j \in 1..(l + Len(e)) /\ ~(l + j <= l) /\ (l + j) - l = j
      BY <1>3, <3>2
    <3> QED BY <1>4, <3>1, <3>2, <3>3
  <2> QED BY <1>1, <2>1, <2>2
<1>12. ASSUME NEW k \in 1..Len(g)
       PROVE  \E i \in 1..(n + 1) : \E j \in 1..Len(d[i]) : k = M[i - 1] + j
  <2>1. CASE k <= l
    <3>1. k \in 1..l
      BY <1>3, <1>4, <2>1
    <3>0. PICK i \in 1..n : \E j \in 1..Len(s[i]) : k = L[i - 1] + j
      BY <1>5, <3>1
    <3>2. PICK j \in 1..Len(s[i]) : k = L[i - 1] + j
      BY <3>0
    <3>3. i \in 1..(n + 1) /\ i - 1 \in 0..n /\ d[i] = s[i]
      BY <1>1
    <3>4. j \in 1..Len(d[i]) /\ k = M[i - 1] + j
      BY <1>6, <3>2, <3>3
    <3> QED BY <3>3, <3>4
  <2>2. CASE ~(k <= l)
    <3>1. k - l \in 1..Len(e) /\ k = l + (k - l)
      BY <1>3, <1>4, <2>2
    <3>2. n + 1 \in 1..(n + 1) /\ (n + 1) - 1 = n /\ n \in 0..n
      BY <1>1
    <3>3. M[(n + 1) - 1] = l /\ d[n + 1] = e
      BY <1>1, <1>5, <1>6, <3>2
    <3>4. k - l \in 1..Len(d[n + 1]) /\ k = M[(n + 1) - 1] + (k - l)
      BY <3>1, <3>3
    <3> QED BY <3>2, <3>4
  <2> QED BY <2>1, <2>2
<1>13. Placed(d, g, M)
  BY SMTT(30), <1>1, <1>7, <1>8, <1>9, <1>11, <1>12 DEF Placed
<1> QED BY <1>13 DEF d, g

LEMMA FlattenPlaces ==
  ASSUME NEW S, NEW s \in Seq(Seq(S))
  PROVE  \E L : Placed(s, FlattenSeq(s), L)
<1> DEFINE T == {c \in Seq(Seq(S)) : \E L : Placed(c, FlattenSeq(c), L)}
<1>1. <<>> \in T
  <2>1. <<>> \in Seq(Seq(S)) /\ Len(<<>>) = 0
    OBVIOUS
  <2>2. Placed(<<>>, <<>>, [i \in 0..0 |-> 0])
    BY <2>1 DEF Placed
  <2> QED BY <2>1, <2>2, FlattenEmpty
<1>2. ASSUME NEW c \in T, NEW e \in Seq(S)
      PROVE  Append(c, e) \in T
  <2>1. c \in Seq(Seq(S))
    OBVIOUS
  <2>2. PICK L : Placed(c, FlattenSeq(c), L)
    OBVIOUS
  <2> HIDE DEF T
  <2>3. FlattenSeq(c) \in Seq(S) /\ FlattenSeq(Append(c, e)) = FlattenSeq(c) \o e
    BY <2>1, FlattenIsSeq, FlattenAppend
  <2>4. PICK M : Placed(Append(c, e), FlattenSeq(Append(c, e)), M)
    BY <2>1, <2>2, <2>3, AppendPlaced
  <2>5. Append(c, e) \in Seq(Seq(S))
    BY <2>1, AppendProperties
  <2> QED BY <2>4, <2>5 DEF T
<1>3. T = Seq(Seq(S))
  <2>1. T \subseteq Seq(Seq(S))
    OBVIOUS
  <2> HIDE DEF T
  <2> QED BY <1>1, <1>2, <2>1, SeqSetAppend
<1> QED BY <1>3
=============================================================================
