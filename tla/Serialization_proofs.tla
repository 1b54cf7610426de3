----------------------- MODULE Serialization_proofs -----------------------
(***************************************************************************)
(* What the conversions of Serialization do, for every number and every    *)
(* body: each is undone by the parser that the other end applies.  The     *)
(* definitions are recursive, so the lemmas are proved by induction.       *)
(***************************************************************************)
EXTENDS Serialization, Induction

-----------------------------------------------------------------------------
(* Texts in a buffer.                                                      *)

\* The bytes of texts.
Letter == Nat \ {Nul}

LEMMA LetterIsByte == \A t \in Seq(Letter) : t \in Seq(Nat)
  BY SeqMonotonic DEF Letter

\* A text ends at the first Nul.
LEMMA TextIs ==
  ASSUME NEW b \in Seq(Nat), NEW t \in Seq(Letter), NEW at \in Nat \ {0},
         at + Len(t) <= Len(b), b[at + Len(t)] = Nul,
         \A i \in 1..Len(t) : b[at + i - 1] = t[i]
  PROVE  TextAt(b, at) = t
<1> DEFINE ends == {i \in at..Len(b) : b[i] = Nul}
           end  == at + Len(t)
<1>1. Len(t) \in Nat /\ Len(b) \in Nat
  OBVIOUS
<1>2. end \in ends /\ end \in Nat
  BY <1>1
<1>3. ends \subseteq Nat
  BY <1>1
<1>4. ASSUME NEW i \in ends
      PROVE  end <= i
  <2>1. i \in Nat /\ at <= i /\ b[i] = Nul
    BY <1>1
  <2>2. ASSUME i < end PROVE FALSE
    <3>1. i - at + 1 \in 1..Len(t) /\ at + (i - at + 1) - 1 = i
      BY <1>1, <2>1, <2>2
    <3>2. t[i - at + 1] = Nul
      BY <2>1, <3>1
    <3>3. t[i - at + 1] \in Letter
      BY <3>1, ElementOfSeq
    <3> QED BY <3>2, <3>3 DEF Letter
  <2> QED BY <1>2, <2>1, <2>2
<1>5. Min(ends) = end
  <2> HIDE DEF ends, end
  <2> QED BY <1>2, <1>3, <1>4, MinIs
<1>6. TextAt(b, at) = SubSeq(b, at, end - 1)
  <2>1. SelectInSubSeq(b, at, Len(b), LAMBDA byte : byte = Nul)
          = IF ends # {} THEN Min(ends) ELSE 0
    BY DEF SelectInSubSeq
  <2>2. ends # {}
    BY <1>2
  <2> HIDE DEF ends, end
  <2>3. SelectInSubSeq(b, at, Len(b), LAMBDA byte : byte = Nul) = end
    BY <1>5, <2>1, <2>2, Zenon
  <2> QED BY <2>3, Zenon DEF TextAt
<1>7. \A i \in at..(end - 1) : b[i] \in Nat
  BY <1>1
<1>8. /\ SubSeq(b, at, end - 1) \in Seq(Nat)
      /\ Len(SubSeq(b, at, end - 1)) = Len(t)
      /\ \A i \in 1..Len(t) : SubSeq(b, at, end - 1)[i] = b[at + i - 1]
  BY <1>1, <1>7, SubSeqProperties
<1>9. SubSeq(b, at, end - 1) = t
  <2> HIDE DEF end
  <2>1. t \in Seq(Nat)
    BY LetterIsByte
  <2> QED BY <1>8, <2>1, SeqEqual
<1> QED BY <1>6, <1>9

\* A text followed by its terminator is found where it begins, and the next field
\* after it.
LEMMA TextFound ==
  ASSUME NEW p \in Seq(Nat), NEW t \in Seq(Letter), NEW q \in Seq(Nat)
  PROVE  /\ TextAt(p \o t \o <<Nul>> \o q, Len(p) + 1) = t
         /\ NextAt(p \o t \o <<Nul>> \o q, Len(p) + 1) = Len(p \o t \o <<Nul>>) + 1
<1> DEFINE u == p \o t
           v == u \o <<Nul>>
           b == v \o q
<1>1. t \in Seq(Nat) /\ <<Nul>> \in Seq(Nat) /\ Len(<<Nul>>) = 1 /\ <<Nul>>[1] = Nul
  BY LetterIsByte DEF Nul
<1>2. Len(p) \in Nat /\ Len(t) \in Nat /\ Len(q) \in Nat
  OBVIOUS
<1>3. /\ u \in Seq(Nat) /\ Len(u) = Len(p) + Len(t)
      /\ \A i \in 1..Len(t) : u[Len(p) + i] = t[i]
  <2>1. \A i \in 1..(Len(p) + Len(t)) : u[i] = IF i <= Len(p) THEN p[i] ELSE t[i - Len(p)]
    BY <1>1, ConcatProperties
  <2>2. u \in Seq(Nat) /\ Len(u) = Len(p) + Len(t)
    BY <1>1, ConcatProperties
  <2>3. ASSUME NEW i \in 1..Len(t)
        PROVE  u[Len(p) + i] = t[i]
    <3>1. /\ Len(p) + i \in 1..(Len(p) + Len(t)) /\ ~(Len(p) + i <= Len(p))
          /\ (Len(p) + i) - Len(p) = i
      BY <1>2
    <3> HIDE DEF u
    <3> QED BY <2>1, <3>1
  <2> QED BY <2>2, <2>3
<1>4. /\ v \in Seq(Nat) /\ Len(v) = Len(p) + Len(t) + 1
      /\ v[Len(p) + Len(t) + 1] = Nul
      /\ \A i \in 1..Len(u) : v[i] = u[i]
  <2> HIDE DEF u
  <2>1. \A i \in 1..(Len(u) + 1) : v[i] = IF i <= Len(u) THEN u[i] ELSE <<Nul>>[i - Len(u)]
    BY <1>1, <1>3, ConcatProperties
  <2>2. v \in Seq(Nat) /\ Len(v) = Len(u) + 1
    BY <1>1, <1>3, ConcatProperties
  <2> HIDE DEF v
  <2>3. Len(u) + 1 \in 1..(Len(u) + 1) /\ ~(Len(u) + 1 <= Len(u)) /\ (Len(u) + 1) - Len(u) = 1
    BY <1>2, <1>3
  <2>4. v[Len(u) + 1] = Nul
    BY <1>1, <2>1, <2>3
  <2>5. ASSUME NEW i \in 1..Len(u)
        PROVE  v[i] = u[i]
    <3>1. Len(u) \in Nat
      BY <1>3
    <3>2. i \in 1..(Len(u) + 1) /\ i <= Len(u)
      BY <3>1
    <3> QED BY <2>1, <3>2
  <2> QED BY <1>2, <1>3, <2>2, <2>4, <2>5
<1>5. /\ b \in Seq(Nat) /\ Len(b) = Len(v) + Len(q)
      /\ \A i \in 1..Len(v) : b[i] = v[i]
  <2> HIDE DEF v
  <2>1. \A i \in 1..(Len(v) + Len(q)) : b[i] = IF i <= Len(v) THEN v[i] ELSE q[i - Len(v)]
    BY <1>4, ConcatProperties
  <2>2. b \in Seq(Nat) /\ Len(b) = Len(v) + Len(q)
    BY <1>4, ConcatProperties
  <2> HIDE DEF b
  <2>3. \A i \in 1..Len(v) : i \in 1..(Len(v) + Len(q)) /\ i <= Len(v)
    BY <1>2, <1>4
  <2> QED BY <2>1, <2>2, <2>3
<1>6. TextAt(b, Len(p) + 1) = t
  <2> HIDE DEF u, v, b
  <2>1. (Len(p) + 1) + Len(t) <= Len(b) /\ (Len(p) + 1) + Len(t) = Len(p) + Len(t) + 1
    BY <1>2, <1>4, <1>5
  <2>2. b[(Len(p) + 1) + Len(t)] = Nul
    <3>1. Len(p) + Len(t) + 1 \in 1..Len(v)
      BY <1>2, <1>4
    <3> QED BY <1>4, <1>5, <2>1, <3>1
  <2>3. ASSUME NEW i \in 1..Len(t)
        PROVE  b[(Len(p) + 1) + i - 1] = t[i]
    <3>1. /\ (Len(p) + 1) + i - 1 = Len(p) + i
          /\ Len(p) + i \in 1..(Len(p) + Len(t) + 1)
          /\ Len(p) + i \in 1..(Len(p) + Len(t))
      BY <1>2
    <3> QED BY <1>3, <1>4, <1>5, <3>1
  <2>4. Len(p) + 1 \in Nat \ {0}
    BY <1>2
  <2> QED BY <1>5, <2>1, <2>2, <2>3, <2>4, TextIs
<1>7. NextAt(b, Len(p) + 1) = Len(v) + 1
  <2> HIDE DEF u, v, b
  <2> QED BY <1>2, <1>4, <1>6 DEF NextAt
<1> QED BY <1>6, <1>7

-----------------------------------------------------------------------------
(* The three folds: what each is for one more text or digit.               *)

\* A fold reaches its value in as many steps as there are texts.
LEMMA BodySizeChain ==
  ASSUME NEW c \in Seq(Seq(Nat))
  PROVE  \E r : /\ r[0] = 0
                /\ \A k \in 1..Len(c) : r[k] = r[k - 1] + Len(c[k]) + 1
                /\ BodySize(c) = r[Len(c)]
<1> DEFINE n  == Len(c)
           it == CHOOSE iter : iter = [s \in SUBSET (DOMAIN c) |->
                   IF s = {} THEN 0 ELSE iter[s \ {Max(s)}] + Len(c[Max(s)]) + 1]
           Is(g) == g = [s \in SUBSET (1..n) |->
                      IF s = {} THEN 0 ELSE g[s \ {Max(s)}] + Len(c[Max(s)]) + 1]
           r  == [k \in 0..n |-> it[1..k]]
<1>1. DOMAIN c = 1..n /\ n \in Nat /\ \A i \in 1..n : Len(c[i]) \in Nat
  OBVIOUS
<1> HIDE DEF n
<1>2. \E g : Is(g)
  <2> DEFINE F == [a \in Nat |-> [i \in 1..n |-> a + Len(c[i]) + 1]]
  <2>1. F \in [Nat -> [1..n -> Nat]]
    BY <1>1
  <2>2. PICK g \in [SUBSET (1..n) -> Nat] :
          \A s \in SUBSET (1..n) : g[s] = IF s = {} THEN 0 ELSE F[g[s \ {Max(s)}]][Max(s)]
    <3>1. FoldOperator(Nat, 0, n, F)
      BY <1>1, <2>1 DEF FoldOperator
    <3> HIDE DEF F
    <3>2. PICK g : FoldValues(Nat, 0, n, F, g)
      BY <3>1, FoldExists
    <3> QED BY <3>2 DEF FoldValues
  <2>3. ASSUME NEW s \in SUBSET (1..n)
        PROVE  g[s] = IF s = {} THEN 0 ELSE g[s \ {Max(s)}] + Len(c[Max(s)]) + 1
    <3>1. CASE s = {}
      BY <2>2, <3>1
    <3>2. CASE s # {}
      <4>1. Max(s) \in 1..n
        BY <1>1, <3>2, MaxExists
      <4>2. g[s \ {Max(s)}] \in Nat
        BY <2>2
      <4>3. F[g[s \ {Max(s)}]][Max(s)] = g[s \ {Max(s)}] + Len(c[Max(s)]) + 1
        BY <4>1, <4>2
      <4> QED BY <2>2, <3>2, <4>3
    <3> QED BY <3>1, <3>2
  <2> QED BY <2>3
<1>3. Is(it)
  BY <1>1, <1>2, Zenon
<1>4. BodySize(c) = it[DOMAIN c]
  BY Zenon DEF BodySize, FoldLeft, MapThenFoldSet
<1> HIDE DEF it
<1>5. BodySize(c) = r[n]
  BY <1>1, <1>4
<1>6. it[{}] = 0 /\ r[0] = it[{}]
  BY <1>1, <1>3
<1>7. ASSUME NEW k \in 1..n
      PROVE  r[k] = r[k - 1] + Len(c[k]) + 1
  <2>1. 1..k \in SUBSET (1..n) /\ k \in Nat /\ k # 0
    BY <1>1
  <2>2. Max(1..k) = k /\ (1..k) \ {Max(1..k)} = 1..(k - 1) /\ 1..k # {}
    BY <2>1, LastTaken
  <2>3. it[1..k] = IF 1..k = {} THEN 0 ELSE it[(1..k) \ {Max(1..k)}] + Len(c[Max(1..k)]) + 1
    BY <1>3, <2>1
  <2>4. it[1..k] = it[1..(k - 1)] + Len(c[k]) + 1
    BY <2>2, <2>3
  <2>5. r[k] = it[1..k] /\ r[k - 1] = it[1..(k - 1)]
    BY <1>1
  <2> QED BY <2>4, <2>5
<1> HIDE DEF r
<1> QED BY <1>5, <1>6, <1>7 DEF n

LEMMA BodySizeAppend ==
  ASSUME NEW c \in Seq(Seq(Nat)), NEW e \in Seq(Nat)
  PROVE  BodySize(Append(c, e)) = BodySize(c) + Len(e) + 1
<1> DEFINE d == Append(c, e)
           n == Len(c)
<1>1. /\ d \in Seq(Seq(Nat)) /\ n \in Nat /\ Len(d) = n + 1
      /\ d[n + 1] = e /\ \A i \in 1..n : d[i] = c[i]
  OBVIOUS
<1>2. PICK r : /\ r[0] = 0
               /\ \A k \in 1..n : r[k] = r[k - 1] + Len(c[k]) + 1
               /\ BodySize(c) = r[n]
  BY BodySizeChain
<1> HIDE DEF d, n
<1>3. PICK q : /\ q[0] = 0
               /\ \A k \in 1..(n + 1) : q[k] = q[k - 1] + Len(d[k]) + 1
               /\ BodySize(d) = q[n + 1]
  BY <1>1, BodySizeChain
<1> DEFINE T == {k \in Nat : k <= n => q[k] = r[k]}
<1>4. 0 \in T
  BY <1>2, <1>3
<1>5. ASSUME NEW k \in T
      PROVE  k + 1 \in T
  <2>1. k \in Nat /\ k + 1 \in Nat
    OBVIOUS
  <2>2. ASSUME k + 1 <= n
        PROVE  q[k + 1] = r[k + 1]
    <3>1. k + 1 \in 1..n /\ k + 1 \in 1..(n + 1) /\ (k + 1) - 1 = k /\ k <= n
      BY <1>1, <2>1, <2>2
    <3>2. q[k] = r[k] /\ d[k + 1] = c[k + 1]
      BY <1>1, <3>1
    <3> HIDE DEF T
    <3> QED BY <1>2, <1>3, <3>1, <3>2
  <2> QED BY <2>1, <2>2
<1>6. n \in T
  <2>1. T \subseteq Nat
    OBVIOUS
  <2> HIDE DEF T
  <2> QED BY <1>1, <1>4, <1>5, <2>1, NatSet
<1>7. q[n] = r[n] /\ n + 1 \in 1..(n + 1) /\ (n + 1) - 1 = n
  BY <1>1, <1>6
<1> HIDE DEF T
<1>8. BodySize(d) = q[n] + Len(e) + 1
  BY <1>1, <1>3, <1>7
<1> QED BY <1>2, <1>7, <1>8 DEF d

LEMMA BodySizeEmpty == BodySize(<<>>) = 0
<1>1. <<>> \in Seq(Seq(Nat)) /\ Len(<<>>) = 0
  OBVIOUS
<1> QED BY <1>1, BodySizeChain

\* The same for the bytes of a body.
LEMMA BodyDataChain ==
  ASSUME NEW c \in Seq(Seq(Nat))
  PROVE  \E r : /\ r[0] = <<>>
                /\ \A k \in 1..Len(c) : r[k] = r[k - 1] \o c[k] \o <<Nul>>
                /\ BodyData(c) = r[Len(c)]
<1> DEFINE n  == Len(c)
           it == CHOOSE iter : iter = [s \in SUBSET (DOMAIN c) |->
                   IF s = {} THEN <<>> ELSE iter[s \ {Max(s)}] \o c[Max(s)] \o <<Nul>>]
           Is(g) == g = [s \in SUBSET (1..n) |->
                      IF s = {} THEN <<>> ELSE g[s \ {Max(s)}] \o c[Max(s)] \o <<Nul>>]
           r  == [k \in 0..n |-> it[1..k]]
<1>1. DOMAIN c = 1..n /\ n \in Nat /\ \A i \in 1..n : c[i] \in Seq(Nat)
  OBVIOUS
<1> HIDE DEF n
<1>2. \E g : Is(g)
  <2> DEFINE F == [a \in Seq(Nat) |-> [i \in 1..n |-> a \o c[i] \o <<Nul>>]]
  <2>1. F \in [Seq(Nat) -> [1..n -> Seq(Nat)]]
    <3>1. <<Nul>> \in Seq(Nat)
      BY DEF Nul
    <3>2. \A a \in Seq(Nat), i \in 1..n : a \o c[i] \o <<Nul>> \in Seq(Nat)
      BY <1>1, <3>1, ConcatProperties
    <3> QED BY <3>2
  <2>2. PICK g \in [SUBSET (1..n) -> Seq(Nat)] :
          \A s \in SUBSET (1..n) : g[s] = IF s = {} THEN <<>> ELSE F[g[s \ {Max(s)}]][Max(s)]
    <3>1. FoldOperator(Seq(Nat), <<>>, n, F)
      BY <1>1, <2>1 DEF FoldOperator
    <3> HIDE DEF F
    <3>2. PICK g : FoldValues(Seq(Nat), <<>>, n, F, g)
      BY <3>1, FoldExists
    <3> QED BY <3>2 DEF FoldValues
  <2>3. ASSUME NEW s \in SUBSET (1..n)
        PROVE  g[s] = IF s = {} THEN <<>> ELSE g[s \ {Max(s)}] \o c[Max(s)] \o <<Nul>>
    <3>1. CASE s = {}
      BY <2>2, <3>1
    <3>2. CASE s # {}
      <4>1. Max(s) \in 1..n
        BY <1>1, <3>2, MaxExists
      <4>2. g[s \ {Max(s)}] \in Seq(Nat)
        BY <2>2
      <4>3. F[g[s \ {Max(s)}]][Max(s)] = g[s \ {Max(s)}] \o c[Max(s)] \o <<Nul>>
        BY <4>1, <4>2
      <4> QED BY <2>2, <3>2, <4>3
    <3> QED BY <3>1, <3>2
  <2> QED BY <2>3
<1>3. Is(it)
  BY <1>1, <1>2, Zenon
<1>4. BodyData(c) = it[DOMAIN c]
  BY Zenon DEF BodyData, FoldLeft, MapThenFoldSet
<1> HIDE DEF it
<1>5. BodyData(c) = r[n]
  BY <1>1, <1>4
<1>6. it[{}] = <<>> /\ r[0] = it[{}]
  BY <1>1, <1>3
<1>7. ASSUME NEW k \in 1..n
      PROVE  r[k] = r[k - 1] \o c[k] \o <<Nul>>
  <2>1. 1..k \in SUBSET (1..n) /\ k \in Nat /\ k # 0
    BY <1>1
  <2>2. Max(1..k) = k /\ (1..k) \ {Max(1..k)} = 1..(k - 1) /\ 1..k # {}
    BY <2>1, LastTaken
  <2>3. it[1..k] = IF 1..k = {} THEN <<>> ELSE it[(1..k) \ {Max(1..k)}] \o c[Max(1..k)] \o <<Nul>>
    BY <1>3, <2>1
  <2>4. it[1..k] = it[1..(k - 1)] \o c[k] \o <<Nul>>
    BY <2>2, <2>3
  <2>5. r[k] = it[1..k] /\ r[k - 1] = it[1..(k - 1)]
    BY <1>1
  <2> QED BY <2>4, <2>5
<1> HIDE DEF r
<1> QED BY <1>5, <1>6, <1>7 DEF n

LEMMA BodyDataAppend ==
  ASSUME NEW c \in Seq(Seq(Nat)), NEW e \in Seq(Nat)
  PROVE  BodyData(Append(c, e)) = BodyData(c) \o e \o <<Nul>>
<1> DEFINE d == Append(c, e)
           n == Len(c)
<1>1. /\ d \in Seq(Seq(Nat)) /\ n \in Nat /\ Len(d) = n + 1
      /\ d[n + 1] = e /\ \A i \in 1..n : d[i] = c[i]
  OBVIOUS
<1>2. PICK r : /\ r[0] = <<>>
               /\ \A k \in 1..n : r[k] = r[k - 1] \o c[k] \o <<Nul>>
               /\ BodyData(c) = r[n]
  BY BodyDataChain
<1> HIDE DEF d, n
<1>3. PICK q : /\ q[0] = <<>>
               /\ \A k \in 1..(n + 1) : q[k] = q[k - 1] \o d[k] \o <<Nul>>
               /\ BodyData(d) = q[n + 1]
  BY <1>1, BodyDataChain
<1> DEFINE T == {k \in Nat : k <= n => q[k] = r[k]}
<1>4. 0 \in T
  BY <1>2, <1>3
<1>5. ASSUME NEW k \in T
      PROVE  k + 1 \in T
  <2>1. k \in Nat /\ k + 1 \in Nat
    OBVIOUS
  <2>2. ASSUME k + 1 <= n
        PROVE  q[k + 1] = r[k + 1]
    <3>1. k + 1 \in 1..n /\ k + 1 \in 1..(n + 1) /\ (k + 1) - 1 = k /\ k <= n
      BY <1>1, <2>1, <2>2
    <3>2. q[k] = r[k] /\ d[k + 1] = c[k + 1]
      BY <1>1, <3>1
    <3> HIDE DEF T
    <3> QED BY <1>2, <1>3, <3>1, <3>2
  <2> QED BY <2>1, <2>2
<1>6. n \in T
  <2>1. T \subseteq Nat
    OBVIOUS
  <2> HIDE DEF T
  <2> QED BY <1>1, <1>4, <1>5, <2>1, NatSet
<1>7. q[n] = r[n] /\ n + 1 \in 1..(n + 1) /\ (n + 1) - 1 = n
  BY <1>1, <1>6
<1> HIDE DEF T
<1>8. BodyData(d) = q[n] \o e \o <<Nul>>
  BY <1>1, <1>3, <1>7
<1> QED BY <1>2, <1>7, <1>8 DEF d

LEMMA BodyDataEmpty == BodyData(<<>>) = <<>>
<1>1. <<>> \in Seq(Seq(Nat)) /\ Len(<<>>) = 0
  OBVIOUS
<1> QED BY <1>1, BodyDataChain

\* The same for the number that a text of digits stands for.
LEMMA NumberChain ==
  ASSUME NEW c \in Seq(Nat)
  PROVE  \E r : /\ r[0] = 0
                /\ \A k \in 1..Len(c) : r[k] = 10 * r[k - 1] + (c[k] - Zero)
                /\ Number(c) = r[Len(c)]
<1> DEFINE n  == Len(c)
           it == CHOOSE iter : iter = [s \in SUBSET (DOMAIN c) |->
                   IF s = {} THEN 0 ELSE 10 * iter[s \ {Max(s)}] + (c[Max(s)] - Zero)]
           Is(g) == g = [s \in SUBSET (1..n) |->
                      IF s = {} THEN 0 ELSE 10 * g[s \ {Max(s)}] + (c[Max(s)] - Zero)]
           r  == [k \in 0..n |-> it[1..k]]
<1>1. DOMAIN c = 1..n /\ n \in Nat /\ \A i \in 1..n : c[i] \in Nat
  OBVIOUS
<1> HIDE DEF n
<1>2. \E g : Is(g)
  <2> DEFINE F == [a \in Int |-> [i \in 1..n |-> 10 * a + (c[i] - Zero)]]
  <2>1. F \in [Int -> [1..n -> Int]]
    BY <1>1 DEF Zero
  <2>2. PICK g \in [SUBSET (1..n) -> Int] :
          \A s \in SUBSET (1..n) : g[s] = IF s = {} THEN 0 ELSE F[g[s \ {Max(s)}]][Max(s)]
    <3>1. FoldOperator(Int, 0, n, F)
      BY <1>1, <2>1 DEF FoldOperator
    <3> HIDE DEF F
    <3>2. PICK g : FoldValues(Int, 0, n, F, g)
      BY <3>1, FoldExists
    <3> QED BY <3>2 DEF FoldValues
  <2>3. ASSUME NEW s \in SUBSET (1..n)
        PROVE  g[s] = IF s = {} THEN 0 ELSE 10 * g[s \ {Max(s)}] + (c[Max(s)] - Zero)
    <3>1. CASE s = {}
      BY <2>2, <3>1
    <3>2. CASE s # {}
      <4>1. Max(s) \in 1..n
        BY <1>1, <3>2, MaxExists
      <4>2. g[s \ {Max(s)}] \in Int
        BY <2>2
      <4>3. F[g[s \ {Max(s)}]][Max(s)] = 10 * g[s \ {Max(s)}] + (c[Max(s)] - Zero)
        BY <4>1, <4>2
      <4> QED BY <2>2, <3>2, <4>3
    <3> QED BY <3>1, <3>2
  <2> QED BY <2>3
<1>3. Is(it)
  BY <1>1, <1>2, Zenon
<1>4. Number(c) = it[DOMAIN c]
  BY Zenon DEF Number, FoldLeft, MapThenFoldSet
<1> HIDE DEF it
<1>5. Number(c) = r[n]
  BY <1>1, <1>4
<1>6. it[{}] = 0 /\ r[0] = it[{}]
  BY <1>1, <1>3
<1>7. ASSUME NEW k \in 1..n
      PROVE  r[k] = 10 * r[k - 1] + (c[k] - Zero)
  <2>1. 1..k \in SUBSET (1..n) /\ k \in Nat /\ k # 0
    BY <1>1
  <2>2. Max(1..k) = k /\ (1..k) \ {Max(1..k)} = 1..(k - 1) /\ 1..k # {}
    BY <2>1, LastTaken
  <2>3. it[1..k] = IF 1..k = {} THEN 0 ELSE 10 * it[(1..k) \ {Max(1..k)}] + (c[Max(1..k)] - Zero)
    BY <1>3, <2>1
  <2>4. it[1..k] = 10 * it[1..(k - 1)] + (c[k] - Zero)
    BY <2>2, <2>3
  <2>5. r[k] = it[1..k] /\ r[k - 1] = it[1..(k - 1)]
    BY <1>1
  <2> QED BY <2>4, <2>5
<1> HIDE DEF r
<1> QED BY <1>5, <1>6, <1>7 DEF n

LEMMA NumberAppend ==
  ASSUME NEW c \in Seq(Nat), NEW e \in Nat
  PROVE  Number(Append(c, e)) = 10 * Number(c) + (e - Zero)
<1> DEFINE d == Append(c, e)
           n == Len(c)
<1>1. /\ d \in Seq(Nat) /\ n \in Nat /\ Len(d) = n + 1
      /\ d[n + 1] = e /\ \A i \in 1..n : d[i] = c[i]
  OBVIOUS
<1>2. PICK r : /\ r[0] = 0
               /\ \A k \in 1..n : r[k] = 10 * r[k - 1] + (c[k] - Zero)
               /\ Number(c) = r[n]
  BY NumberChain
<1> HIDE DEF d, n
<1>3. PICK q : /\ q[0] = 0
               /\ \A k \in 1..(n + 1) : q[k] = 10 * q[k - 1] + (d[k] - Zero)
               /\ Number(d) = q[n + 1]
  BY <1>1, NumberChain
<1> DEFINE T == {k \in Nat : k <= n => q[k] = r[k]}
<1>4. 0 \in T
  BY <1>2, <1>3
<1>5. ASSUME NEW k \in T
      PROVE  k + 1 \in T
  <2>1. k \in Nat /\ k + 1 \in Nat
    OBVIOUS
  <2>2. ASSUME k + 1 <= n
        PROVE  q[k + 1] = r[k + 1]
    <3>1. k + 1 \in 1..n /\ k + 1 \in 1..(n + 1) /\ (k + 1) - 1 = k /\ k <= n
      BY <1>1, <2>1, <2>2
    <3>2. q[k] = r[k] /\ d[k + 1] = c[k + 1]
      BY <1>1, <3>1
    <3> HIDE DEF T
    <3> QED BY <1>2, <1>3, <3>1, <3>2
  <2> QED BY <2>1, <2>2
<1>6. n \in T
  <2>1. T \subseteq Nat
    OBVIOUS
  <2> HIDE DEF T
  <2> QED BY <1>1, <1>4, <1>5, <2>1, NatSet
<1>7. q[n] = r[n] /\ n + 1 \in 1..(n + 1) /\ (n + 1) - 1 = n
  BY <1>1, <1>6
<1> HIDE DEF T
<1>8. Number(d) = 10 * q[n] + (e - Zero)
  BY <1>1, <1>3, <1>7
<1> QED BY <1>2, <1>7, <1>8 DEF d

LEMMA NumberEmpty == Number(<<>>) = 0
<1>1. <<>> \in Seq(Nat) /\ Len(<<>>) = 0
  OBVIOUS
<1> QED BY <1>1, NumberChain

-----------------------------------------------------------------------------
(* Bodies.                                                                 *)

LEMMA BytesConcat ==
  ASSUME NEW a \in Seq(Nat), NEW b \in Seq(Nat)
  PROVE  a \o b \in Seq(Nat) /\ Len(a \o b) = Len(a) + Len(b)
  BY ConcatProperties

LEMMA BytesAssociative ==
  ASSUME NEW a \in Seq(Nat), NEW b \in Seq(Nat), NEW c \in Seq(Nat)
  PROVE  (a \o b) \o c = a \o (b \o c)
  BY SMTT(30), ConcatAssociative

\* A body is as long as body_size() says.
LEMMA BodyLength ==
  ASSUME NEW c \in Seq(Seq(Nat))
  PROVE  BodyData(c) \in Seq(Nat) /\ BodySize(c) \in Nat /\ Len(BodyData(c)) = BodySize(c)
<1> DEFINE Fits(d) == BodyData(d) \in Seq(Nat) /\ BodySize(d) \in Nat
                        /\ Len(BodyData(d)) = BodySize(d)
           T == {d \in Seq(Seq(Nat)) : Fits(d)}
<1>1. <<>> \in T
  <2>1. <<>> \in Seq(Seq(Nat)) /\ <<>> \in Seq(Nat) /\ Len(<<>>) = 0 /\ 0 \in Nat
    OBVIOUS
  <2>2. BodyData(<<>>) = <<>> /\ BodySize(<<>>) = 0
    BY BodyDataEmpty, BodySizeEmpty
  <2>3. Fits(<<>>)
    BY <2>1, <2>2, Zenon
  <2> HIDE DEF Fits
  <2> QED BY <2>1, <2>3
<1>2. ASSUME NEW d \in T, NEW e \in Seq(Nat)
      PROVE  Append(d, e) \in T
  <2> DEFINE b == BodyData(d)
             n == BodySize(d)
  <2>1. d \in Seq(Seq(Nat)) /\ b \in Seq(Nat) /\ n \in Nat /\ Len(b) = n
    OBVIOUS
  <2>2. BodyData(Append(d, e)) = b \o e \o <<Nul>> /\ BodySize(Append(d, e)) = n + Len(e) + 1
    BY <2>1, BodyDataAppend, BodySizeAppend
  <2> HIDE DEF b, n
  <2>3. <<Nul>> \in Seq(Nat) /\ Len(<<Nul>>) = 1 /\ Len(e) \in Nat
    BY DEF Nul
  <2>4. b \o e \in Seq(Nat) /\ Len(b \o e) = n + Len(e)
    BY <2>1, ConcatProperties
  <2>5. b \o e \o <<Nul>> \in Seq(Nat) /\ Len(b \o e \o <<Nul>>) = n + Len(e) + 1
    BY <2>3, <2>4, ConcatProperties
  <2>6. Append(d, e) \in Seq(Seq(Nat)) /\ n + Len(e) + 1 \in Nat
    BY <2>1, <2>3, AppendProperties
  <2>7. Fits(Append(d, e))
    BY <2>2, <2>5, <2>6
  <2> HIDE DEF Fits
  <2> QED BY <2>6, <2>7
<1>3. T = Seq(Seq(Nat))
  <2>1. T \subseteq Seq(Seq(Nat))
    OBVIOUS
  <2> HIDE DEF T
  <2> QED BY <1>1, <1>2, <2>1, SeqSetAppend
<1> QED BY <1>3

\* The first text of a body comes first.
LEMMA BodyDataFirst ==
  ASSUME NEW t \in Seq(Nat), NEW c \in Seq(Seq(Nat))
  PROVE  BodyData(<<t>> \o c) = (t \o <<Nul>>) \o BodyData(c)
<1> DEFINE T == {d \in Seq(Seq(Nat)) : BodyData(<<t>> \o d) = (t \o <<Nul>>) \o BodyData(d)}
           u == t \o <<Nul>>
<1>0. <<Nul>> \in Seq(Nat) /\ u \in Seq(Nat) /\ <<t>> \in Seq(Seq(Nat))
  BY ConcatProperties DEF Nul
<1>1. <<>> \in T
  <2>1. <<t>> \o <<>> = Append(<<>>, t) /\ <<>> \in Seq(Seq(Nat))
    OBVIOUS
  <2>2. BodyData(<<t>> \o <<>>) = <<>> \o t \o <<Nul>>
    BY <2>1, BodyDataAppend, BodyDataEmpty
  <2>3. <<>> \o t = t /\ u \o <<>> = u
    BY <1>0, ConcatEmptySeq
  <2> QED BY <2>1, <2>2, <2>3, BodyDataEmpty
<1> HIDE DEF T
<1>2. ASSUME NEW d \in T, NEW e \in Seq(Nat)
      PROVE  Append(d, e) \in T
  <2> DEFINE b == BodyData(d)
  <2>1. d \in Seq(Seq(Nat)) /\ BodyData(<<t>> \o d) = u \o b
    BY DEF T
  <2>2. b \in Seq(Nat) /\ Append(d, e) \in Seq(Seq(Nat)) /\ <<t>> \o d \in Seq(Seq(Nat))
    BY <1>0, <2>1, BodyLength, AppendProperties, ConcatProperties
  <2>3. <<t>> \o Append(d, e) = Append(<<t>> \o d, e)
    <3>1. Append(d, e) = d \o <<e>> /\ Append(<<t>> \o d, e) = (<<t>> \o d) \o <<e>>
      BY <2>1, <2>2, AppendIsConcat
    <3>2. <<e>> \in Seq(Seq(Nat))
      OBVIOUS
    <3>3. (<<t>> \o d) \o <<e>> = <<t>> \o (d \o <<e>>)
      BY <1>0, <2>1, <3>2, ConcatAssociative
    <3> QED BY <3>1, <3>3
  <2> HIDE DEF u
  <2>4. BodyData(<<t>> \o Append(d, e)) = ((u \o b) \o e) \o <<Nul>>
    BY <2>1, <2>2, <2>3, BodyDataAppend
  <2>5. BodyData(Append(d, e)) = (b \o e) \o <<Nul>>
    BY <2>1, BodyDataAppend
  <2> HIDE DEF b
  <2>6. ((u \o b) \o e) \o <<Nul>> = u \o ((b \o e) \o <<Nul>>)
    <3> DEFINE z == <<Nul>>
    <3>1. z \in Seq(Nat)
      BY <1>0
    <3> HIDE DEF z
    <3>2. u \in Seq(Nat)
      BY <1>0
    <3>3. b \in Seq(Nat)
      BY <2>2
    <3>4. (u \o b) \o e = u \o (b \o e)
      BY <3>2, <3>3, BytesAssociative
    <3>5. b \o e \in Seq(Nat)
      BY <3>3, BytesConcat
    <3>6. (u \o (b \o e)) \o z = u \o ((b \o e) \o z)
      BY ZenonT(30), <3>1, <3>2, <3>5, BytesAssociative
    <3> QED BY <3>4, <3>6 DEF z
  <2> QED BY <2>2, <2>4, <2>5, <2>6 DEF u, T
<1>3. T = Seq(Seq(Nat))
  <2>1. T \subseteq Seq(Seq(Nat))
    BY DEF T
  <2> QED BY <1>1, <1>2, <2>1, SeqSetAppend
<1> QED BY <1>3 DEF T

\* A text takes a number of bytes, wherever it begins.
LEMMA TextLength ==
  ASSUME NEW b \in Seq(Nat), NEW at \in Nat
  PROVE  Len(TextAt(b, at)) \in Nat
<1> DEFINE ends == {i \in at..Len(b) : b[i] = Nul}
           end  == SelectInSubSeq(b, at, Len(b), LAMBDA byte : byte = Nul)
<1>1. end = IF ends # {} THEN Min(ends) ELSE 0
  BY DEF SelectInSubSeq
<1>2. ends \subseteq Nat /\ Len(b) \in Nat
  OBVIOUS
<1>3. ends # {} => Min(ends) \in Nat
  <2> HIDE DEF ends
  <2> SUFFICES ASSUME ends # {}
               PROVE  Min(ends) \in Nat
    OBVIOUS
  <2>1. PICK n \in ends : \A m \in ends : n <= m
    BY <1>2, LeastNat
  <2>2. Min(ends) = n
    BY <1>2, <2>1, MinIs
  <2> QED BY <1>2, <2>2
<1>4. end \in Nat
  <2> HIDE DEF ends, end
  <2> QED BY <1>1, <1>3
<1>5. TextAt(b, at) = SubSeq(b, at, end - 1)
  BY Zenon DEF TextAt
<1> HIDE DEF ends, end
<1>6. at \in Int /\ end - 1 \in Int
  BY <1>4
<1> DEFINE S == {b[i] : i \in at..(end - 1)}
<1>7. \A i \in at..(end - 1) : b[i] \in S
  OBVIOUS
<1> HIDE DEF S
<1>8. Len(SubSeq(b, at, end - 1)) = IF at <= end - 1 THEN (end - 1) - at + 1 ELSE 0
  BY <1>6, <1>7, SubSeqProperties
<1>9. Len(SubSeq(b, at, end - 1)) \in Nat
  BY <1>4, <1>8
<1> QED BY <1>5, <1>9

\* What the loop of Body(buffer, length) has read when it is at a position.
TextsFrom(b, length, g) ==
  \A at \in Nat : g[at] = IF at > length THEN <<>>
                          ELSE <<TextAt(b, at)>> \o g[at + Len(TextAt(b, at)) + 1]

LEMMA TextsExist ==
  ASSUME NEW b \in Seq(Nat), NEW length \in Nat
  PROVE  \E g : g = [at \in Nat |-> IF at > length THEN <<>>
                       ELSE <<TextAt(b, at)>> \o g[at + Len(TextAt(b, at)) + 1]]
<1> DEFINE Near(k) == {at \in Nat : at + k > length}
           next(at) == at + Len(TextAt(b, at)) + 1
           Is(k, g) == \A at \in Near(k) :
                         g[at] = IF at > length THEN <<>>
                                 ELSE <<TextAt(b, at)>> \o g[next(at)]
           T == {k \in Nat : \E g : Is(k, g)}
<1>0. \A at \in Nat : next(at) \in Nat /\ next(at) > at
  <2>1. ASSUME NEW at \in Nat
        PROVE  next(at) \in Nat /\ next(at) > at
    <3>1. Len(TextAt(b, at)) \in Nat
      BY TextLength
    <3> QED BY <3>1
  <2> QED BY <2>1
<1> HIDE DEF next
<1>1. 0 \in T
  <2>1. \A at \in Near(0) : at \in Nat /\ at > length
    OBVIOUS
  <2> DEFINE g == [at \in Nat |-> <<>>]
  <2>2. \A at \in Near(0) : g[at] = <<>>
    BY <2>1
  <2>3. Is(0, g)
    <3> HIDE DEF g, Near
    <3> QED BY <2>1, <2>2
  <2> HIDE DEF g, Is
  <2> QED BY <2>3
<1>2. ASSUME NEW k \in T
      PROVE  k + 1 \in T
  <2>1. k \in Nat /\ k + 1 \in Nat
    OBVIOUS
  <2>2. PICK g : Is(k, g)
    <3> HIDE DEF Is
    <3> QED OBVIOUS
  <2> DEFINE new(at) == IF at > length THEN <<>> ELSE <<TextAt(b, at)>> \o g[next(at)]
             h == [at \in Nat |-> IF at \in Near(k) THEN g[at] ELSE new(at)]
  <2>3. ASSUME NEW at \in Near(k + 1)
        PROVE  h[at] = IF at > length THEN <<>> ELSE <<TextAt(b, at)>> \o h[next(at)]
    <3>1. at \in Nat /\ next(at) \in Nat
      BY <1>0
    <3>2. next(at) \in Near(k)
      BY SMTT(30), <1>0, <2>1
    <3>3. h[next(at)] = g[next(at)]
      BY <3>1, <3>2
    <3>4. h[at] = IF at \in Near(k) THEN g[at] ELSE new(at)
      BY <3>1
    <3>5. at \in Near(k) => g[at] = new(at)
      BY <2>2
    <3>6. h[at] = new(at)
      <4> HIDE DEF h, new, Near
      <4> QED BY <3>4, <3>5
    <3> HIDE DEF h
    <3> QED BY <3>3, <3>6
  <2>4. Is(k + 1, h)
    <3> HIDE DEF h, Near
    <3> QED BY <2>3
  <2> HIDE DEF h, Is
  <2> QED BY <2>1, <2>4
<1>3. T = Nat
  <2>1. T \subseteq Nat
    OBVIOUS
  <2> HIDE DEF T
  <2> QED BY <1>1, <1>2, <2>1, NatSet
<1>4. PICK g : Is(length + 1, g)
  <2>1. length + 1 \in T
    <3> HIDE DEF T
    <3> QED BY <1>3
  <2> HIDE DEF Is
  <2> QED BY <2>1
<1> DEFINE h == [at \in Nat |-> g[at]]
<1>5. ASSUME NEW at \in Nat
      PROVE  h[at] = IF at > length THEN <<>> ELSE <<TextAt(b, at)>> \o h[next(at)]
  <2>1. at \in Near(length + 1)
    OBVIOUS
  <2>2. g[at] = IF at > length THEN <<>> ELSE <<TextAt(b, at)>> \o g[next(at)]
    BY <1>4, <2>1
  <2>3. h[at] = g[at] /\ h[next(at)] = g[next(at)]
    BY <1>0
  <2> HIDE DEF h
  <2> QED BY <2>2, <2>3
<1>6. h = [at \in Nat |-> h[at]]
  OBVIOUS
<1>7. h = [at \in Nat |-> IF at > length THEN <<>> ELSE <<TextAt(b, at)>> \o h[next(at)]]
  <2> HIDE DEF h
  <2> QED BY <1>5, <1>6
<1> HIDE DEF h
<1> QED BY <1>7 DEF next

LEMMA ParseBodyIs ==
  ASSUME NEW b \in Seq(Nat), NEW length \in Nat
  PROVE  \E g : TextsFrom(b, length, g) /\ ParseBody(b, length) = g[1]
<1> DEFINE Is(g) == g = [at \in Nat |-> IF at > length THEN <<>>
                       ELSE <<TextAt(b, at)>> \o g[at + Len(TextAt(b, at)) + 1]]
           texts == CHOOSE g : Is(g)
<1>1. \E g : Is(g)
  BY TextsExist
<1>2. Is(texts)
  BY <1>1, Zenon
<1>3. ParseBody(b, length) = texts[1]
  BY Zenon DEF ParseBody
<1> HIDE DEF texts
<1>4. TextsFrom(b, length, texts)
  BY <1>2 DEF TextsFrom
<1> QED BY <1>3, <1>4

\* Wherever the texts of a body begin, they are read one after the other to its end.
LEMMA TextsComeBack ==
  ASSUME NEW c \in Seq(Seq(Letter))
  PROVE  \A p \in Seq(Nat) : \A g :
           LET b == p \o BodyData(c)
           IN  TextsFrom(b, Len(b), g) => g[Len(p) + 1] = c
<1> DEFINE Back(d) == \A p \in Seq(Nat) : \A g :
             LET b == p \o BodyData(d)
             IN  TextsFrom(b, Len(b), g) => g[Len(p) + 1] = d
           T == {d \in Seq(Seq(Letter)) : Back(d)}
<1>0. \A d \in Seq(Seq(Letter)) : d \in Seq(Seq(Nat))
  BY LetterIsByte, SeqMonotonic
<1>1. Back(<<>>)
  <2> SUFFICES ASSUME NEW p \in Seq(Nat), NEW g, TextsFrom(p, Len(p), g)
               PROVE  g[Len(p) + 1] = <<>>
    BY BodyDataEmpty, ConcatEmptySeq
  <2>1. Len(p) + 1 \in Nat /\ Len(p) + 1 > Len(p)
    OBVIOUS
  <2> QED BY <2>1 DEF TextsFrom
<1>2. ASSUME NEW d \in Seq(Seq(Letter)), Back(d), NEW t \in Seq(Letter)
      PROVE  Back(<<t>> \o d)
  <2> SUFFICES ASSUME NEW p \in Seq(Nat), NEW g, NEW b, b = p \o BodyData(<<t>> \o d),
                      TextsFrom(b, Len(b), g)
               PROVE  g[Len(p) + 1] = <<t>> \o d
    OBVIOUS
  <2> DEFINE z == <<Nul>>
             v == BodyData(d)
             u == p \o t \o z
  <2>1. z \in Seq(Nat) /\ Len(z) = 1
    BY DEF Nul
  <2>2. t \in Seq(Nat) /\ v \in Seq(Nat)
    BY <1>0, LetterIsByte, BodyLength
  <2>3. BodyData(<<t>> \o d) = (t \o z) \o v
    BY <1>0, <2>2, BodyDataFirst
  <2> HIDE DEF z, v
  <2>4. t \o z \in Seq(Nat) /\ Len(t \o z) = Len(t) + 1
    <3>1. t \o z \in Seq(Nat) /\ Len(t \o z) = Len(t) + Len(z)
      BY <2>1, <2>2, BytesConcat
    <3> QED BY <2>1, <3>1
  <2>5. u = p \o (t \o z)
    BY <2>1, <2>2, BytesAssociative
  <2>6. u \in Seq(Nat) /\ Len(u) = Len(p) + Len(t) + 1
    <3>1. Len(p) \in Nat /\ Len(t) \in Nat
      BY <2>2
    <3>2. u \in Seq(Nat) /\ Len(u) = Len(p) + Len(t \o z)
      BY <2>4, <2>5, ConcatProperties
    <3> HIDE DEF u
    <3> QED BY <2>4, <3>1, <3>2
  <2>7. b = u \o v
    <3>1. (p \o (t \o z)) \o v = p \o ((t \o z) \o v)
      BY ZenonT(30), <2>2, <2>4, BytesAssociative
    <3> HIDE DEF u
    <3> QED BY <2>3, <2>5, <3>1
  <2>8. TextAt(b, Len(p) + 1) = t
    <3>1. TextAt(u \o v, Len(p) + 1) = t
      BY <2>2, TextFound DEF z
    <3> HIDE DEF u
    <3> QED BY <2>7, <3>1
  <2> HIDE DEF u
  <2>9. Len(p) \in Nat /\ Len(t) \in Nat /\ Len(v) \in Nat /\ Len(b) = Len(u) + Len(v)
    <3>1. Len(b) = Len(u) + Len(v)
      BY <2>2, <2>6, <2>7, BytesConcat
    <3> QED BY <2>2, <3>1
  <2>10. Len(p) + 1 \in Nat /\ ~(Len(p) + 1 > Len(b))
    BY <2>6, <2>9
  <2>11. g[Len(p) + 1] = <<t>> \o g[(Len(p) + 1) + Len(t) + 1]
    BY <2>8, <2>10 DEF TextsFrom
  <2>12. (Len(p) + 1) + Len(t) + 1 = Len(u) + 1
    BY <2>6, <2>9
  <2>13. g[Len(u) + 1] = d
    BY <1>2, <2>6, <2>7 DEF v
  <2> QED BY <2>11, <2>12, <2>13
<1>3. T = Seq(Seq(Letter))
  <2> HIDE DEF Back
  <2>1. T \subseteq Seq(Seq(Letter)) /\ <<>> \in T
    <3>1. <<>> \in Seq(Seq(Letter))
      OBVIOUS
    <3> QED BY <1>1, <3>1
  <2>2. ASSUME NEW d \in T, NEW t \in Seq(Letter)
        PROVE  <<t>> \o d \in T
    <3>1. d \in Seq(Seq(Letter)) /\ Back(d)
      OBVIOUS
    <3>2. <<t>> \o d \in Seq(Seq(Letter))
      <4>1. <<t>> \in Seq(Seq(Letter))
        OBVIOUS
      <4> HIDE DEF T
      <4> QED BY <3>1, <4>1, ConcatProperties
    <3>3. Back(<<t>> \o d)
      BY <1>2, <3>1
    <3> QED BY <3>2, <3>3
  <2> HIDE DEF T
  <2> QED BY <2>1, <2>2, SeqSetFirst
<1> QED BY <1>3

\* Body(buffer, length) undoes data().
LEMMA BodyComesBack ==
  ASSUME NEW c \in Seq(Seq(Letter))
  PROVE  ParseBody(BodyData(c), BodySize(c)) = c
<1> DEFINE b == BodyData(c)
<1>1. c \in Seq(Seq(Nat))
  BY LetterIsByte, SeqMonotonic
<1>2. b \in Seq(Nat) /\ BodySize(c) \in Nat /\ Len(b) = BodySize(c)
  BY <1>1, BodyLength
<1>3. PICK g : TextsFrom(b, Len(b), g) /\ ParseBody(b, Len(b)) = g[1]
  BY <1>2, ParseBodyIs
<1>4. <<>> \o b = b /\ <<>> \in Seq(Nat) /\ Len(<<>>) + 1 = 1
  BY <1>2, ConcatEmptySeq
<1>5. g[1] = c
  <2>1. TextsFrom(<<>> \o b, Len(<<>> \o b), g) => g[Len(<<>>) + 1] = c
    BY <1>4, TextsComeBack
  <2> HIDE DEF b
  <2> QED BY <1>3, <1>4, <2>1
<1> QED BY <1>2, <1>3, <1>5

-----------------------------------------------------------------------------
(* Numbers.                                                                *)

LEMMA Division ==
  ASSUME NEW n \in Nat
  PROVE  /\ n \div 10 \in Nat /\ n % 10 \in 0..9
         /\ n = 10 * (n \div 10) + (n % 10)
         /\ n >= 10 => n \div 10 < n
         /\ \A m \in Nat : m <= n => m \div 10 <= n \div 10
<1>1. n \div 10 \in Nat
  OBVIOUS
<1>2. n % 10 \in 0..9
  OBVIOUS
<1>3. n = 10 * (n \div 10) + (n % 10)
  OBVIOUS
<1>4. n >= 10 => n \div 10 < n
  OBVIOUS
<1>5. \A m \in Nat : m <= n => m \div 10 <= n \div 10
  OBVIOUS
<1> QED BY <1>1, <1>2, <1>3, <1>4, <1>5

\* The last digit of a number comes after the others.
DigitsOf(g, n) == IF n < 10 THEN <<Zero + n>> ELSE Append(g[n \div 10], Zero + (n % 10))
DigitsTo(n, g) == \A m \in Nat : m <= n => g[m] = DigitsOf(g, m)

LEMMA DigitsExist ==
  ASSUME NEW n \in Nat
  PROVE  \E g : DigitsTo(n, g)
<1> DEFINE T == {k \in Nat : \E g : DigitsTo(k, g)}
<1>1. 0 \in T
  <2> DEFINE g == [m \in Nat |-> <<Zero + m>>]
  <2>1. \A m \in Nat : m <= 0 => m < 10
    OBVIOUS
  <2>2. \A m \in Nat : g[m] = <<Zero + m>>
    OBVIOUS
  <2> HIDE DEF g
  <2>3. DigitsTo(0, g)
    BY <2>1, <2>2 DEF DigitsTo, DigitsOf
  <2> QED BY <2>3
<1>2. ASSUME NEW k \in T
      PROVE  k + 1 \in T
  <2>1. k \in Nat /\ k + 1 \in Nat
    OBVIOUS
  <2>2. PICK g : DigitsTo(k, g)
    OBVIOUS
  <2> DEFINE h == [m \in Nat |-> IF m <= k THEN g[m] ELSE DigitsOf(g, m)]
  <2>3. ASSUME NEW m \in Nat, m <= k + 1
        PROVE  h[m] = DigitsOf(h, m)
    <3>1. h[m] = DigitsOf(g, m)
      <4>1. CASE m <= k
        BY <2>2, <4>1 DEF DigitsTo
      <4>2. CASE ~(m <= k)
        BY <4>2
      <4> QED BY <4>1, <4>2
    <3>2. m >= 10 => h[m \div 10] = g[m \div 10]
      <4> SUFFICES ASSUME m >= 10
                   PROVE  h[m \div 10] = g[m \div 10]
        OBVIOUS
      <4>1. m \div 10 \in Nat /\ m \div 10 < m
        BY Division
      <4>2. m \div 10 <= k
        BY <2>1, <2>3, <4>1
      <4> QED BY <4>1, <4>2
    <3> HIDE DEF h
    <3>3. m < 10 \/ m >= 10
      OBVIOUS
    <3> QED BY <3>1, <3>2, <3>3 DEF DigitsOf
  <2>4. DigitsTo(k + 1, h)
    <3> HIDE DEF h
    <3> QED BY <2>3 DEF DigitsTo
  <2> HIDE DEF h
  <2> QED BY <2>1, <2>4
<1>3. T = Nat
  <2>1. T \subseteq Nat
    OBVIOUS
  <2> HIDE DEF T
  <2> QED BY <1>1, <1>2, <2>1, NatSet
<1>4. n \in T
  <2> HIDE DEF T
  <2> QED BY <1>3
<1> QED BY <1>4

LEMMA DigitsAgree ==
  ASSUME NEW n \in Nat, NEW g, NEW h, DigitsTo(n, g), DigitsTo(n, h)
  PROVE  g[n] = h[n]
<1> DEFINE T == {k \in Nat : k <= n => g[k] = h[k]}
<1>1. ASSUME NEW k \in Nat, \A m \in Nat : m < k => m \in T
      PROVE  k \in T
  <2> SUFFICES ASSUME k <= n
               PROVE  g[k] = h[k]
    OBVIOUS
  <2>1. g[k] = DigitsOf(g, k) /\ h[k] = DigitsOf(h, k)
    BY DEF DigitsTo
  <2>2. CASE k < 10
    BY <2>1, <2>2 DEF DigitsOf
  <2>3. CASE k >= 10
    <3>1. k \div 10 \in Nat /\ k \div 10 < k
      BY <2>3, Division
    <3>2. k \div 10 \in T /\ k \div 10 <= n
      BY <1>1, <3>1
    <3>3. g[k \div 10] = h[k \div 10]
      BY <3>2
    <3> HIDE DEF T
    <3> QED BY <2>1, <3>3 DEF DigitsOf
  <2> QED BY <2>2, <2>3
<1>2. T = Nat
  <2>1. T \subseteq Nat
    OBVIOUS
  <2> HIDE DEF T
  <2> QED BY <1>1, <2>1, StrongNatSet
<1>3. n \in T /\ n <= n
  <2> HIDE DEF T
  <2> QED BY <1>2
<1> QED BY <1>3

LEMMA DecimalIs ==
  ASSUME NEW n \in Nat
  PROVE  Decimal[n] = DigitsOf(Decimal, n)
<1> DEFINE G(k) == CHOOSE g : DigitsTo(k, g)
           D    == [k \in Nat |-> G(k)[k]]
           Is(f) == f = [k \in Nat |-> IF k < 10 THEN <<Zero + k>>
                                       ELSE Append(f[k \div 10], Zero + (k % 10))]
<1>1. \A k \in Nat : DigitsTo(k, G(k))
  BY DigitsExist, Zenon
<1> HIDE DEF G
<1>2. ASSUME NEW k \in Nat
      PROVE  D[k] = DigitsOf(D, k)
  <2>1. D[k] = G(k)[k] /\ k <= k
    OBVIOUS
  <2>2. G(k)[k] = DigitsOf(G(k), k)
    BY <1>1, <2>1 DEF DigitsTo
  <2>3. CASE k < 10
    BY <2>1, <2>2, <2>3 DEF DigitsOf
  <2>4. CASE k >= 10
    <3> DEFINE l == k \div 10
    <3>1. l \in Nat /\ l < k
      BY <2>4, Division
    <3> HIDE DEF l
    <3>2. \A m \in Nat : m <= l => m <= k
      BY <3>1
    <3>3. DigitsTo(l, G(k))
      <4>1. DigitsTo(k, G(k))
        BY <1>1
      <4> QED BY <3>2, <4>1 DEF DigitsTo
    <3>4. DigitsTo(l, G(l))
      BY <1>1, <3>1
    <3>5. G(k)[l] = G(l)[l]
      BY <3>1, <3>3, <3>4, DigitsAgree
    <3>6. D[l] = G(k)[l]
      BY <3>1, <3>5
    <3>7. ~(k < 10)
      BY <2>4
    <3> HIDE DEF D
    <3> QED BY <2>1, <2>2, <3>6, <3>7 DEF DigitsOf, l
  <2> HIDE DEF D
  <2> QED BY <2>3, <2>4
<1>3. Is(D)
  <2>1. D = [k \in Nat |-> D[k]]
    OBVIOUS
  <2> HIDE DEF D
  <2> QED BY <1>2, <2>1 DEF DigitsOf
<1>4. Is(Decimal)
  <2>1. \E f : Is(f)
    <3> HIDE DEF D, Is
    <3> QED BY <1>3
  <2> QED BY <2>1, Zenon DEF Decimal
<1>5. Decimal[n] = IF n < 10 THEN <<Zero + n>> ELSE Append(Decimal[n \div 10], Zero + (n % 10))
  BY <1>4
<1> QED BY <1>5 DEF DigitsOf

\* A number is written in letters, at least one, and std::stoi reads it back.
LEMMA DecimalComesBack ==
  ASSUME NEW n \in Nat
  PROVE  /\ Decimal[n] \in Seq(Letter)
         /\ Len(Decimal[n]) = IF n < 10 THEN 1 ELSE Len(Decimal[n \div 10]) + 1
         /\ Number(Decimal[n]) = n
<1> DEFINE Back(k) == /\ Decimal[k] \in Seq(Letter)
                      /\ Len(Decimal[k]) = IF k < 10 THEN 1 ELSE Len(Decimal[k \div 10]) + 1
                      /\ Number(Decimal[k]) = k
           T == {k \in Nat : Back(k)}
<1>1. ASSUME NEW k \in Nat, \A m \in Nat : m < k => m \in T
      PROVE  k \in T
  <2>1. CASE k < 10
    <3> DEFINE e == Zero + k
               t == <<e>>
    <3>1. e \in Letter /\ e \in Nat /\ e - Zero = k
      BY DEF Letter, Zero, Nul
    <3>2. t \in Seq(Letter) /\ Len(t) = 1
      <4> HIDE DEF e
      <4> QED BY <3>1
    <3>3. Decimal[k] = t
      BY <2>1, DecimalIs DEF DigitsOf
    <3>4. Number(t) = 10 * Number(<<>>) + (e - Zero)
      <4> HIDE DEF e
      <4>1. t = Append(<<>>, e) /\ <<>> \in Seq(Nat)
        OBVIOUS
      <4> QED BY <3>1, <4>1, NumberAppend
    <3> HIDE DEF t, e
    <3>5. Number(t) = k
      BY <3>1, <3>4, NumberEmpty
    <3>6. Back(k)
      BY <2>1, <3>2, <3>3, <3>5
    <3> HIDE DEF Back
    <3> QED BY <3>6
  <2>2. CASE k >= 10
    <3> DEFINE l == k \div 10
               e == Zero + (k % 10)
               t == Decimal[l]
    <3>1. l \in Nat /\ l < k /\ k % 10 \in 0..9 /\ k = 10 * l + (k % 10)
      BY <2>2, Division
    <3>2. e \in Letter /\ e \in Nat /\ k = 10 * l + (e - Zero)
      <4> HIDE DEF l
      <4> QED BY <3>1 DEF Letter, Zero, Nul
    <3>3. Decimal[k] = Append(t, e)
      <4>1. ~(k < 10)
        BY <2>2
      <4>2. Decimal[k] = DigitsOf(Decimal, k)
        BY DecimalIs
      <4> QED BY <4>1, <4>2 DEF DigitsOf
    <3> HIDE DEF l, e
    <3>4. Back(l)
      <4> HIDE DEF Back
      <4> QED BY <1>1, <3>1
    <3>5. t \in Seq(Letter) /\ Number(t) = l
      BY <3>4
    <3> HIDE DEF t
    <3>6. t \in Seq(Nat)
      BY <3>5, LetterIsByte
    <3>7. Number(Append(t, e)) = k
      <4>1. Number(Append(t, e)) = 10 * Number(t) + (e - Zero)
        BY <3>2, <3>6, NumberAppend
      <4> QED BY <3>2, <3>5, <4>1
    <3>8. Append(t, e) \in Seq(Letter) /\ Len(Append(t, e)) = Len(t) + 1
      BY <3>2, <3>5, AppendProperties
    <3>9. Back(k)
      <4>1. ~(k < 10)
        BY <2>2
      <4> QED BY <3>3, <3>7, <3>8, <4>1 DEF t, l
    <3> HIDE DEF Back
    <3> QED BY <3>9
  <2> QED BY <2>1, <2>2
<1>2. T = Nat
  <2>1. T \subseteq Nat
    OBVIOUS
  <2> HIDE DEF T
  <2> QED BY <1>1, <2>1, StrongNatSet
<1>3. n \in T
  <2> HIDE DEF T
  <2> QED BY <1>2
<1> QED BY <1>3

\* A larger number does not have fewer digits.
LEMMA DigitsGrow ==
  ASSUME NEW n \in Nat, NEW m \in Nat, m <= n
  PROVE  Len(Decimal[m]) <= Len(Decimal[n])
<1> DEFINE Grow(k) == \A l \in Nat : l <= k => Len(Decimal[l]) <= Len(Decimal[k])
           T == {k \in Nat : Grow(k)}
<1>0. \A k \in Nat : Len(Decimal[k]) \in Nat
  <2>1. ASSUME NEW k \in Nat
        PROVE  Len(Decimal[k]) \in Nat
    <3>1. Decimal[k] \in Seq(Letter)
      BY DecimalComesBack
    <3> QED BY <3>1, LenProperties
  <2> QED BY <2>1
<1>1. ASSUME NEW k \in Nat, \A l \in Nat : l < k => l \in T
      PROVE  k \in T
  <2>1. ASSUME NEW l \in Nat, l <= k
        PROVE  Len(Decimal[l]) <= Len(Decimal[k])
    <3> DEFINE a == Len(Decimal[l])
               b == Len(Decimal[k])
               c == Len(Decimal[l \div 10])
               d == Len(Decimal[k \div 10])
    <3>1. a = (IF l < 10 THEN 1 ELSE c + 1) /\ b = (IF k < 10 THEN 1 ELSE d + 1)
      BY DecimalComesBack
    <3>2. l \div 10 \in Nat /\ k \div 10 \in Nat /\ l \div 10 <= k \div 10
      BY <2>1, Division
    <3>3. a \in Nat /\ b \in Nat /\ c \in Nat /\ d \in Nat
      BY <1>0, <3>2
    <3>4. k >= 10 => c <= d
      <4> SUFFICES ASSUME k >= 10
                   PROVE  c <= d
        OBVIOUS
      <4>1. k \div 10 < k
        BY Division
      <4>2. Grow(k \div 10)
        <5> HIDE DEF Grow
        <5> QED BY <1>1, <3>2, <4>1
      <4> QED BY <3>2, <4>2
    <3> HIDE DEF a, b, c, d
    <3>5. a <= b
      BY <2>1, <3>1, <3>3, <3>4
    <3> QED BY <3>5 DEF a, b
  <2> QED BY <2>1
<1>2. T = Nat
  <2>1. T \subseteq Nat
    OBVIOUS
  <2> HIDE DEF T
  <2> QED BY <1>1, <2>1, StrongNatSet
<1>3. n \in T
  <2> HIDE DEF T
  <2> QED BY <1>2
<1> QED BY <1>3

LEMMA OneDigit ==
  ASSUME NEW n \in Nat, n < 10
  PROVE  Len(Decimal[n]) = 1
  BY DecimalComesBack

LEMMA OneMoreDigit ==
  ASSUME NEW n \in Nat, ~(n < 10)
  PROVE  Len(Decimal[n]) = Len(Decimal[n \div 10]) + 1
  BY DecimalComesBack

\* The numbers of five digits.
IsFiveDigits(n) == n \in Nat /\ n \div 10000 \in 1..9

LEMMA FiveDigits ==
  ASSUME NEW n, IsFiveDigits(n)
  PROVE  Len(Decimal[n]) = 5
<1> DEFINE a == n \div 10
           b == a \div 10
           c == b \div 10
           d == c \div 10
<1>1. n \in Nat /\ ~(n < 10) /\ a \in Nat /\ a \div 1000 \in 1..9
  BY SMT DEF IsFiveDigits
<1> HIDE DEF a
<1>2. a \in Nat /\ ~(a < 10) /\ b \in Nat /\ b \div 100 \in 1..9
  BY <1>1, SMT
<1> HIDE DEF b
<1>3. b \in Nat /\ ~(b < 10) /\ c \in Nat /\ c \div 10 \in 1..9
  BY <1>2, SMT
<1> HIDE DEF c
<1>4. c \in Nat /\ ~(c < 10) /\ d \in Nat /\ d < 10
  BY <1>3, SMT
<1> HIDE DEF d
<1>5. Len(Decimal[d]) = 1
  <2>1. d \in Nat /\ d < 10
    BY <1>4, SMT
  <2> QED BY <2>1, OneDigit
<1>6. Len(Decimal[c]) = 2
  <2>1. c \in Nat /\ ~(c < 10)
    BY <1>4, SMT
  <2>2. Len(Decimal[c]) = Len(Decimal[d]) + 1
    BY <2>1, OneMoreDigit DEF d
  <2> QED BY <1>5, <2>2
<1>7. Len(Decimal[b]) = 3
  <2>1. b \in Nat /\ ~(b < 10)
    BY <1>3, SMT
  <2>2. Len(Decimal[b]) = Len(Decimal[c]) + 1
    BY <2>1, OneMoreDigit DEF c
  <2> QED BY <1>6, <2>2
<1>8. Len(Decimal[a]) = 4
  <2>1. a \in Nat /\ ~(a < 10)
    BY <1>2, SMT
  <2>2. Len(Decimal[a]) = Len(Decimal[b]) + 1
    BY <2>1, OneMoreDigit DEF b
  <2> QED BY <1>7, <2>2
<1>9. Len(Decimal[n]) = 5
  <2>1. n \in Nat /\ ~(n < 10)
    BY <1>1, SMT
  <2>2. Len(Decimal[n]) = Len(Decimal[a]) + 1
    BY <2>1, OneMoreDigit DEF a
  <2> QED BY <1>8, <2>2
<1> QED BY <1>9

\* The numbers of ten digits.
IsTenDigits(n) == n \in Nat /\ n \div 1000000000 \in 1..9

LEMMA TenDigits ==
  ASSUME NEW n, IsTenDigits(n)
  PROVE  Len(Decimal[n]) = 10
<1> DEFINE a == n \div 10
           b == a \div 10
           c == b \div 10
           d == c \div 10
           e == d \div 10
<1>1. n \in Nat /\ ~(n < 10) /\ a \in Nat /\ a \div 100000000 \in 1..9
  BY SMT DEF IsTenDigits
<1> HIDE DEF a
<1>2. a \in Nat /\ ~(a < 10) /\ b \in Nat /\ b \div 10000000 \in 1..9
  BY <1>1, SMT
<1> HIDE DEF b
<1>3. b \in Nat /\ ~(b < 10) /\ c \in Nat /\ c \div 1000000 \in 1..9
  BY <1>2, SMT
<1> HIDE DEF c
<1>4. c \in Nat /\ ~(c < 10) /\ d \in Nat /\ d \div 100000 \in 1..9
  BY <1>3, SMT
<1> HIDE DEF d
<1>5. d \in Nat /\ ~(d < 10) /\ e \in Nat /\ e \div 10000 \in 1..9
  BY <1>4, SMT
<1> HIDE DEF e
<1>6. Len(Decimal[e]) = 5
  <2>1. IsFiveDigits(e)
    BY <1>5, SMT DEF IsFiveDigits
  <2> QED BY <2>1, FiveDigits
<1>7. Len(Decimal[d]) = 6
  <2>1. d \in Nat /\ ~(d < 10)
    BY <1>5, SMT
  <2>2. Len(Decimal[d]) = Len(Decimal[e]) + 1
    BY <2>1, OneMoreDigit DEF e
  <2> QED BY <1>6, <2>2
<1>8. Len(Decimal[c]) = 7
  <2>1. c \in Nat /\ ~(c < 10)
    BY <1>4, SMT
  <2>2. Len(Decimal[c]) = Len(Decimal[d]) + 1
    BY <2>1, OneMoreDigit DEF d
  <2> QED BY <1>7, <2>2
<1>9. Len(Decimal[b]) = 8
  <2>1. b \in Nat /\ ~(b < 10)
    BY <1>3, SMT
  <2>2. Len(Decimal[b]) = Len(Decimal[c]) + 1
    BY <2>1, OneMoreDigit DEF c
  <2> QED BY <1>8, <2>2
<1>10. Len(Decimal[a]) = 9
  <2>1. a \in Nat /\ ~(a < 10)
    BY <1>2, SMT
  <2>2. Len(Decimal[a]) = Len(Decimal[b]) + 1
    BY <2>1, OneMoreDigit DEF b
  <2> QED BY <1>9, <2>2
<1>11. Len(Decimal[n]) = 10
  <2>1. n \in Nat /\ ~(n < 10)
    BY <1>1, SMT
  <2>2. Len(Decimal[n]) = Len(Decimal[a]) + 1
    BY <2>1, OneMoreDigit DEF a
  <2> QED BY <1>10, <2>2
<1> QED BY <1>11

\* Leading zeros do not change a number.
LEMMA NumberPadded ==
  ASSUME NEW k \in Nat, NEW t \in Seq(Nat)
  PROVE  Number([i \in 1..k |-> Zero] \o t) = Number(t)
<1> DEFINE Z(n) == [i \in 1..n |-> Zero]
<1>1. ASSUME NEW n \in Nat
      PROVE  Z(n) \in Seq(Nat) /\ Len(Z(n)) = n
  BY DEF Zero
<1>2. ASSUME NEW n \in Nat
      PROVE  Z(n + 1) = Append(Z(n), Zero)
  <2>1. Z(n + 1) \in Seq(Nat) /\ Len(Z(n + 1)) = n + 1 /\ Zero \in Nat
    BY <1>1 DEF Zero
  <2>2. /\ Append(Z(n), Zero) \in Seq(Nat) /\ Len(Append(Z(n), Zero)) = n + 1
        /\ \A i \in 1..(n + 1) : Append(Z(n), Zero)[i] = Zero
    <3> HIDE DEF Z
    <3>1. /\ Append(Z(n), Zero) \in Seq(Nat) /\ Len(Append(Z(n), Zero)) = n + 1
          /\ \A i \in 1..n : Append(Z(n), Zero)[i] = Z(n)[i]
          /\ Append(Z(n), Zero)[n + 1] = Zero
      BY <1>1, <2>1, AppendProperties
    <3>2. \A i \in 1..n : Z(n)[i] = Zero
      BY DEF Z
    <3> QED BY <3>1, <3>2
  <2>3. \A i \in 1..(n + 1) : Z(n + 1)[i] = Zero
    OBVIOUS
  <2> HIDE DEF Z
  <2> QED BY <2>1, <2>2, <2>3, SeqEqual
<1>3. Number(Z(k)) = 0
  <2> DEFINE T == {n \in Nat : Number(Z(n)) = 0}
  <2>1. 0 \in T
    <3>1. Z(0) = <<>>
      OBVIOUS
    <3> QED BY <3>1, NumberEmpty
  <2> HIDE DEF Z
  <2>2. ASSUME NEW n \in T
        PROVE  n + 1 \in T
    <3>1. n \in Nat /\ n + 1 \in Nat /\ Zero \in Nat /\ Number(Z(n)) = 0
      BY DEF Zero
    <3>2. Number(Z(n + 1)) = 10 * Number(Z(n)) + (Zero - Zero)
      BY ZenonT(30), <1>1, <1>2, <3>1, NumberAppend
    <3>3. Number(Z(n + 1)) = 0
      BY <3>1, <3>2
    <3> QED BY <3>1, <3>3
  <2>3. T = Nat
    <3>1. T \subseteq Nat
      OBVIOUS
    <3> HIDE DEF T
    <3> QED BY <2>1, <2>2, <3>1, NatSet
  <2> QED BY <2>3
<1> HIDE DEF Z
<1> DEFINE z == Z(k)
           T == {u \in Seq(Nat) : Number(z \o u) = Number(u)}
<1>4. z \in Seq(Nat) /\ Number(z) = 0
  BY <1>1, <1>3
<1> HIDE DEF z
<1>5. <<>> \in T
  <2>1. z \o <<>> = z /\ <<>> \in Seq(Nat)
    BY <1>4, ConcatEmptySeq
  <2>2. Number(z \o <<>>) = Number(<<>>)
    BY <1>4, <2>1, NumberEmpty
  <2> QED BY <2>1, <2>2
<1> HIDE DEF T
<1>6. ASSUME NEW u \in T, NEW e \in Nat
      PROVE  Append(u, e) \in T
  <2>1. u \in Seq(Nat) /\ Number(z \o u) = Number(u)
    BY DEF T
  <2>2. z \o Append(u, e) = Append(z \o u, e)
    <3> DEFINE f == <<e>>
    <3>1. f \in Seq(Nat) /\ z \o u \in Seq(Nat)
      BY <1>4, <2>1, BytesConcat
    <3>2. Append(u, e) = u \o f /\ Append(z \o u, e) = (z \o u) \o f
      BY <2>1, <3>1, AppendIsConcat
    <3> HIDE DEF f
    <3>3. (z \o u) \o f = z \o (u \o f)
      BY ZenonT(30), <1>4, <2>1, <3>1, BytesAssociative
    <3> QED BY <3>2, <3>3
  <2>3. z \o u \in Seq(Nat)
    BY <1>4, <2>1, BytesConcat
  <2>4. /\ Number(Append(z \o u, e)) = 10 * Number(z \o u) + (e - Zero)
        /\ Number(Append(u, e)) = 10 * Number(u) + (e - Zero)
    BY <2>1, <2>3, NumberAppend
  <2>5. Append(u, e) \in Seq(Nat)
    BY <2>1, AppendProperties
  <2> QED BY <2>1, <2>2, <2>4, <2>5 DEF T
<1>7. T = Seq(Nat)
  <2>1. T \subseteq Seq(Nat)
    BY DEF T
  <2> QED BY <1>5, <1>6, <2>1, SeqSetAppend
<1>8. Number(z \o t) = Number(t)
  BY <1>7 DEF T
<1> QED BY <1>8 DEF z, Z

\* A number of a type is converted to as many digits as its maximum has, and read back.
LEMMA ConvertComesBack ==
  ASSUME NEW n \in Nat, NEW max \in Nat, n <= max
  PROVE  /\ Convert(n, max) \in Seq(Letter)
         /\ Len(Convert(n, max)) = Len(Decimal[max])
         /\ Number(Convert(n, max)) = n
<1> DEFINE k == Len(Decimal[max]) - Len(Decimal[n])
           t == Decimal[n]
           z == [i \in 1..k |-> Zero]
<1>1. t \in Seq(Letter) /\ Number(t) = n /\ Decimal[max] \in Seq(Letter)
  BY DecimalComesBack
<1>2. Len(t) \in Nat /\ Len(Decimal[max]) \in Nat /\ Len(t) <= Len(Decimal[max])
  BY <1>1, DigitsGrow, LenProperties
<1>3. k \in Nat /\ Len(Decimal[max]) = k + Len(t)
  BY <1>2
<1>4. Convert(n, max) = z \o t
  BY DEF Convert
<1> HIDE DEF k, t
<1>5. z \in Seq(Letter) /\ Len(z) = k
  BY <1>3 DEF Letter, Zero, Nul
<1>6. Number(z \o t) = n
  BY <1>1, <1>3, NumberPadded, LetterIsByte
<1> HIDE DEF z
<1>7. z \o t \in Seq(Letter) /\ Len(z \o t) = k + Len(t)
  BY <1>1, <1>5, ConcatProperties
<1> QED BY <1>3, <1>4, <1>6, <1>7

-----------------------------------------------------------------------------
(* Headers.                                                                *)

\* The headers of the protocol: all its codes have five digits.
IsHeader(h) == h \in Header /\ IsFiveDigits(h.code)

\* The name keeps the provers from looking into sequences.
Bytes == Seq(Nat)

LEMMA ThreeParts ==
  ASSUME NEW a \in Bytes, NEW t \in Bytes, NEW z \in Bytes
  PROVE  a \o t \o z \in Bytes /\ Len(a \o t \o z) = Len(a) + Len(t) + Len(z)
<1> DEFINE u == a \o t
<1> USE DEF Bytes
<1>1. u \in Seq(Nat) /\ Len(u) = Len(a) + Len(t)
  BY BytesConcat
<1> HIDE DEF u
<1>2. u \o z \in Seq(Nat) /\ Len(u \o z) = Len(u) + Len(z)
  BY <1>1, BytesConcat
<1> QED BY <1>1, <1>2 DEF u

\* Bytes that are put together from one end may be grouped from the other.
Grouped(a, t, z, q) == (a \o t \o z) \o q = a \o ((t \o z) \o q)

LEMMA Regroup ==
  ASSUME NEW a \in Bytes, NEW t \in Bytes, NEW z \in Bytes, NEW q \in Bytes
  PROVE  Grouped(a, t, z, q)
<1> DEFINE u == t \o z
<1> USE DEF Bytes
<1>1. u \in Seq(Nat)
  BY BytesConcat
<1>2. (a \o t) \o z = a \o u
  BY SMTT(30), BytesAssociative
<1> HIDE DEF u
<1>3. (a \o u) \o q = a \o (u \o q)
  BY SMTT(30), <1>1, BytesAssociative
<1> QED BY <1>2, <1>3 DEF u, Grouped

\* The field that the text t is after the bytes p, when z ends it.
FieldAt(p, t, z, q) ==
  /\ TextAt((p \o t \o z) \o q, Len(p) + 1) = t
  /\ NextAt((p \o t \o z) \o q, Len(p) + 1) = Len(p \o t \o z) + 1

LEMMA FieldFound ==
  ASSUME NEW p \in Bytes, NEW t \in Seq(Letter), NEW z, z = <<Nul>>, NEW q \in Bytes
  PROVE  FieldAt(p, t, z, q)
<1>1. TextAt((p \o t \o z) \o q, Len(p) + 1) = t
  BY TextFound DEF Bytes
<1>2. NextAt((p \o t \o z) \o q, Len(p) + 1) = Len(p \o t \o z) + 1
  BY TextFound DEF Bytes
<1> QED BY <1>1, <1>2 DEF FieldAt

LEMMA Widths == IsFiveDigits(ShortMax) /\ IsTenDigits(UnsignedMax) /\ ShortMax \in Nat
<1>1. ShortMax \in Nat /\ ShortMax \div 10000 \in 1..9
  BY SMT DEF ShortMax
<1>2. UnsignedMax \in Nat /\ UnsignedMax \div 1000000000 \in 1..9
  BY WidthAssumption, SMT DEF UShortMax
<1> QED BY <1>1, <1>2 DEF IsFiveDigits, IsTenDigits

\* A header that has arrived, with whatever follows: it has 25 bytes, and its fields
\* begin where the parser looks for them.
LEMMA FieldsFound ==
  ASSUME NEW h, IsHeader(h), NEW q \in Seq(Nat)
  PROVE  LET b == HeaderData(h) \o q
         IN  /\ HeaderData(h) \in Seq(Nat) /\ Len(HeaderData(h)) = 25
             /\ b[1] = h.magic
             /\ Number(TextAt(b, RevisionAt)) = h.revision
             /\ CodeAt(b) = 9
             /\ Number(TextAt(b, CodeAt(b))) = h.code
             /\ SizeAt(b) = 15
             /\ Number(TextAt(b, SizeAt(b))) = h.bufferSize
<1> DEFINE z  == <<Nul>>
           m  == <<h.magic, Nul>>
           R  == Convert(h.revision, ShortMax)
           C  == Decimal[h.code]
           S  == Convert(h.bufferSize, UnsignedMax)
           h1 == m \o R \o z
           h2 == h1 \o C \o z
           h3 == h2 \o S \o z
           b  == h3 \o q
<1>1. /\ h.magic \in Nat /\ h.revision \in Nat /\ h.revision <= ShortMax
      /\ h.code \in Nat /\ h.bufferSize \in Nat /\ h.bufferSize <= UnsignedMax
  <2>1. /\ h.magic \in 0..127 /\ h.revision \in 0..ShortMax
        /\ h.code \in 0..UShortMax /\ h.bufferSize \in 0..UnsignedMax
    BY DEF IsHeader, Header
  <2>2. UnsignedMax \in Nat /\ ShortMax \in Nat /\ UShortMax \in Nat
    BY WidthAssumption, SMT DEF ShortMax, UShortMax
  <2>3. \A max \in Nat : \A n \in 0..max : n \in Nat /\ n <= max
    OBVIOUS
  <2>4. 127 \in Nat
    OBVIOUS
  <2> QED BY <2>1, <2>2, <2>3, <2>4, Zenon
<1>2. HeaderData(h) = h3
  BY DEF HeaderData
<1>3. R \in Seq(Letter) /\ Len(R) = 5 /\ Number(R) = h.revision
  <2>1. Len(Decimal[ShortMax]) = 5
    BY Widths, FiveDigits
  <2> QED BY <1>1, <2>1, Widths, ConvertComesBack
<1>4. C \in Seq(Letter) /\ Len(C) = 5 /\ Number(C) = h.code
  BY <1>1, DecimalComesBack, FiveDigits DEF IsHeader
<1>5. S \in Seq(Letter) /\ Len(S) = 10 /\ Number(S) = h.bufferSize
  <2>1. Len(Decimal[UnsignedMax]) = 10 /\ UnsignedMax \in Nat
    BY Widths, TenDigits DEF IsTenDigits
  <2> QED BY <1>1, <2>1, ConvertComesBack
<1>6. z \in Seq(Nat) /\ Len(z) = 1
  BY DEF Nul
<1>7. m \in Seq(Nat) /\ Len(m) = 2 /\ m[1] = h.magic
  BY <1>1 DEF Nul
<1>8. z = <<Nul>>
  OBVIOUS
<1> HIDE DEF m, R, C, S, z
<1>9. R \in Bytes /\ C \in Bytes /\ S \in Bytes
  BY <1>3, <1>4, <1>5, LetterIsByte DEF Bytes
<1>10. R \in Seq(Letter) /\ C \in Seq(Letter) /\ S \in Seq(Letter)
  BY <1>3, <1>4, <1>5
<1>11. m \in Bytes /\ z \in Bytes
  BY <1>6, <1>7 DEF Bytes
<1> DEFINE q2 == (S \o z) \o q
           q1 == (C \o z) \o q2
<1>0. q \in Bytes
  BY DEF Bytes
<1>12. q2 \in Bytes
  BY <1>0, <1>9, <1>11, ThreeParts
<1> HIDE DEF q2
<1>13. q1 \in Bytes
  BY <1>9, <1>11, <1>12, ThreeParts
<1> HIDE DEF q1
<1>14. h1 \in Bytes /\ Len(h1) = 8
  <2>1. h1 \in Bytes /\ Len(h1) = Len(m) + Len(R) + Len(z)
    BY <1>9, <1>11, ThreeParts
  <2> QED BY <1>3, <1>6, <1>7, <2>1
<1>15. TextAt(h1 \o q1, Len(m) + 1) = R /\ NextAt(h1 \o q1, Len(m) + 1) = Len(h1) + 1
  <2>1. FieldAt(m, R, z, q1)
    BY <1>8, <1>10, <1>11, <1>13, FieldFound
  <2> QED BY <2>1 DEF FieldAt
<1>16. h1 \o q1 = m \o ((R \o z) \o q1)
  <2>1. Grouped(m, R, z, q1)
    BY <1>9, <1>11, <1>13, Regroup
  <2> QED BY <2>1 DEF Grouped
<1>17. h1 \in Bytes
  BY <1>14
<1> HIDE DEF h1
<1>18. h2 \in Bytes /\ Len(h2) = 14
  <2>1. h2 \in Bytes /\ Len(h2) = Len(h1) + Len(C) + Len(z)
    BY <1>9, <1>11, <1>17, ThreeParts
  <2> QED BY <1>4, <1>6, <1>14, <2>1
<1>19. TextAt(h2 \o q2, Len(h1) + 1) = C /\ NextAt(h2 \o q2, Len(h1) + 1) = Len(h2) + 1
  <2>1. FieldAt(h1, C, z, q2)
    BY <1>8, <1>10, <1>17, <1>12, FieldFound
  <2> QED BY <2>1 DEF FieldAt
<1>20. h2 \o q2 = h1 \o q1
  <2>1. Grouped(h1, C, z, q2)
    BY <1>9, <1>11, <1>12, <1>17, Regroup
  <2> QED BY <2>1 DEF Grouped, q1
<1>21. h2 \in Bytes
  BY <1>18
<1> HIDE DEF h2
<1>22. h3 \in Bytes /\ Len(h3) = 25
  <2>1. h3 \in Bytes /\ Len(h3) = Len(h2) + Len(S) + Len(z)
    BY <1>9, <1>11, <1>21, ThreeParts
  <2> QED BY <1>5, <1>6, <1>18, <2>1
<1>23. TextAt(b, Len(h2) + 1) = S
  <2>1. FieldAt(h2, S, z, q)
    BY <1>0, <1>8, <1>10, <1>21, FieldFound
  <2> QED BY <2>1 DEF FieldAt
<1>24. b = h2 \o q2
  <2>1. Grouped(h2, S, z, q)
    BY <1>0, <1>9, <1>11, <1>21, Regroup
  <2> QED BY <2>1 DEF Grouped, q2
<1> HIDE DEF b
<1>25. /\ TextAt(b, 3) = R /\ NextAt(b, 3) = 9
       /\ TextAt(b, 9) = C /\ NextAt(b, 9) = 15
       /\ TextAt(b, 15) = S
  <2>1. Len(m) + 1 = 3 /\ Len(h1) + 1 = 9 /\ Len(h2) + 1 = 15
    BY <1>7, <1>14, <1>18
  <2> QED BY <1>15, <1>19, <1>20, <1>23, <1>24, <2>1
<1>26. b[1] = h.magic
  <2> DEFINE w == (R \o z) \o q1
  <2>1. w \in Bytes
    BY <1>9, <1>11, <1>13, ThreeParts
  <2>2. b = m \o w
    BY <1>16, <1>20, <1>24
  <2> HIDE DEF w
  <2>3. \A i \in 1..(Len(m) + Len(w)) : (m \o w)[i] = IF i <= Len(m) THEN m[i] ELSE w[i - Len(m)]
    BY <1>11, <2>1, ConcatProperties DEF Bytes
  <2>4. 1 \in 1..(Len(m) + Len(w)) /\ 1 <= Len(m)
    BY <1>7, <2>1 DEF Bytes
  <2> QED BY <1>7, <2>2, <2>3, <2>4
<1>27. CodeAt(b) = 9 /\ SizeAt(b) = 15
  BY <1>25 DEF CodeAt, SizeAt, RevisionAt
<1>28. b = HeaderData(h) \o q
  BY <1>2 DEF b
<1> HIDE DEF h3
<1> QED BY <1>2, <1>3, <1>4, <1>5, <1>22, <1>25, <1>26, <1>27, <1>28 DEF RevisionAt, Bytes

\* Wherever a header is cut, the fields that begin before the cut are read, the others
\* are the default ones, and only a size that is no int makes it throw.
LEMMA HeaderComesBack ==
  ASSUME NEW h, IsHeader(h), NEW q \in Seq(Nat), NEW kind, NEW length \in Nat
  PROVE  LET b == HeaderData(h) \o q
             d == DefaultHeader(kind)
         IN  /\ ParseHeader(kind, b, length) =
                  [magic      |-> IF length > 0  THEN h.magic      ELSE d.magic,
                   revision   |-> IF length > 2  THEN h.revision   ELSE d.revision,
                   code       |-> IF length > 8  THEN h.code       ELSE d.code,
                   bufferSize |-> IF length > 14 THEN h.bufferSize ELSE d.bufferSize]
             /\ HeaderThrows(b, HeaderLength) <=> h.bufferSize > IntMax
<1> DEFINE b == HeaderData(h) \o q
           d == DefaultHeader(kind)
<1>1. /\ b[1] = h.magic
      /\ Number(TextAt(b, RevisionAt)) = h.revision
      /\ CodeAt(b) = 9
      /\ Number(TextAt(b, CodeAt(b))) = h.code
      /\ SizeAt(b) = 15
      /\ Number(TextAt(b, SizeAt(b))) = h.bufferSize
  BY FieldsFound
<1> HIDE DEF b
<1>2. \A e : \A l \in Nat :
        /\ Field(b, l, RevisionAt, e) = IF l > 2  THEN h.revision   ELSE e
        /\ Field(b, l, CodeAt(b), e)  = IF l > 8  THEN h.code       ELSE e
        /\ Field(b, l, SizeAt(b), e)  = IF l > 14 THEN h.bufferSize ELSE e
  <2>1. \A l \in Nat : (RevisionAt > l <=> ~(l > 2)) /\ (9 > l <=> ~(l > 8)) /\ (15 > l <=> ~(l > 14))
    BY DEF RevisionAt
  <2> QED BY <1>1, <2>1 DEF Field
<1>3. length = 0 <=> ~(length > 0)
  OBVIOUS
<1>4. ParseHeader(kind, b, length) =
        [magic      |-> IF length > 0  THEN h.magic      ELSE d.magic,
         revision   |-> IF length > 2  THEN h.revision   ELSE d.revision,
         code       |-> IF length > 8  THEN h.code       ELSE d.code,
         bufferSize |-> IF length > 14 THEN h.bufferSize ELSE d.bufferSize]
  BY <1>1, <1>2, <1>3 DEF ParseHeader
<1>5. /\ Field(b, HeaderLength, RevisionAt, 0) = h.revision
      /\ Field(b, HeaderLength, CodeAt(b), 0) = h.code
      /\ Field(b, HeaderLength, SizeAt(b), 0) = h.bufferSize
  BY <1>2 DEF HeaderLength
<1>6. ~(h.revision > ShortMax) /\ ~(h.code > UShortMax)
  <2>1. h.revision \in 0..ShortMax /\ h.code \in 0..UShortMax
    BY DEF IsHeader, Header
  <2>2. ShortMax \in Nat /\ UShortMax \in Nat
    BY SMT DEF ShortMax, UShortMax
  <2>3. \A max \in Nat : \A n \in 0..max : ~(n > max)
    OBVIOUS
  <2> QED BY <2>1, <2>2, <2>3, Zenon
<1>7. HeaderThrows(b, HeaderLength) <=> h.bufferSize > IntMax
  BY <1>5, <1>6 DEF HeaderThrows
<1> QED BY <1>4, <1>7 DEF b

\* Every header has the 25 bytes, and says so.
LEMMA HeaderLengthIs ==
  ASSUME NEW h, IsHeader(h), NEW kind
  PROVE  /\ HeaderData(h) \in Seq(Nat)
         /\ Len(HeaderData(h)) = HeaderLength
         /\ HeaderSize(kind, h) = HeaderLength
<1>1. HeaderData(h) \in Seq(Nat) /\ Len(HeaderData(h)) = 25
  <2>1. <<>> \in Seq(Nat)
    OBVIOUS
  <2> QED BY <2>1, FieldsFound
<1> DEFINE r == Len(Convert(h.revision, ShortMax))
           c == IF kind = "request" THEN Decimal[h.code] ELSE Convert(h.code, UShortMax)
           s == Len(Convert(h.bufferSize, UnsignedMax))
<1>2. /\ h.revision \in 0..ShortMax /\ h.code \in 0..UShortMax
      /\ h.bufferSize \in 0..UnsignedMax /\ IsFiveDigits(h.code)
  BY DEF IsHeader, Header
<1>3. ShortMax \in Nat /\ UShortMax \in Nat /\ UnsignedMax \in Nat
  BY WidthAssumption, SMT DEF ShortMax, UShortMax
<1>4. \A max \in Nat : \A n \in 0..max : n \in Nat /\ n <= max
  OBVIOUS
<1>5. /\ h.revision \in Nat /\ h.revision <= ShortMax
      /\ h.code \in Nat /\ h.code <= UShortMax
      /\ h.bufferSize \in Nat /\ h.bufferSize <= UnsignedMax
  BY <1>2, <1>3, <1>4, Zenon
<1>6. r = 5
  <2>1. Len(Decimal[ShortMax]) = 5
    BY Widths, FiveDigits
  <2> QED BY <1>3, <1>5, <2>1, ConvertComesBack
<1>7. Len(c) = 5
  <2>1. Len(Decimal[h.code]) = 5
    BY <1>2, FiveDigits
  <2>2. IsFiveDigits(UShortMax)
    BY SMT DEF IsFiveDigits, UShortMax
  <2>3. Len(Convert(h.code, UShortMax)) = 5
    BY <1>3, <1>5, <2>2, FiveDigits, ConvertComesBack
  <2> QED BY <2>1, <2>3
<1>8. s = 10
  <2>1. Len(Decimal[UnsignedMax]) = 10
    BY Widths, TenDigits
  <2> QED BY <1>3, <1>5, <2>1, ConvertComesBack
<1>9. HeaderSize(kind, h) = 1 + r + Len(c) + s + 4
  BY DEF HeaderSize
<1> HIDE DEF r, c, s
<1>10. HeaderSize(kind, h) = 25
  BY <1>6, <1>7, <1>8, <1>9
<1> QED BY <1>1, <1>10 DEF HeaderLength

\* Numbers of these ranges make a header.
LEMMA FieldsAreHeader ==
  ASSUME NEW magic \in 0..127, NEW revision \in 0..ShortMax, NEW code \in 0..UShortMax,
         IsFiveDigits(code), NEW bufferSize \in 0..UnsignedMax
  PROVE  IsHeader([magic |-> magic, revision |-> revision, code |-> code,
                   bufferSize |-> bufferSize])
BY Zenon DEF IsHeader, Header

\* The codes of data_utils.hpp have five digits.
LEMMA CodeFits ==
  ASSUME NEW n \in 10000..UShortMax
  PROVE  n \in 0..UShortMax /\ IsFiveDigits(n)
<1>1. n \in Nat /\ 10000 <= n /\ n <= 65535
  BY SMTT(60) DEF UShortMax
<1>2. n \div 10000 \in Int /\ 1 <= n \div 10000 /\ n \div 10000 <= 9
  BY <1>1, SMT
<1>3. n \div 10000 \in 1..9
  <2> DEFINE d == n \div 10000
  <2>1. d \in Int /\ 1 <= d /\ d <= 9
    BY <1>2
  <2> HIDE DEF d
  <2>2. d \in 1..9
    BY <2>1
  <2> QED BY <2>2 DEF d
<1>4. n \in 0..UShortMax
  <2>1. UShortMax \in Nat
    BY SMTT(60) DEF UShortMax
  <2>2. \A max \in Nat : \A k \in 10000..max : k \in 0..max
    BY SMT
  <2> QED BY <2>1, <2>2, SMT
<1> QED BY <1>1, <1>3, <1>4, SMT DEF IsFiveDigits

\* What HeaderComesBack says of a header without anything after it.
LEMMA HeaderAlone ==
  ASSUME NEW h, IsHeader(h), NEW k, NEW length \in Nat
  PROVE  LET d == DefaultHeader(k)
         IN  /\ ParseHeader(k, HeaderData(h), length) =
                  [magic      |-> IF length > 0  THEN h.magic      ELSE d.magic,
                   revision   |-> IF length > 2  THEN h.revision   ELSE d.revision,
                   code       |-> IF length > 8  THEN h.code       ELSE d.code,
                   bufferSize |-> IF length > 14 THEN h.bufferSize ELSE d.bufferSize]
             /\ HeaderThrows(HeaderData(h), HeaderLength) <=> h.bufferSize > IntMax
<1>1. <<>> \in Seq(Nat)
  OBVIOUS
<1>2. HeaderData(h) \in Seq(Nat)
  BY HeaderLengthIs
<1>3. HeaderData(h) \o <<>> = HeaderData(h)
  BY <1>2, ConcatEmptySeq
<1>4. IsHeader(h) /\ length \in Nat
  OBVIOUS
<1> DEFINE b == HeaderData(h)
<1>5. b \o <<>> = b
  BY <1>3
<1>6. LET d == DefaultHeader(k)
      IN  /\ ParseHeader(k, b \o <<>>, length) =
               [magic      |-> IF length > 0  THEN h.magic      ELSE d.magic,
                revision   |-> IF length > 2  THEN h.revision   ELSE d.revision,
                code       |-> IF length > 8  THEN h.code       ELSE d.code,
                bufferSize |-> IF length > 14 THEN h.bufferSize ELSE d.bufferSize]
          /\ HeaderThrows(b \o <<>>, HeaderLength) <=> h.bufferSize > IntMax
  BY <1>1, <1>4, HeaderComesBack
<1> HIDE DEF b
<1> QED BY <1>5, <1>6 DEF b

\* Request(buffer, length) and Response(buffer, length) undo data(), whatever size the
\* header tells.
LEMMA MessageComesBack ==
  ASSUME NEW h, IsHeader(h), h.bufferSize <= IntMax, NEW c \in Seq(Seq(Letter)), NEW kind
  PROVE  LET m == [header |-> h, body |-> c]
         IN  ParseMessage(kind, MessageData(m), MessageSize(kind, m)) = m
<1> DEFINE m == [header |-> h, body |-> c]
           d == HeaderData(h)
           q == BodyData(c)
           b == d \o q
           n == BodySize(c)
           size == MessageSize(kind, m)
<1>1. q \in Seq(Nat) /\ n \in Nat /\ ParseBody(q, n) = c
  <2>1. c \in Seq(Seq(Nat))
    BY LetterIsByte, SeqMonotonic
  <2> QED BY <2>1, BodyLength, BodyComesBack
<1>2. d \in Seq(Nat) /\ Len(d) = 25 /\ HeaderSize(kind, h) = 25
  BY HeaderLengthIs DEF HeaderLength
<1>3. MessageData(m) = b /\ size = 25 + n
  BY <1>2 DEF MessageData, MessageSize
<1>4. ParseHeader(kind, b, 25 + n) = h
  <2> DEFINE l == 25 + n
  <2>1. l \in Nat /\ l > 0 /\ l > 2 /\ l > 8 /\ l > 14
    BY <1>1
  <2> HIDE DEF l
  <2>2. ParseHeader(kind, b, l) = [magic |-> h.magic, revision |-> h.revision,
                                   code |-> h.code, bufferSize |-> h.bufferSize]
    BY <1>1, <2>1, HeaderComesBack
  <2>3. h = [magic |-> h.magic, revision |-> h.revision,
             code |-> h.code, bufferSize |-> h.bufferSize]
    BY DEF IsHeader, Header
  <2> QED BY <2>2, <2>3 DEF l
<1>5. SubSeq(b, 25 + 1, Len(b)) = q
  BY <1>1, <1>2, Rest
<1> HIDE DEF b, q, n, d
<1>6. (25 + n) - 25 = n
  BY <1>1
<1>7. ParseMessage(kind, b, 25 + n) = [header |-> h, body |-> ParseBody(q, n)]
  BY <1>2, <1>4, <1>5, <1>6 DEF ParseMessage
<1> QED BY <1>1, <1>3, <1>7
=============================================================================
