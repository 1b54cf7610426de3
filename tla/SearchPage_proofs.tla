------------------------- MODULE SearchPage_proofs -------------------------
(***************************************************************************)
(* Proofs about SearchPage, for any rows, sections and texts: the keys go  *)
(* through the results in the order displayed (InOrderHolds), and a key    *)
(* that is pressed once moves once (OneMoveHolds).                         *)
(***************************************************************************)
EXTENDS SearchPage, Induction

-----------------------------------------------------------------------------
(* A document fits when only rows with children are open and the rows that *)
(* are displayed are neighbours: then whatever is displayed next to a row  *)
(* is the row next to it.                                                  *)

Row == [children : Nat, displayed : BOOLEAN, open : BOOLEAN]

RowsFit(d) ==
  /\ d \in Seq(Row)
  /\ \A i \in DOMAIN d : d[i].open => d[i].children > 0
  /\ \A i, j, k \in DOMAIN d :
       i < j /\ j < k /\ d[i].displayed /\ d[k].displayed => d[j].displayed

Displayed(d, i) == i \in 1..Len(d) /\ d[i].displayed

LEMMA RowsTyped ==
  ASSUME NEW d, RowsFit(d)
  PROVE  /\ Len(d) \in Nat
         /\ DOMAIN d = 1..Len(d)
         /\ \A i \in 1..Len(d) : /\ d[i] \in Row
                                 /\ d[i].children \in Nat
                                 /\ d[i].displayed \in BOOLEAN
                                 /\ d[i].open \in BOOLEAN
<1>1. d \in Seq(Row)
  BY DEF RowsFit
<1>2. /\ Len(d) \in Nat
      /\ DOMAIN d = 1..Len(d)
      /\ \A i \in 1..Len(d) : d[i] \in Row
  BY <1>1
<1>3. \A r \in Row : /\ r.children \in Nat
                     /\ r.displayed \in BOOLEAN
                     /\ r.open \in BOOLEAN
  BY DEF Row
<1> QED BY <1>2, <1>3

LEMMA NextIs ==
  ASSUME NEW d, RowsFit(d), NEW i \in 1..Len(d), Displayed(d, i)
  PROVE  NavNext(d, i + 1) = IF Displayed(d, i + 1) THEN i + 1 ELSE 0
<1> DEFINE I == {n \in (i + 1)..Len(d) : d[n].displayed}
<1>0. /\ Len(d) \in Nat /\ i \in Nat /\ i + 1 \in Nat
      /\ DOMAIN d = 1..Len(d)
  BY RowsTyped
<1>1. NavNext(d, i + 1) = IF I # {} THEN Min(I) ELSE 0
  BY DEF NavNext, SelectInSubSeq
<1>2. I \subseteq Nat
  BY <1>0
<1>3. CASE Displayed(d, i + 1)
  <2>1. i + 1 \in I /\ \A n \in I : i + 1 <= n
    BY <1>0, <1>3 DEF Displayed
  <2> HIDE DEF I
  <2>2. Min(I) = i + 1
    BY <1>2, <2>1, MinIs
  <2> QED BY <1>1, <1>3, <2>1, <2>2
<1>4. CASE ~Displayed(d, i + 1)
  <2>1. ASSUME NEW n \in I PROVE FALSE
    <3>1. n \in 1..Len(d) /\ i + 1 <= n /\ d[n].displayed
      BY <1>0
    <3>2. i + 1 \in 1..Len(d)
      BY <1>0, <3>1
    <3>3. i + 1 # n
      BY <1>4, <3>1, <3>2 DEF Displayed
    <3>4. i < i + 1 /\ i + 1 < n
      BY <1>0, <3>1, <3>3
    <3>5. d[i + 1].displayed
      BY <1>0, <3>1, <3>2, <3>4 DEF RowsFit, Displayed
    <3> QED BY <1>4, <3>2, <3>5 DEF Displayed
  <2> HIDE DEF I
  <2>2. I = {}
    BY <2>1
  <2> QED BY <1>1, <1>4, <2>2
<1> QED BY <1>3, <1>4

LEMMA PrevIs ==
  ASSUME NEW d, RowsFit(d), NEW i \in 1..Len(d), Displayed(d, i)
  PROVE  NavPrev(d, i - 1) = IF Displayed(d, i - 1) THEN i - 1 ELSE 0
<1> DEFINE I == {n \in 1..(i - 1) : d[n].displayed}
<1>0. /\ Len(d) \in Nat /\ i \in Nat /\ i - 1 \in Nat
      /\ DOMAIN d = 1..Len(d)
  BY RowsTyped
<1>1. NavPrev(d, i - 1) = IF I # {} THEN Max(I) ELSE 0
  BY DEF NavPrev, SelectLastInSubSeq
<1>2. I \subseteq Nat
  BY <1>0
<1>3. CASE Displayed(d, i - 1)
  <2>1. i - 1 \in I /\ \A n \in I : n <= i - 1
    BY <1>0, <1>3 DEF Displayed
  <2> HIDE DEF I
  <2>2. Max(I) = i - 1
    BY <1>2, <2>1, MaxIs
  <2> QED BY <1>1, <1>3, <2>1, <2>2
<1>4. CASE ~Displayed(d, i - 1)
  <2>1. ASSUME NEW n \in I PROVE FALSE
    <3>1. n \in 1..Len(d) /\ n <= i - 1 /\ d[n].displayed
      BY <1>0
    <3>2. i - 1 \in 1..Len(d)
      BY <1>0, <3>1
    <3>3. i - 1 # n
      BY <1>4, <3>1, <3>2 DEF Displayed
    <3>4. n < i - 1 /\ i - 1 < i
      BY <1>0, <3>1, <3>3
    <3>5. d[i - 1].displayed
      BY <1>0, <3>1, <3>2, <3>4 DEF RowsFit, Displayed
    <3> QED BY <1>4, <3>2, <3>5 DEF Displayed
  <2> HIDE DEF I
  <2>2. I = {}
    BY <2>1
  <2> QED BY <1>1, <1>4, <2>2
<1> QED BY <1>3, <1>4

-----------------------------------------------------------------------------
(* Reading is the parts of the rows one after the other: the row itself,   *)
(* and its children when it is open.                                       *)

Spot == {Item(i) : i \in Nat} \cup {Child(i, c) : i \in Nat, c \in Nat}

SpotAt(i, j) == IF j = 1 THEN Item(i) ELSE Child(i, j - 1)

Parts(d) ==
  [i \in DOMAIN d |->
    IF ~d[i].displayed THEN <<>>
    ELSE <<Item(i)>> \o [c \in 1..(IF d[i].open THEN d[i].children ELSE 0) |-> Child(i, c)]]

\* How many places the row i takes.
Size(d, i) ==
  IF ~d[i].displayed THEN 0 ELSE 1 + (IF d[i].open THEN d[i].children ELSE 0)

\* L[i] is where the part of row i ends.
Laid(d, f, L) ==
  /\ L \in [0..Len(d) -> Nat]
  /\ L[0] = 0
  /\ \A i \in 1..Len(d) : L[i] = L[i - 1] + Size(d, i)
  /\ Len(f) = L[Len(d)]
  /\ \A i \in 1..Len(d) : \A j \in 1..Size(d, i) :
       L[i - 1] + j \in 1..Len(f) /\ f[L[i - 1] + j] = SpotAt(i, j)
  /\ \A k \in 1..Len(f) : \E i \in 1..Len(d) : \E j \in 1..Size(d, i) : k = L[i - 1] + j

LEMMA PartIs ==
  ASSUME NEW d, RowsFit(d), NEW i \in 1..Len(d)
  PROVE  /\ Parts(d)[i] \in Seq(Spot)
         /\ Len(Parts(d)[i]) = Size(d, i)
         /\ \A j \in 1..Size(d, i) : Parts(d)[i][j] = SpotAt(i, j)
<1>1. /\ DOMAIN d = 1..Len(d) /\ Len(d) \in Nat /\ i \in Nat
      /\ d[i].children \in Nat /\ d[i].displayed \in BOOLEAN /\ d[i].open \in BOOLEAN
  BY RowsTyped
<1>2. CASE ~d[i].displayed
  <2>1. Parts(d)[i] = <<>>
    BY <1>1, <1>2 DEF Parts
  <2>2. Size(d, i) = 0
    BY <1>2 DEF Size
  <2>3. <<>> \in Seq(Spot) /\ Len(<<>>) = 0
    OBVIOUS
  <2> QED BY <2>1, <2>2, <2>3
<1>3. CASE d[i].displayed
  <2> DEFINE n == IF d[i].open THEN d[i].children ELSE 0
             y == <<Item(i)>>
             z == [c \in 1..n |-> Child(i, c)]
  <2>1. Parts(d)[i] = y \o z
    BY <1>1, <1>3 DEF Parts
  <2>2. n \in Nat /\ Size(d, i) = 1 + n
    BY <1>1, <1>3 DEF Size
  <2>3. Item(i) \in Spot /\ \A c \in Nat : Child(i, c) \in Spot
    BY <1>1 DEF Spot
  <2>4. y \in Seq(Spot) /\ Len(y) = 1 /\ y[1] = Item(i)
    BY <2>3
  <2> HIDE DEF n, y
  <2>5. z \in Seq(Spot) /\ Len(z) = n /\ \A c \in 1..n : z[c] = Child(i, c)
    BY <2>2, <2>3
  <2> HIDE DEF z
  <2>6. y \o z \in Seq(Spot) /\ Len(y \o z) = 1 + n
    <3>1. y \in Seq(Spot)
      BY <2>4
    <3>2. z \in Seq(Spot)
      BY <2>5
    <3>3. y \o z \in Seq(Spot) /\ Len(y \o z) = Len(y) + Len(z)
      BY <3>1, <3>2
    <3> QED BY <2>4, <2>5, <3>3
  <2>7. ASSUME NEW j \in 1..(1 + n) PROVE (y \o z)[j] = SpotAt(i, j)
    <3>0. y \in Seq(Spot) /\ z \in Seq(Spot) /\ j \in 1..(Len(y) + Len(z))
      BY <2>2, <2>4, <2>5
    <3>4. (y \o z)[j] = IF j <= Len(y) THEN y[j] ELSE z[j - Len(y)]
      BY <3>0
    <3>1. (y \o z)[j] = IF j <= 1 THEN y[j] ELSE z[j - 1]
      BY <2>4, <3>4
    <3>2. CASE j = 1
      BY <3>1, <3>2, <2>4 DEF SpotAt
    <3>3. CASE j # 1
      <4>1. j - 1 \in 1..n /\ ~(j <= 1)
        BY <2>2, <3>3
      <4> QED BY <3>1, <3>3, <4>1, <2>5 DEF SpotAt
    <3> QED BY <3>2, <3>3
  <2> QED BY <2>1, <2>2, <2>6, <2>7
<1> QED BY <1>1, <1>2, <1>3

LEMMA ReadingIsLaid ==
  ASSUME NEW d, RowsFit(d)
  PROVE  \E L : Laid(d, FlattenSeq(Parts(d)), L)
<1> DEFINE s == Parts(d)
           f == FlattenSeq(s)
<1>1. Len(d) \in Nat /\ DOMAIN d = 1..Len(d)
  BY RowsTyped
<1>2. DOMAIN s = 1..Len(d)
  BY <1>1 DEF Parts
<1>3. s = [i \in 1..Len(d) |-> s[i]]
  BY <1>1 DEF Parts
<1>4. \A i \in 1..Len(d) : s[i] \in Seq(Spot)
  BY PartIs
<1>5. \A i \in 1..Len(d) : Len(s[i]) = Size(d, i)
  BY PartIs
<1>6. \A i \in 1..Len(d) : \A j \in 1..Size(d, i) : s[i][j] = SpotAt(i, j)
  BY PartIs
<1> HIDE DEF s
<1>7. s \in Seq(Seq(Spot)) /\ Len(s) = Len(d)
  BY <1>1, <1>2, <1>3, <1>4
<1>8. PICK L : Placed(s, f, L)
  BY <1>7, FlattenPlaces
<1> HIDE DEF f
<1>9. Laid(d, f, L)
  <2>1. /\ L \in [0..Len(d) -> Nat]
        /\ L[0] = 0
        /\ Len(f) = L[Len(d)]
    BY <1>7, <1>8 DEF Placed
  <2>2. ASSUME NEW i \in 1..Len(d)
        PROVE  L[i] = L[i - 1] + Size(d, i)
    BY <1>5, <1>7, <1>8 DEF Placed
  <2>3. ASSUME NEW i \in 1..Len(d), NEW j \in 1..Size(d, i)
        PROVE  L[i - 1] + j \in 1..Len(f) /\ f[L[i - 1] + j] = SpotAt(i, j)
    <3>1. i \in 1..Len(s) /\ j \in 1..Len(s[i]) /\ s[i][j] = SpotAt(i, j)
      BY <1>5, <1>6, <1>7
    <3> QED BY <1>8, <3>1 DEF Placed
  <2>4. ASSUME NEW k \in 1..Len(f)
        PROVE  \E i \in 1..Len(d) : \E j \in 1..Size(d, i) : k = L[i - 1] + j
    <3>1. PICK i \in 1..Len(s) : \E j \in 1..Len(s[i]) : k = L[i - 1] + j
      BY <1>8 DEF Placed
    <3>2. i \in 1..Len(d) /\ Len(s[i]) = Size(d, i)
      BY <1>5, <1>7
    <3> QED BY <3>1, <3>2
  <2> QED BY <2>1, <2>2, <2>3, <2>4 DEF Laid
<1> QED BY <1>9 DEF f, s

\* Before the first row displayed nothing is read, and after the last one nothing.
LEMMA BeforeFirst ==
  ASSUME NEW d, RowsFit(d), NEW f, NEW L, Laid(d, f, L),
         NEW i \in 1..Len(d), Displayed(d, i), ~Displayed(d, i - 1)
  PROVE  L[i - 1] = 0
<1> DEFINE T == {n \in Nat : n <= i - 1 => L[n] = 0}
<1>0. Len(d) \in Nat /\ i \in Nat /\ DOMAIN d = 1..Len(d)
  BY RowsTyped
<1>1. 0 \in T
  BY DEF Laid
<1>2. ASSUME NEW n \in T PROVE n + 1 \in T
  <2> SUFFICES ASSUME n + 1 <= i - 1 PROVE L[n + 1] = 0
    BY <1>0
  <2>1. n \in Nat /\ n + 1 \in 1..Len(d) /\ n <= i - 1 /\ (n + 1) - 1 = n
    BY <1>0
  <2>2. L[n] = 0
    BY <2>1
  <2>3. ~d[n + 1].displayed
    <3>1. CASE n + 1 = i - 1
      BY <2>1, <3>1 DEF Displayed
    <3>2. CASE n + 1 # i - 1
      <4>1. i - 1 \in 1..Len(d) /\ n + 1 < i - 1 /\ i - 1 < i
        BY <1>0, <2>1, <3>2
      <4>2. ~d[i - 1].displayed
        BY <4>1 DEF Displayed
      <4> QED BY <1>0, <2>1, <4>1, <4>2 DEF RowsFit, Displayed
    <3> QED BY <3>1, <3>2
  <2>4. Size(d, n + 1) = 0
    BY <2>3 DEF Size
  <2>5. L[n + 1] = L[(n + 1) - 1] + Size(d, n + 1)
    BY <2>1 DEF Laid
  <2> QED BY <2>1, <2>2, <2>4, <2>5
<1>3. T \subseteq Nat
  OBVIOUS
<1> HIDE DEF T
<1>4. T = Nat
  BY <1>1, <1>2, <1>3, NatSet
<1>5. i - 1 \in T
  BY <1>0, <1>4
<1> QED BY <1>0, <1>5 DEF T

LEMMA AfterLast ==
  ASSUME NEW d, RowsFit(d), NEW f, NEW L, Laid(d, f, L),
         NEW i \in 1..Len(d), Displayed(d, i), ~Displayed(d, i + 1)
  PROVE  L[i] = Len(f)
<1> DEFINE T == {n \in Nat : i + n <= Len(d) => L[i + n] = L[i]}
<1>0. Len(d) \in Nat /\ i \in Nat /\ DOMAIN d = 1..Len(d)
  BY RowsTyped
<1>1. 0 \in T
  BY <1>0
<1>2. ASSUME NEW n \in T PROVE n + 1 \in T
  <2> SUFFICES ASSUME i + (n + 1) <= Len(d) PROVE L[i + (n + 1)] = L[i]
    BY <1>0
  <2> DEFINE m == i + (n + 1)
  <2>1. n \in Nat /\ m \in 1..Len(d) /\ i + n <= Len(d) /\ m - 1 = i + n /\ i + 1 <= m
    BY <1>0
  <2>2. L[m - 1] = L[i]
    BY <2>1
  <2> HIDE DEF m
  <2>3. ~d[m].displayed
    <3>1. CASE m = i + 1
      BY <2>1, <3>1 DEF Displayed
    <3>2. CASE m # i + 1
      <4>1. i + 1 \in 1..Len(d) /\ i < i + 1 /\ i + 1 < m
        BY <1>0, <2>1, <3>2
      <4>2. ~d[i + 1].displayed
        BY <4>1 DEF Displayed
      <4> QED BY <1>0, <2>1, <4>1, <4>2 DEF RowsFit, Displayed
    <3> QED BY <3>1, <3>2
  <2>4. Size(d, m) = 0
    BY <2>3 DEF Size
  <2>5. L[m] = L[m - 1] + Size(d, m)
    BY <2>1 DEF Laid
  <2>6. L[i] \in Nat
    BY <1>0 DEF Laid
  <2>7. L[m] = L[i]
    BY <2>2, <2>4, <2>5, <2>6
  <2> QED BY <2>7 DEF m
<1>3. T \subseteq Nat
  OBVIOUS
<1> HIDE DEF T
<1>4. T = Nat
  BY <1>1, <1>2, <1>3, NatSet
<1>5. Len(d) - i \in T /\ i + (Len(d) - i) = Len(d)
  BY <1>0, <1>4
<1>6. L[Len(d)] = L[i]
  BY <1>0, <1>5 DEF T
<1> QED BY <1>6 DEF Laid

-----------------------------------------------------------------------------
(* Where the keys lead from a place, and what is read next to it.          *)

LEMMA SpotIs ==
  ASSUME NEW i \in Nat, NEW j \in Nat
  PROVE  /\ j = 1 => SpotAt(i, j)[1] = "item" /\ SpotAt(i, j)[2] = i
         /\ j # 1 => /\ SpotAt(i, j)[1] = "child" /\ SpotAt(i, j)[2] = i
                    /\ SpotAt(i, j)[3] = j - 1
BY DEF SpotAt, Item, Child

LEMMA SizeIs ==
  ASSUME NEW d, RowsFit(d), NEW i \in 1..Len(d), NEW j \in 1..Size(d, i)
  PROVE  /\ Displayed(d, i)
         /\ i \in Nat /\ j \in Nat /\ 1 <= j /\ Size(d, i) \in Nat
         /\ Size(d, i) = 1 + (IF d[i].open THEN d[i].children ELSE 0)
         /\ d[i].children \in Nat /\ d[i].open \in BOOLEAN
         /\ d[i].open => d[i].children > 0
<1>1. /\ DOMAIN d = 1..Len(d) /\ Len(d) \in Nat /\ i \in Nat
      /\ d[i].children \in Nat /\ d[i].displayed \in BOOLEAN /\ d[i].open \in BOOLEAN
  BY RowsTyped
<1>2. Size(d, i) \in Nat
  BY <1>1 DEF Size
<1>3. j \in Nat /\ 1 <= j /\ Size(d, i) # 0
  BY <1>2
<1>4. d[i].displayed
  BY <1>3 DEF Size
<1>5. d[i].open => d[i].children > 0
  BY <1>1 DEF RowsFit
<1> QED BY <1>1, <1>2, <1>3, <1>4, <1>5 DEF Size, Displayed

LEMMA DownIs ==
  ASSUME NEW d, RowsFit(d), NEW i \in 1..Len(d), NEW j \in 1..Size(d, i)
  PROVE  Down(d, SpotAt(i, j)) =
           IF j < Size(d, i) THEN SpotAt(i, j + 1)
           ELSE IF Displayed(d, i + 1) THEN SpotAt(i + 1, 1)
           ELSE SpotAt(i, j)
<1> DEFINE here == SpotAt(i, j)
<1>1. /\ Displayed(d, i)
      /\ i \in Nat /\ j \in Nat /\ 1 <= j /\ Size(d, i) \in Nat
      /\ Size(d, i) = 1 + (IF d[i].open THEN d[i].children ELSE 0)
      /\ d[i].children \in Nat /\ d[i].open \in BOOLEAN
      /\ d[i].open => d[i].children > 0
      /\ j <= Size(d, i)
  BY SizeIs
<1>2. NavNext(d, i + 1) = IF Displayed(d, i + 1) THEN i + 1 ELSE 0
  BY <1>1, NextIs
<1>3. ItemOr(NavNext(d, i + 1), here) = IF Displayed(d, i + 1) THEN SpotAt(i + 1, 1) ELSE here
  BY <1>1, <1>2 DEF ItemOr, SpotAt
<1>4. CASE j = 1
  <2>1. Down(d, here) = NavDown(d, i)
    BY <1>1, <1>4, SpotIs DEF Down
  <2>2. here = Item(i)
    BY <1>4 DEF SpotAt
  <2>3. CASE d[i].open
    <3>1. NavDown(d, i) = Child(i, 1) /\ j < Size(d, i)
      BY <1>1, <1>4, <2>3 DEF NavDown
    <3>2. SpotAt(i, j + 1) = Child(i, 1)
      BY <1>4 DEF SpotAt
    <3> QED BY <2>1, <3>1, <3>2
  <2>4. CASE ~d[i].open
    <3>1. ~(j < Size(d, i)) /\ NavDown(d, i) = ItemOr(NavNext(d, i + 1), Item(i))
      BY <1>1, <1>4, <2>4 DEF NavDown
    <3> QED BY <1>3, <2>1, <2>2, <3>1
  <2> QED BY <2>3, <2>4
<1>5. CASE j # 1
  <2>1. Down(d, here) = NavChildDown(d, i, j - 1)
    <3>1. here[1] = "child" /\ here[2] = i /\ here[3] = j - 1
      BY <1>1, <1>5, SpotIs
    <3> HIDE DEF here
    <3> QED BY <3>1 DEF Down
  <2>2. here = Child(i, j - 1) /\ j - 1 \in Nat /\ (j - 1) + 1 = j /\ (j + 1) - 1 = j /\ j + 1 # 1
    BY <1>1, <1>5 DEF SpotAt
  <2>3. d[i].open /\ (j - 1 < d[i].children <=> j < Size(d, i))
    BY <1>1, <1>5
  <2>4. SpotAt(i, j + 1) = Child(i, j)
    BY <2>2 DEF SpotAt
  <2> QED BY <1>3, <2>1, <2>2, <2>3, <2>4 DEF NavChildDown
<1> QED BY <1>4, <1>5

LEMMA UpIs ==
  ASSUME NEW d, RowsFit(d), NEW i \in 1..Len(d), NEW j \in 1..Size(d, i)
  PROVE  Up(d, SpotAt(i, j)) =
           IF j > 1 THEN SpotAt(i, j - 1)
           ELSE IF Displayed(d, i - 1) THEN SpotAt(i - 1, Size(d, i - 1))
           ELSE Field
<1> DEFINE here == SpotAt(i, j)
<1>1. /\ Displayed(d, i)
      /\ i \in Nat /\ j \in Nat /\ 1 <= j
  BY SizeIs
<1>2. NavPrev(d, i - 1) = IF Displayed(d, i - 1) THEN i - 1 ELSE 0
  BY <1>1, PrevIs
<1>3. CASE j = 1
  <2>1. Up(d, here) = NavUp(d, i)
    BY <1>1, <1>3, SpotIs DEF Up
  <2>2. CASE ~Displayed(d, i - 1)
    BY <1>2, <1>3, <2>1, <2>2 DEF NavUp
  <2>3. CASE Displayed(d, i - 1)
    <3> DEFINE p == i - 1
    <3>1. p \in 1..Len(d) /\ p # 0 /\ d[p].displayed
      BY <1>1, <2>3 DEF Displayed
    <3>2. NavPrev(d, p) = p
      BY <1>2, <2>3
    <3>3. /\ d[p].children \in Nat /\ d[p].open \in BOOLEAN
          /\ d[p].open => d[p].children > 0
      BY <3>1, RowsTyped DEF RowsFit
    <3>4. Size(d, p) = 1 + (IF d[p].open THEN d[p].children ELSE 0)
      BY <3>1 DEF Size
    <3>5. NavUp(d, i) = IF d[p].open /\ d[p].children > 0
                        THEN Child(p, d[p].children) ELSE Item(p)
      BY <3>1, <3>2 DEF NavUp
    <3> HIDE DEF p
    <3>6. NavUp(d, i) = SpotAt(p, Size(d, p))
      BY <3>3, <3>4, <3>5 DEF SpotAt
    <3> QED BY <1>3, <2>1, <2>3, <3>6 DEF p
  <2> QED BY <2>2, <2>3
<1>4. CASE j # 1
  <2>1. Up(d, here) = NavChildUp(i, j - 1)
    BY <1>1, <1>4, SpotIs DEF Up
  <2>2. j > 1 /\ j - 1 \in Nat
    BY <1>1, <1>4
  <2>3. NavChildUp(i, j - 1) = SpotAt(i, j - 1)
    BY <2>2 DEF NavChildUp, SpotAt
  <2> QED BY <2>1, <2>2, <2>3
<1> QED BY <1>3, <1>4

\* The keys for down and up lead to the next place and to the one before.
LEMMA KeysInOrder ==
  ASSUME NEW d, RowsFit(d), NEW f, NEW L, Laid(d, f, L), NEW k \in 1..Len(f)
  PROVE  /\ Down(d, f[k]) = f[IF k < Len(f) THEN k + 1 ELSE k]
         /\ Up(d, f[k])   = IF k = 1 THEN Field ELSE f[k - 1]
<1>1. PICK i \in 1..Len(d) : \E j \in 1..Size(d, i) : k = L[i - 1] + j
  BY DEF Laid
<1>2. PICK j \in 1..Size(d, i) : k = L[i - 1] + j
  BY <1>1
<1>3. /\ Displayed(d, i)
      /\ i \in Nat /\ j \in Nat /\ 1 <= j /\ Size(d, i) \in Nat /\ j <= Size(d, i)
  BY SizeIs
<1>4. Len(d) \in Nat /\ i - 1 \in 0..Len(d) /\ i \in 0..Len(d)
  BY RowsTyped
<1>5. /\ L[i - 1] \in Nat /\ L[i] \in Nat
      /\ L[i] = L[i - 1] + Size(d, i)
      /\ Len(f) = L[Len(d)] /\ Len(f) \in Nat
  <2>1. L \in [0..Len(d) -> Nat] /\ Len(d) \in 0..Len(d)
    BY <1>4 DEF Laid
  <2>2. L[i] = L[i - 1] + Size(d, i) /\ Len(f) = L[Len(d)]
    BY DEF Laid
  <2> QED BY <1>4, <2>1, <2>2
<1>6. \A m \in 1..Len(d) : \A n \in 1..Size(d, m) :
        L[m - 1] + n \in 1..Len(f) /\ f[L[m - 1] + n] = SpotAt(m, n)
  BY DEF Laid
<1>7. f[k] = SpotAt(i, j) /\ k \in Nat
  BY <1>2, <1>6
<1>8. Down(d, f[k]) = f[IF k < Len(f) THEN k + 1 ELSE k]
  <2>1. CASE j < Size(d, i)
    <3>1. j + 1 \in 1..Size(d, i)
      BY <1>3, <2>1
    <3>2. L[i - 1] + (j + 1) \in 1..Len(f) /\ f[L[i - 1] + (j + 1)] = SpotAt(i, j + 1)
      BY <1>6, <3>1
    <3>3. L[i - 1] + (j + 1) = k + 1 /\ k < Len(f)
      <4>1. L[i - 1] \in Nat /\ j \in Nat /\ k = L[i - 1] + j /\ Len(f) \in Nat
        BY <1>2, <1>3, <1>5
      <4>2. L[i - 1] + (j + 1) <= Len(f)
        BY <1>5, <3>2
      <4> QED BY SMTT(30), <4>1, <4>2
    <3> QED BY <1>7, <2>1, <3>2, <3>3, DownIs
  <2>2. CASE ~(j < Size(d, i)) /\ Displayed(d, i + 1)
    <3>1. i + 1 \in 1..Len(d) /\ d[i + 1].displayed /\ (i + 1) - 1 = i
      BY <1>3, <2>2 DEF Displayed
    <3>2. 1 \in 1..Size(d, i + 1)
      BY <3>1, RowsTyped DEF Size
    <3>3. L[i] + 1 \in 1..Len(f) /\ f[L[i] + 1] = SpotAt(i + 1, 1)
      BY <1>6, <3>1, <3>2
    <3>4. L[i] = k /\ k < Len(f)
      BY SMTT(30), <1>2, <1>3, <1>5, <2>2, <3>3
    <3> QED BY <1>7, <2>2, <3>3, <3>4, DownIs
  <2>3. CASE ~(j < Size(d, i)) /\ ~Displayed(d, i + 1)
    <3>1. L[i] = Len(f)
      BY <1>3, <2>3, AfterLast
    <3>2. k = Len(f)
      BY <1>2, <1>3, <1>5, <2>3, <3>1
    <3> QED BY <1>5, <1>7, <2>3, <3>2, DownIs
  <2> QED BY <2>1, <2>2, <2>3
<1>9. Up(d, f[k]) = IF k = 1 THEN Field ELSE f[k - 1]
  <2>1. CASE j > 1
    <3>1. j - 1 \in 1..Size(d, i)
      BY <1>3, <2>1
    <3>2. L[i - 1] + (j - 1) \in 1..Len(f) /\ f[L[i - 1] + (j - 1)] = SpotAt(i, j - 1)
      BY <1>6, <3>1
    <3>3. L[i - 1] + (j - 1) = k - 1 /\ k # 1
      <4>1. L[i - 1] \in Nat /\ j \in Nat /\ k = L[i - 1] + j
        BY <1>2, <1>3, <1>5
      <4> QED BY <2>1, <4>1
    <3> QED BY <1>7, <2>1, <3>2, <3>3, UpIs
  <2>2. CASE ~(j > 1) /\ Displayed(d, i - 1)
    <3> DEFINE p == i - 1
    <3>1. p \in 1..Len(d) /\ d[p].displayed /\ p - 1 \in 0..Len(d)
      BY <1>3, <1>4, <2>2 DEF Displayed
    <3>2. Size(d, p) \in Nat /\ Size(d, p) \in 1..Size(d, p)
      BY <3>1, RowsTyped DEF Size
    <3>3. L[p] = L[p - 1] + Size(d, p)
      BY <3>1 DEF Laid
    <3> HIDE DEF p
    <3>4. L[p] \in 1..Len(f) /\ f[L[p]] = SpotAt(p, Size(d, p))
      BY <1>6, <3>1, <3>2, <3>3
    <3>5. k - 1 = L[p] /\ k # 1
      BY <1>2, <1>3, <1>5, <2>2, <3>4 DEF p
    <3>6. Up(d, f[k]) = SpotAt(p, Size(d, p))
      BY <1>7, <2>2, UpIs DEF p
    <3> QED BY <3>4, <3>5, <3>6
  <2>3. CASE ~(j > 1) /\ ~Displayed(d, i - 1)
    <3>1. L[i - 1] = 0
      BY <1>3, <2>3, BeforeFirst
    <3>2. k = 1
      BY <1>2, <1>3, <2>3, <3>1
    <3> QED BY <1>7, <2>3, <3>2, UpIs
  <2> QED BY <2>1, <2>2, <2>3
<1> QED BY <1>8, <1>9

\* Any document that fits is walked in order.
LEMMA FitInOrder ==
  ASSUME RowsFit(doc)
  PROVE  InOrder
<1>1. Reading = FlattenSeq(Parts(doc))
  BY DEF Reading, Parts
<1>2. PICK L : Laid(doc, Reading, L)
  BY <1>1, ReadingIsLaid
<1>3. Reading \in Seq(Spot)
  <2>1. Len(doc) \in Nat /\ DOMAIN doc = 1..Len(doc)
    BY RowsTyped
  <2>2. DOMAIN Parts(doc) = 1..Len(doc) /\ \A i \in 1..Len(doc) : Parts(doc)[i] \in Seq(Spot)
    BY <2>1, PartIs DEF Parts
  <2>3. Parts(doc) = [i \in 1..Len(doc) |-> Parts(doc)[i]]
    BY <2>1 DEF Parts
  <2>4. Parts(doc) \in Seq(Seq(Spot))
    BY <2>1, <2>2, <2>3
  <2> QED BY <1>1, <2>4, FlattenIsSeq
<1>4. DOMAIN Reading = 1..Len(Reading)
  BY <1>3
<1>5. ASSUME NEW k \in DOMAIN Reading
      PROVE  /\ Down(doc, Reading[k]) = Reading[IF k < Len(Reading) THEN k + 1 ELSE k]
             /\ Up(doc, Reading[k])   = IF k = 1 THEN Field ELSE Reading[k - 1]
  BY <1>2, <1>4, KeysInOrder
<1> QED BY <1>5 DEF InOrder

-----------------------------------------------------------------------------
(* A page's document fits, for a text of any characters: what is displayed *)
(* begins with the same letters, and the data have those together.         *)

\* The characters of texts: strings, of which the provers do not know that these
\* two are.
Character == STRING \cup {"end", "_"}

LEMMA MoreSeqs ==
  ASSUME NEW S, NEW T, S \subseteq T
  PROVE  Seq(S) \subseteq Seq(T)
<1> SUFFICES ASSUME NEW s \in Seq(S) PROVE s \in Seq(T)
  OBVIOUS
<1>1. Len(s) \in Nat /\ s = [i \in 1..Len(s) |-> s[i]] /\ \A i \in 1..Len(s) : s[i] \in T
  OBVIOUS
<1> QED BY <1>1

LEMMA StringsAreCharacters == Seq(STRING) \subseteq Seq(Character)
<1>1. STRING \subseteq Character
  BY DEF Character
<1> QED BY <1>1, MoreSeqs

LEMMA DataIsCharacters ==
  ASSUME NEW page \in DOMAIN searchData
  PROVE  searchData[page] \in Seq([id : Seq(Character), children : Nat])
<1> DEFINE R == [id : Seq(STRING), children : Nat]
           Q == [id : Seq(Character), children : Nat]
<1>1. searchData[page] \in Seq(R)
  BY DataAssumption
<1>2. R \subseteq Q
  BY StringsAreCharacters
<1> HIDE DEF R, Q
<1>3. searchData[page] \in Seq(Q)
  BY <1>1, <1>2, MoreSeqs
<1> QED BY <1>3 DEF Q

LEMMA OneAndTwo ==
  ASSUME NEW S, NEW a \in S, NEW b \in S
  PROVE  /\ <<a>> \in Seq(S) /\ Len(<<a>>) = 1 /\ <<a>>[1] = a
         /\ <<a, b>> \in Seq(S)
OBVIOUS

LEMMA LeadingGoes ==
  ASSUME NEW text \in Seq(Character)
  PROVE  WithoutLeading(text) \in Seq(Character)
<1> DEFINE y == <<"end">>
           s == text \o y
           I == {i \in 1..Len(s) : s[i] # Space}
           m == SelectInSeq(s, LAMBDA c : c # Space)
<1>1. y \in Seq(Character) /\ Len(y) = 1 /\ y[1] = "end"
  <2>1. "end" \in Character
    BY DEF Character
  <2> QED BY <2>1, OneAndTwo
<1> HIDE DEF y
<1>2. /\ s \in Seq(Character) /\ Len(s) = Len(text) + 1
      /\ Len(text) \in Nat
      /\ s[Len(text) + 1] = y[1]
  <2>1. y \in Seq(Character)
    BY <1>1
  <2>2. s \in Seq(Character) /\ Len(s) = Len(text) + Len(y) /\ Len(text) \in Nat
    BY <2>1
  <2>3. Len(text) + 1 \in 1..(Len(text) + Len(y)) /\ ~(Len(text) + 1 <= Len(text))
        /\ (Len(text) + 1) - Len(text) = 1
    BY <1>1, <2>2
  <2>4. s[Len(text) + 1] = y[(Len(text) + 1) - Len(text)]
    BY <2>1, <2>3
  <2> QED BY <1>1, <2>2, <2>3, <2>4
<1> HIDE DEF s
<1>3. Len(text) + 1 \in I
  <2>1. Len(text) + 1 \in 1..Len(s)
    BY <1>2
  <2>2. "end" # " "
    OBVIOUS
  <2> QED BY <1>1, <1>2, <2>1, <2>2 DEF Space
<1>4. m = Min(I)
  BY <1>3 DEF SelectInSeq
<1>5. I \subseteq Nat /\ I # {} /\ \A i \in I : i \in 1..(Len(text) + 1)
  BY <1>2, <1>3
<1> HIDE DEF I
<1>6. PICK n \in I : \A i \in I : n <= i
  BY <1>5, LeastNat
<1>7. m = n /\ n \in 1..(Len(text) + 1)
  BY <1>4, <1>5, <1>6, MinIs
<1>8. WithoutLeading(text) = SubSeq(text, m, Len(text))
  BY DEF WithoutLeading, s, y
<1> HIDE DEF m
<1>9. SubSeq(text, n, Len(text)) \in Seq(Character)
  BY <1>2, <1>7
<1> QED BY <1>7, <1>8, <1>9

LEMMA ReverseIsSeq ==
  ASSUME NEW text \in Seq(Character)
  PROVE  Reverse(text) \in Seq(Character)
<1>1. Len(text) \in Nat /\ \A i \in 1..Len(text) : text[(Len(text) - i) + 1] \in Character
  OBVIOUS
<1> QED BY <1>1 DEF Reverse

LEMMA IdIsSeq ==
  ASSUME NEW text \in Seq(Character)
  PROVE  convertToId(text) \in Seq(Character)
<1> DEFINE s == [i \in DOMAIN text |-> IF text[i] \in Plain THEN <<text[i]>> ELSE <<"_", text[i]>>]
<1>1. \A c \in Character : <<c>> \in Seq(Character) /\ <<"_", c>> \in Seq(Character)
  <2>1. "_" \in Character
    BY DEF Character
  <2> QED BY <2>1, OneAndTwo
<1>2. DOMAIN text = 1..Len(text) /\ Len(text) \in Nat /\ \A i \in 1..Len(text) : text[i] \in Character
  OBVIOUS
<1>3. /\ s = [i \in 1..Len(text) |-> s[i]]
      /\ \A i \in 1..Len(text) : s[i] \in Seq(Character)
  BY <1>1, <1>2
<1> HIDE DEF s
<1>4. s \in Seq(Seq(Character))
  BY <1>2, <1>3
<1>5. FlattenSeq(s) \in Seq(Character)
  BY <1>4, FlattenIsSeq
<1> QED BY <1>5 DEF convertToId, s

\* A text with which another one begins is its beginning of that length.
LEMMA PrefixIs ==
  ASSUME NEW p \in Seq(Character), NEW t \in Seq(Character)
  PROVE  IsPrefix(p, t) <=> Len(p) <= Len(t) /\ p = SubSeq(t, 1, Len(p))
<1>1. Len(p) \in Nat /\ p = SubSeq(p, 1, Len(p))
  OBVIOUS
<1> QED BY <1>1 DEF IsPrefix

LEMMA DocumentFits ==
  ASSUME NEW page, NEW query \in Seq(Character)
  PROVE  RowsFit(Document(page, query))
<1>1. CASE page \notin DOMAIN searchData
  <2>1. Document(page, query) = <<>>
    BY <1>1 DEF Document, NoResults
  <2>2. <<>> \in Seq(Row) /\ DOMAIN <<>> = {}
    OBVIOUS
  <2> QED BY <2>1, <2>2 DEF RowsFit
<1>2. CASE page \in DOMAIN searchData
  <2> DEFINE search == convertToId(WithoutTrailing(WithoutLeading(query)))
             rows == searchData[page]
             d == [i \in DOMAIN rows |->
                    [children  |-> rows[i].children,
                     displayed |-> IsPrefix(search, rows[i].id),
                     open      |-> FALSE]]
  <2>1. Document(page, query) = d
    BY <1>2 DEF Document
  <2>2. search \in Seq(Character)
    BY LeadingGoes, ReverseIsSeq, IdIsSeq DEF WithoutTrailing
  <2>3. rows \in Seq([id : Seq(Character), children : Nat])
    BY <1>2, DataIsCharacters
  <2>4. ASSUME NEW i \in DOMAIN rows, NEW j \in DOMAIN rows, NEW k \in DOMAIN rows,
               NEW n \in 1..Len(rows[i].id), i < j, j < k,
               IsPrefix(SubSeq(rows[i].id, 1, n), rows[k].id)
        PROVE  IsPrefix(SubSeq(rows[i].id, 1, n), rows[j].id)
    BY <1>2, <2>4, DataAssumption
  <2> HIDE DEF search, rows
  <2>5. /\ DOMAIN rows = 1..Len(rows) /\ Len(rows) \in Nat
        /\ \A i \in 1..Len(rows) : rows[i].children \in Nat /\ rows[i].id \in Seq(Character)
    <3> DEFINE R == [id : Seq(Character), children : Nat]
    <3>0. rows \in Seq(R)
      BY <2>3
    <3> HIDE DEF R
    <3>1. /\ DOMAIN rows = 1..Len(rows) /\ Len(rows) \in Nat
          /\ \A i \in 1..Len(rows) : rows[i] \in R
      BY <3>0
    <3> USE DEF R
    <3>2. \A r \in [id : Seq(Character), children : Nat] : r.children \in Nat /\ r.id \in Seq(Character)
      OBVIOUS
    <3> QED BY <3>1, <3>2
  <2>6. \A t : IsPrefix(search, t) \in BOOLEAN
    BY DEF IsPrefix
  <2>7. /\ d = [i \in 1..Len(rows) |-> d[i]]
        /\ \A i \in 1..Len(rows) : d[i] \in Row
        /\ \A i \in 1..Len(rows) : ~d[i].open /\ d[i].displayed = IsPrefix(search, rows[i].id)
        /\ DOMAIN d = 1..Len(rows)
    BY <2>5, <2>6 DEF Row
  <2> HIDE DEF d
  <2>8. d \in Seq(Row)
    BY <2>5, <2>7
  <2>9. ASSUME NEW i \in DOMAIN d, NEW j \in DOMAIN d, NEW k \in DOMAIN d,
               i < j, j < k, d[i].displayed, d[k].displayed
        PROVE  d[j].displayed
    <3>1. IsPrefix(search, rows[i].id) /\ IsPrefix(search, rows[k].id)
      BY <2>7, <2>9
    <3>2. /\ rows[i].id \in Seq(Character) /\ rows[j].id \in Seq(Character)
          /\ i \in DOMAIN rows /\ j \in DOMAIN rows /\ k \in DOMAIN rows
          /\ d[j].displayed = IsPrefix(search, rows[j].id)
      BY <2>5, <2>7
    <3>3. Len(search) <= Len(rows[i].id) /\ search = SubSeq(rows[i].id, 1, Len(search))
      BY <2>2, <3>1, <3>2, PrefixIs
    <3>4. CASE Len(search) = 0
      <4>1. 0 <= Len(rows[j].id) /\ search = SubSeq(rows[j].id, 1, 0)
        BY <2>2, <3>2, <3>4
      <4> QED BY <2>2, <3>2, <3>4, <4>1, PrefixIs
    <3>5. CASE Len(search) # 0
      <4>1. Len(search) \in 1..Len(rows[i].id)
        BY <2>2, <3>2, <3>3, <3>5
      <4> QED BY <2>4, <2>9, <3>1, <3>2, <3>3, <4>1
    <3> QED BY <3>4, <3>5
  <2>10. RowsFit(d)
    BY <2>7, <2>8, <2>9 DEF RowsFit
  <2> QED BY <2>1, <2>10
<1> QED BY <1>1, <1>2

LEMMA BuiltSeq ==
  ASSUME NEW S, NEW n \in Nat, NEW e, e = [j \in 1..n |-> e[j]],
         \A j \in 1..n : e[j] \in S
  PROVE  e \in Seq(S)
OBVIOUS

\* Opening and closing rows.
LEMMA SetOpenFits ==
  ASSUME NEW d, RowsFit(d), NEW i, NEW open, i \in DOMAIN d => open \in BOOLEAN
  PROVE  RowsFit(SetOpen(d, i, open))
<1>1. CASE i \notin DOMAIN d \/ d[i].children = 0
  <2>1. [d EXCEPT ![i].open = open] = d \/ d[i].children = 0
    BY <1>1 DEF RowsFit
  <2>2. SetOpen(d, i, open) = d
    BY <2>1 DEF SetOpen
  <2> QED BY <2>2
<1>2. CASE i \in DOMAIN d /\ d[i].children # 0
  <2> DEFINE e == [d EXCEPT ![i].open = open]
  <2>1. SetOpen(d, i, open) = e
    BY <1>2 DEF SetOpen
  <2>2. /\ Len(d) \in Nat /\ DOMAIN d = 1..Len(d) /\ i \in 1..Len(d)
        /\ \A j \in 1..Len(d) : d[j] \in Row
        /\ d[i].children \in Nat /\ d[i].children > 0
    BY <1>2, RowsTyped
  <2>3. [d[i] EXCEPT !.open = open] \in Row
    BY <2>2 DEF Row
  <2>4. /\ DOMAIN e = 1..Len(d)
        /\ \A j \in 1..Len(d) : e[j] = IF j = i THEN [d[i] EXCEPT !.open = open] ELSE d[j]
        /\ e = [j \in 1..Len(d) |-> e[j]]
    BY <2>2
  <2>5. /\ [d[i] EXCEPT !.open = open].children = d[i].children
        /\ [d[i] EXCEPT !.open = open].displayed = d[i].displayed
    BY <2>2 DEF Row
  <2> HIDE DEF e
  <2>6. ASSUME NEW j \in 1..Len(d)
        PROVE  /\ e[j] \in Row
               /\ e[j].children = d[j].children
               /\ e[j].displayed = d[j].displayed
               /\ j # i => e[j].open = d[j].open
    <3>1. CASE j = i
      BY <2>2, <2>3, <2>4, <2>5, <3>1
    <3>2. CASE j # i
      BY <2>2, <2>4, <3>2
    <3> QED BY <3>1, <3>2
  <2>7. e \in Seq(Row)
    <3>1. \A j \in 1..Len(d) : e[j] \in Row
      BY <2>6
    <3> QED BY <2>2, <2>4, <3>1, BuiltSeq
  <2>8. ASSUME NEW j \in DOMAIN e, e[j].open
        PROVE  e[j].children > 0
    <3>1. j \in 1..Len(d) /\ e[j].children = d[j].children /\ (j # i => e[j].open = d[j].open)
      BY <2>4, <2>6
    <3>2. CASE j = i
      BY <2>2, <3>1, <3>2
    <3>3. CASE j # i
      BY <2>2, <2>8, <3>1, <3>3 DEF RowsFit
    <3> QED BY <3>2, <3>3
  <2>9. ASSUME NEW j \in DOMAIN e, NEW k \in DOMAIN e, NEW m \in DOMAIN e,
               j < k, k < m, e[j].displayed, e[m].displayed
        PROVE  e[k].displayed
    <3>1. /\ j \in DOMAIN d /\ k \in DOMAIN d /\ m \in DOMAIN d
          /\ e[j].displayed = d[j].displayed
          /\ e[k].displayed = d[k].displayed
          /\ e[m].displayed = d[m].displayed
      BY <2>2, <2>4, <2>6
    <3> QED BY <2>9, <3>1 DEF RowsFit
  <2>10. RowsFit(e)
    BY <2>7, <2>8, <2>9 DEF RowsFit
  <2> QED BY <2>1, <2>10
<1> QED BY <1>1, <1>2

LEMMA ToggleFits ==
  ASSUME NEW d, RowsFit(d), NEW i
  PROVE  RowsFit(Toggle(d, i))
<1>1. i \in DOMAIN d => (~d[i].open) \in BOOLEAN
  OBVIOUS
<1> QED BY <1>1, SetOpenFits DEF Toggle

LEMMA OpenedFits ==
  ASSUME NEW d, RowsFit(d), NEW at, NEW key
  PROVE  RowsFit(Opened(d, at, key))
<1>1. (key = "right") \in BOOLEAN
  OBVIOUS
<1>2. RowsFit(SetOpen(d, at[2], key = "right"))
  BY <1>1, SetOpenFits
<1> QED BY <1>2 DEF Opened

-----------------------------------------------------------------------------
(* The box.  What it hands to the frame is always a text: a handler leaves *)
(* the text in the field, clears it, or resets it to the label.            *)

BoxFits(b) ==
  /\ {"value", "focus", "location"} \subseteq DOMAIN b
  /\ b.value \in Seq(Character)
  /\ b.location.query \in Seq(Character)

LEMMA TextsAreCharacters ==
  /\ <<>> \in Seq(Character)
  /\ Label \in Seq(Character)
  /\ Text \subseteq Seq(Character)
<1>1. <<>> \in Seq(Character)
  OBVIOUS
<1> QED BY <1>1, LabelAssumption, TextAssumption, StringsAreCharacters

LEMMA ActivateFits ==
  ASSUME NEW b, BoxFits(b), NEW isActive
  PROVE  BoxFits(Activate(b, isActive)) /\ Activate(b, isActive).focus = b.focus
BY TextsAreCharacters DEF BoxFits, Activate

LEMMA FocusOnFits ==
  ASSUME NEW b, BoxFits(b), NEW there
  PROVE  BoxFits(FocusOn(b, there)) /\ FocusOn(b, there).focus \in {b.focus, there}
<1> DEFINE moved == [b EXCEPT !.focus = there]
<1>1. BoxFits(moved) /\ moved.focus = there
  BY DEF BoxFits
<1> HIDE DEF moved
<1>2. /\ BoxFits(Activate(moved, FALSE)) /\ Activate(moved, FALSE).focus = there
      /\ BoxFits(Activate(moved, TRUE)) /\ Activate(moved, TRUE).focus = there
  BY <1>1, ActivateFits
<1>3. FocusOn(b, there) \in {b, Activate(moved, FALSE), Activate(moved, TRUE), moved}
  BY DEF FocusOn, moved
<1> QED BY <1>1, <1>2, <1>3

LEMMA FocusOnField ==
  ASSUME NEW b, BoxFits(b)
  PROVE  FocusOn(b, Field).focus = Field
<1> DEFINE moved == [b EXCEPT !.focus = Field]
<1>1. BoxFits(moved) /\ moved.focus = Field
  BY DEF BoxFits
<1>2. ~InResults(Field)
  BY DEF InResults, Field
<1> HIDE DEF moved
<1>3. Activate(moved, TRUE).focus = Field
  BY <1>1, ActivateFits
<1>4. FocusOn(b, Field) = IF Field = b.focus THEN b ELSE Activate(moved, TRUE)
  BY <1>2 DEF FocusOn, moved
<1> QED BY <1>3, <1>4

LEMMA HiddenFits ==
  ASSUME NEW b, BoxFits(b)
  PROVE  BoxFits(Hidden(b))
BY DEF BoxFits, Hidden

LEMMA CloseSelectionWindowFits ==
  ASSUME NEW b, BoxFits(b)
  PROVE  /\ BoxFits(CloseSelectionWindow(b))
         /\ CloseSelectionWindow(b).focus = IF b.focus = Select THEN None ELSE b.focus
BY DEF BoxFits, CloseSelectionWindow

LEMMA SearchFits ==
  ASSUME NEW b, BoxFits(b)
  PROVE  BoxFits(Search(b)) /\ Search(b).focus = b.focus
<1> DEFINE text   == WithoutLeading(b.value)
           n      == IF b.keyTimeout THEN b.stray + 1 ELSE b.stray
           forgot == [b EXCEPT !.keyTimeout = FALSE, !.stray = IF b.keyTimeout THEN @ + 1 ELSE @]
<1>1. text \in Seq(Character)
  BY LeadingGoes DEF BoxFits
<1>2. BoxFits(forgot) /\ forgot.focus = b.focus
  BY DEF BoxFits
<1> HIDE DEF text, forgot
<1>3. ASSUME NEW page
      PROVE  LET c == [forgot EXCEPT !.location = [page |-> page, query |-> text],
                                     !.shown = TRUE, !.lastSearchValue = text]
             IN  BoxFits(c) /\ c.focus = b.focus
  BY <1>1, <1>2 DEF BoxFits
<1> QED BY <1>2, <1>3 DEF Search, text, forgot

LEMMA OnSelectItemFits ==
  ASSUME NEW b, BoxFits(b), NEW id
  PROVE  BoxFits(OnSelectItem(b, id)) /\ OnSelectItem(b, id).focus = b.focus
<1> DEFINE chosen == [b EXCEPT !.searchIndex = id]
<1>1. BoxFits(chosen) /\ chosen.focus = b.focus
  BY DEF BoxFits
<1> HIDE DEF chosen
<1>2. BoxFits(Search(chosen)) /\ Search(chosen).focus = b.focus
  BY <1>1, SearchFits
<1> QED BY <1>1, <1>2 DEF OnSelectItem, chosen

LEMMA OnSearchSelectKeyFits ==
  ASSUME NEW b, BoxFits(b), NEW key
  PROVE  /\ BoxFits(OnSearchSelectKey(b, key))
         /\ OnSearchSelectKey(b, key).focus \in {b.focus, Field}
<1> DEFINE chosen == OnSelectItem(b, b.searchIndex)
           closed == CloseSelectionWindow(chosen)
<1>1. \A id : BoxFits(OnSelectItem(b, id)) /\ OnSelectItem(b, id).focus = b.focus
  BY OnSelectItemFits
<1>2. BoxFits(chosen) /\ chosen.focus = b.focus
  BY <1>1
<1> HIDE DEF chosen
<1>3. BoxFits(closed)
  BY <1>2, CloseSelectionWindowFits
<1> HIDE DEF closed
<1>4. BoxFits(FocusOn(closed, Field)) /\ FocusOn(closed, Field).focus = Field
  BY <1>3, FocusOnFits, FocusOnField
<1>5. OnSearchSelectKey(b, key) \in
        {OnSelectItem(b, b.searchIndex + 1), OnSelectItem(b, b.searchIndex - 1),
         chosen, FocusOn(closed, Field), b}
  BY DEF OnSearchSelectKey, closed, chosen
<1> QED BY <1>1, <1>2, <1>4, <1>5

LEMMA CompareFits ==
  ASSUME NEW b, BoxFits(b)
  PROVE  BoxFits(Compare(b))
<1> DEFINE hidden == Hidden(b)
<1>1. BoxFits(hidden)
  BY HiddenFits
<1> HIDE DEF hidden
<1>2. BoxFits([hidden EXCEPT !.lastSearchValue = <<>>]) /\ BoxFits([b EXCEPT !.keyTimeout = TRUE])
  BY <1>1 DEF BoxFits
<1> QED BY <1>2 DEF Compare, hidden

LEMMA EscapedFits ==
  ASSUME NEW b, BoxFits(b)
  PROVE  BoxFits(Escaped(b))
<1> DEFINE left == FocusOn(b, None)
           closed == [left EXCEPT !.shown = FALSE, !.lastSearchValue = <<>>]
<1>1. BoxFits(left)
  BY FocusOnFits
<1> HIDE DEF left
<1>2. BoxFits(closed)
  BY <1>1 DEF BoxFits
<1> HIDE DEF closed
<1>3. BoxFits(Activate(closed, FALSE))
  BY <1>2, ActivateFits
<1> QED BY <1>3 DEF Escaped, closed, left

LEMMA OnSearchFieldChangeFits ==
  ASSUME NEW b, BoxFits(b), NEW d, NEW key, NEW shift \in BOOLEAN
  PROVE  BoxFits(OnSearchFieldChange(b, d, key, shift))
<1> DEFINE untimed == [b EXCEPT !.keyTimeout = FALSE]
           menu    == OnSearchSelectShow(untimed)
           first   == FirstResult(untimed, d)
<1>1. BoxFits(untimed)
  BY DEF BoxFits
<1> HIDE DEF untimed
<1>2. BoxFits(menu)
  BY <1>1 DEF BoxFits, OnSearchSelectShow
<1>3. BoxFits(first)
  BY <1>1, FocusOnFits DEF FirstResult
<1> HIDE DEF menu, first
<1>4. /\ BoxFits(FocusOn(menu, Select))
      /\ BoxFits(Compare(first))
      /\ BoxFits(Escaped(untimed))
      /\ BoxFits(Compare(untimed))
  BY <1>1, <1>2, <1>3, FocusOnFits, CompareFits, EscapedFits
<1>5. OnSearchFieldChange(b, d, key, shift) \in
        {FocusOn(menu, Select), Compare(first), Escaped(untimed), Compare(untimed)}
  BY DEF OnSearchFieldChange, untimed, menu, first
<1> QED BY <1>4, <1>5

LEMMA CloseResultsWindowFits ==
  ASSUME NEW b, BoxFits(b)
  PROVE  BoxFits(CloseResultsWindow(b))
BY HiddenFits, ActivateFits DEF CloseResultsWindow

-----------------------------------------------------------------------------
(* The invariant: the box and the document fit, and a key that the page of *)
(* results takes for one that is kept down has repeated.                   *)

KeysFit ==
  InResults(box.focus) /\ held \notin {"none", "enter"} /\ keys.repeatOn => repeated

SearchInv == BoxFits(box) /\ RowsFit(doc) /\ KeysFit

LEMMA InitInv == Init => SearchInv
<1> SUFFICES ASSUME Init PROVE SearchInv
  OBVIOUS
<1>1. BoxFits(Box)
  BY TextsAreCharacters DEF BoxFits, Box, NoLocation
<1>2. BoxFits(box)
  BY <1>1, OnSelectItemFits DEF Init
<1>3. RowsFit(doc)
  <2>1. <<>> \in Seq(Row) /\ DOMAIN <<>> = {}
    OBVIOUS
  <2> QED BY <2>1 DEF Init, NoResults, RowsFit
<1>4. KeysFit
  BY DEF Init, KeysFit
<1> QED BY <1>2, <1>3, <1>4 DEF SearchInv

\* An event that a result gets: the box and the document still fit.
LEMMA NavKeyFits ==
  ASSUME SearchInv, NEW type, NEW key, NavKey(type, key)
  PROVE  BoxFits(box') /\ RowsFit(doc')
<1> DEFINE after == ProcessKeys(keys, type, key)
<1>1. CASE ~Handles(keys, type, after)
  <2>1. box' = box /\ doc' = doc
    BY <1>1 DEF NavKey
  <2> QED BY <2>1 DEF SearchInv
<1>2. CASE Handles(keys, type, after)
  <2>1. doc' = Opened(doc, box.focus, after.lastKey)
    BY <1>2 DEF NavKey
  <2>2. RowsFit(doc')
    BY <2>1, OpenedFits DEF SearchInv
  <2>3. box' \in {FocusOn(box, Up(doc, box.focus)), FocusOn(box, Down(doc, box.focus)),
                 FocusOn(CloseResultsWindow(box), Field), box}
    BY <1>2 DEF NavKey
  <2>4. BoxFits(box)
    BY DEF SearchInv
  <2>5. \A there : BoxFits(FocusOn(box, there))
    BY <2>4, FocusOnFits
  <2>6. BoxFits(FocusOn(CloseResultsWindow(box), Field))
    BY <2>4, CloseResultsWindowFits, FocusOnFits
  <2> QED BY <2>2, <2>3, <2>4, <2>5, <2>6
<1> QED BY <1>1, <1>2

LEMMA KeyDownKeeps ==
  ASSUME SearchInv, NEW key \in Key, KeyDown(key)
  PROVE  SearchInv'
<1>0. BoxFits(box) /\ RowsFit(doc) /\ repeated' = FALSE /\ held' = key
  BY DEF SearchInv, KeyDown
<1>f. ~InResults(Field) /\ ~InResults(Select)
  BY DEF InResults, Field, Select
<1>1. CASE box.focus = Field /\ key = "letter" /\ doc' = doc
           /\ \E text \in Text : box' = [box EXCEPT !.value = text]
  <2>1. PICK text \in Text : box' = [box EXCEPT !.value = text]
    BY <1>1
  <2>2. BoxFits([box EXCEPT !.value = text]) /\ [box EXCEPT !.value = text].focus = box.focus
    BY <1>0, TextsAreCharacters DEF BoxFits
  <2>3. BoxFits(box') /\ box'.focus = Field
    BY <1>1, <2>1, <2>2
  <2> QED BY <1>0, <1>1, <1>f, <2>3 DEF SearchInv, KeysFit
<1>2. CASE box.focus = Select /\ box' = OnSearchSelectKey(box, key) /\ doc' = doc
  <2>1. BoxFits(box') /\ box'.focus \in {Select, Field}
    BY <1>0, <1>2, OnSearchSelectKeyFits
  <2> QED BY <1>0, <1>2, <1>f, <2>1 DEF SearchInv, KeysFit
<1>3. CASE InResults(box.focus) /\ key # "enter" /\ NavKey("keydown", key)
  <2>1. keys' = [lastKey |-> key, repeatOn |-> FALSE]
    BY <1>3 DEF NavKey, ProcessKeys
  <2>2. ~keys'.repeatOn
    BY <2>1
  <2> QED BY <1>0, <1>3, <2>2, NavKeyFits DEF SearchInv, KeysFit
<1>4. CASE key = "enter" /\ doc' = Toggle(doc, box.focus[2]) /\ UNCHANGED <<box, keys>>
  <2>1. RowsFit(doc')
    BY <1>0, <1>4, ToggleFits
  <2> QED BY <1>0, <1>4, <2>1 DEF SearchInv, KeysFit
<1>5. CASE box.focus = Field /\ UNCHANGED <<box, doc, keys>>
  BY <1>0, <1>5, <1>f DEF SearchInv, KeysFit
<1> QED BY <1>1, <1>2, <1>3, <1>4, <1>5 DEF KeyDown

LEMMA KeyPressKeeps ==
  ASSUME SearchInv, KeyPress
  PROVE  SearchInv'
<1>1. BoxFits(box') /\ RowsFit(doc') /\ repeated' = TRUE
  BY NavKeyFits DEF KeyPress
<1> QED BY <1>1 DEF SearchInv, KeysFit

\* The results do not handle the event of a key that comes up.
LEMMA KeyUpMovesNothing ==
  ASSUME NEW key, NavKey("keyup", key)
  PROVE  UNCHANGED <<box, doc>>
<1> DEFINE after == ProcessKeys(keys, "keyup", key)
<1>1. after = NoKey
  BY DEF ProcessKeys
<1>2. ~Handles(keys, "keyup", after)
  BY <1>1 DEF Handles, NoKey
<1> QED BY <1>2 DEF NavKey

LEMMA KeyUpKeeps ==
  ASSUME SearchInv, NEW shift \in BOOLEAN, KeyUp(shift)
  PROVE  SearchInv'
<1>0. BoxFits(box) /\ RowsFit(doc) /\ held' = "none"
  BY DEF SearchInv, KeyUp
<1>1. CASE box.focus = Field
  <2>1. box' = OnSearchFieldChange(box, doc, held, shift) /\ doc' = doc
    BY <1>1 DEF KeyUp
  <2>2. BoxFits(box')
    BY <1>0, <2>1, OnSearchFieldChangeFits
  <2> QED BY <1>0, <2>1, <2>2 DEF SearchInv, KeysFit
<1>2. CASE box.focus # Field
  <2>1. box' = box /\ doc' = doc
    BY <1>2, KeyUpMovesNothing DEF KeyUp
  <2> QED BY <1>0, <2>1 DEF SearchInv, KeysFit
<1> QED BY <1>1, <1>2

\* The mouse is used while no key is held, and that is all KeysFit asks.
LEMMA MouseKeeps ==
  ASSUME SearchInv, Mouse, BoxFits(box'), RowsFit(doc')
  PROVE  SearchInv'
BY DEF SearchInv, KeysFit, Mouse

LEMMA MouseStepsKeep ==
  ASSUME SearchInv,
         \/ \E there \in {Field, None} : Click(there)
         \/ ClickClose
         \/ \E id \in DOMAIN indexSectionsWithContent : ClickSection(id)
         \/ \E i \in DOMAIN doc : ClickItem(i)
         \/ MouseOver \/ MouseOut
  PROVE  SearchInv'
<1>0. BoxFits(box) /\ RowsFit(doc)
  BY DEF SearchInv
<1>0a. \A there : BoxFits(FocusOn(box, there))
  BY <1>0, FocusOnFits
<1>1. ASSUME NEW there \in {Field, None}, Click(there) PROVE SearchInv'
  <2>1. BoxFits(box') /\ RowsFit(doc') /\ Mouse
    BY <1>0, <1>0a, <1>1 DEF Click
  <2> QED BY <2>1, MouseKeeps
<1>2. CASE ClickClose
  <2>1. BoxFits(CloseResultsWindow(FocusOn(box, None)))
    BY <1>0a, CloseResultsWindowFits
  <2>2. BoxFits(box') /\ RowsFit(doc') /\ Mouse
    BY <1>0, <1>2, <2>1 DEF ClickClose
  <2> QED BY <2>2, MouseKeeps
<1>3. ASSUME NEW id \in DOMAIN indexSectionsWithContent, ClickSection(id) PROVE SearchInv'
  <2>1. BoxFits(OnSelectItem(FocusOn(box, Select), id))
    BY <1>0a, OnSelectItemFits
  <2>2. BoxFits(box') /\ RowsFit(doc') /\ Mouse
    BY <1>0, <1>3, <2>1 DEF ClickSection
  <2> QED BY <2>2, MouseKeeps
<1>4. ASSUME NEW i \in DOMAIN doc, ClickItem(i) PROVE SearchInv'
  <2>1. BoxFits(box') /\ RowsFit(doc') /\ Mouse
    BY <1>0, <1>0a, <1>4, ToggleFits DEF ClickItem
  <2> QED BY <2>1, MouseKeeps
<1>5. CASE MouseOver
  <2>1. BoxFits(OnSearchSelectShow(box))
    BY <1>0 DEF BoxFits, OnSearchSelectShow
  <2>2. BoxFits(box') /\ RowsFit(doc') /\ Mouse
    BY <1>0, <1>5, <2>1 DEF MouseOver
  <2> QED BY <2>2, MouseKeeps
<1>6. CASE MouseOut
  <2>1. BoxFits(OnSearchSelectHide(box))
    BY <1>0 DEF BoxFits, OnSearchSelectHide
  <2>2. BoxFits(box') /\ RowsFit(doc') /\ Mouse
    BY <1>0, <1>6, <2>1 DEF MouseOut
  <2> QED BY <2>2, MouseKeeps
<1> QED BY <1>1, <1>2, <1>3, <1>4, <1>5, <1>6

\* A timer of the field searches, and leaves the focus where it is.
LEMMA KeyTimerIs ==
  ASSUME BoxFits(box), KeyTimer
  PROVE  BoxFits(box') /\ box'.focus = box.focus
<1>1. CASE box' = Search([box EXCEPT !.keyTimeout = FALSE])
  <2> DEFINE run == [box EXCEPT !.keyTimeout = FALSE]
  <2>1. BoxFits(run) /\ run.focus = box.focus
    BY DEF BoxFits
  <2> HIDE DEF run
  <2>2. BoxFits(Search(run)) /\ Search(run).focus = box.focus
    BY <2>1, SearchFits
  <2> QED BY <1>1, <2>2 DEF run
<1>2. CASE box' = Search([box EXCEPT !.stray = @ - 1])
  <2> DEFINE run == [box EXCEPT !.stray = @ - 1]
  <2>1. BoxFits(run) /\ run.focus = box.focus
    BY DEF BoxFits
  <2> HIDE DEF run
  <2>2. BoxFits(Search(run)) /\ Search(run).focus = box.focus
    BY <2>1, SearchFits
  <2> QED BY <1>2, <2>2 DEF run
<1> QED BY <1>1, <1>2 DEF KeyTimer

\* The timer of the menu takes the focus from the menu only.
LEMMA HideTimerIs ==
  ASSUME BoxFits(box), HideTimer
  PROVE  BoxFits(box') /\ box'.focus = IF box.focus = Select THEN None ELSE box.focus
<1> DEFINE run == [box EXCEPT !.hideTimeout = FALSE]
<1>1. BoxFits(run) /\ run.focus = box.focus
  BY DEF BoxFits
<1>2. box' = CloseSelectionWindow(run)
  BY DEF HideTimer
<1> HIDE DEF run
<1> QED BY <1>1, <1>2, CloseSelectionWindowFits

LEMMA TimersKeep ==
  ASSUME SearchInv, KeyTimer \/ HideTimer \/ Load
  PROVE  SearchInv'
<1>0. BoxFits(box) /\ RowsFit(doc) /\ ~InResults(None)
  BY DEF SearchInv, InResults, None
<1>1. CASE KeyTimer
  <2>1. BoxFits(box') /\ box'.focus = box.focus /\ UNCHANGED <<doc, keys, held, repeated>>
    BY <1>0, <1>1, KeyTimerIs DEF KeyTimer
  <2> QED BY <1>0, <2>1 DEF SearchInv, KeysFit
<1>2. CASE HideTimer
  <2>1. BoxFits(box') /\ box'.focus \in {None, box.focus} /\ UNCHANGED <<doc, keys, held, repeated>>
    BY <1>0, <1>2, HideTimerIs DEF HideTimer
  <2> QED BY <1>0, <2>1 DEF SearchInv, KeysFit
<1>3. CASE Load
  <2>1. BoxFits(box')
    BY <1>0, <1>3, TextsAreCharacters DEF BoxFits, Load, NoLocation
  <2>2. RowsFit(doc')
    BY <1>0, <1>3, DocumentFits DEF BoxFits, Load
  <2>3. ~keys'.repeatOn
    BY <1>3 DEF Load, NoKey
  <2> QED BY <2>1, <2>2, <2>3 DEF SearchInv, KeysFit
<1> QED BY <1>1, <1>2, <1>3

LEMMA NextInv == SearchInv /\ [Next]_vars => SearchInv'
<1> SUFFICES ASSUME SearchInv, [Next]_vars PROVE SearchInv'
  OBVIOUS
<1>1. CASE UNCHANGED vars
  BY <1>1 DEF vars, SearchInv, KeysFit
<1>2. CASE Step
  BY <1>2, KeyDownKeeps, KeyPressKeeps, KeyUpKeeps, MouseStepsKeep, TimersKeep DEF Step
<1> QED BY <1>1, <1>2 DEF Next

LEMMA SearchInvHolds == Spec => []SearchInv
<1> QED BY InitInv, NextInv, PTL DEF Spec

\* For any rows, sections and texts: the keys for down and up go through the
\* results in the order in which they are read, whatever the query has found and
\* whichever rows are open (NavNext, NavPrev and Nav of search.js).
THEOREM InOrderHolds == Spec => []InOrder
<1>1. SearchInv => InOrder
  BY FitInOrder DEF SearchInv
<1> QED BY <1>1, SearchInvHolds, PTL

\* A step of OneMove, from the invariant.
LEMMA StepMovesOnce ==
  ASSUME SearchInv, Step,
         InResults(box.focus), held # "none", box'.focus # box.focus, ~Loads
  PROVE  held' # "none" /\ (repeated' => repeated)
<1>0. BoxFits(box) /\ KeysFit
  BY DEF SearchInv
<1>1. ASSUME NEW key \in Key, KeyDown(key) PROVE held' # "none" /\ (repeated' => repeated)
  <2>1. held' = key /\ repeated' = FALSE /\ key # "none"
    BY <1>1 DEF KeyDown, Key
  <2> QED BY <2>1
<1>2. CASE KeyPress
  <2> DEFINE after == ProcessKeys(keys, "keypress", held)
  <2>1. held' = held /\ held \notin {"none", "enter"} /\ NavKey("keypress", held)
    BY <1>2 DEF KeyPress
  <2>2. Handles(keys, "keypress", after)
    BY <2>1 DEF NavKey
  <2>3. keys.repeatOn
    BY <2>2 DEF Handles
  <2> QED BY <1>0, <2>1, <2>3 DEF KeysFit
<1>3. ASSUME NEW shift \in BOOLEAN, KeyUp(shift) PROVE FALSE
  <2>1. box.focus # Field
    BY DEF InResults, Field
  <2> QED BY <1>3, <2>1, KeyUpMovesNothing DEF KeyUp
<1>4. ~Mouse
  BY DEF Mouse
<1>5. CASE KeyTimer
  BY <1>0, <1>5, KeyTimerIs
<1>6. CASE HideTimer
  <2>1. box.focus # Select
    BY DEF InResults, Select
  <2> QED BY <1>0, <1>6, <2>1, HideTimerIs
<1>7. CASE Load
  <2>1. Loads
    BY <1>0, <1>7 DEF Load, Loads, BoxFits
  <2> QED BY <2>1
<1> QED BY <1>1, <1>2, <1>3, <1>4, <1>5, <1>6, <1>7
        DEF Step, Click, ClickClose, ClickSection, ClickItem, MouseOver, MouseOut

\* Within the results, a key that is pressed once moves the focus once, though its
\* three events may go to two results (ProcessKeys and its repeatOn in search.js).
THEOREM OneMoveHolds == Spec => OneMove
<1> DEFINE A == InResults(box.focus) /\ held # "none" /\ box'.focus # box.focus /\ ~Loads
                  => held' # "none" /\ (repeated' => repeated)
<1>1. SearchInv /\ [Next]_vars => [A]_vars
  BY StepMovesOnce DEF Next
<1> QED BY <1>1, SearchInvHolds, PTL DEF Spec, OneMove
=============================================================================
