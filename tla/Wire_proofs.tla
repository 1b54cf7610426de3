---------------------------- MODULE Wire_proofs -----------------------------
(***************************************************************************)
(* Proofs that the reader of a stream never loses its place: whatever the  *)
(* messages, and whatever the pieces in which the stream delivers them, it *)
(* hands over the messages that were written, in order.                    *)
(***************************************************************************)
EXTENDS Wire, Serialization_proofs

-----------------------------------------------------------------------------
(* Bytes.                                                                  *)

\* Bytes that are equal and begin with parts of the same length are equal part by part.
LEMMA SameParts ==
  ASSUME NEW a \in Seq(Nat), NEW b \in Seq(Nat), NEW c \in Seq(Nat), NEW d \in Seq(Nat),
         a \o b = c \o d, Len(a) = Len(c)
  PROVE  a = c /\ b = d
<1>1. Len(a) \in Nat /\ Len(b) \in Nat /\ Len(c) \in Nat /\ Len(d) \in Nat
  OBVIOUS
<1>2. /\ Len(a \o b) = Len(a) + Len(b)
      /\ \A i \in 1..(Len(a) + Len(b)) : (a \o b)[i] = IF i <= Len(a) THEN a[i] ELSE b[i - Len(a)]
  BY ConcatProperties
<1>3. /\ Len(c \o d) = Len(c) + Len(d)
      /\ \A i \in 1..(Len(c) + Len(d)) : (c \o d)[i] = IF i <= Len(c) THEN c[i] ELSE d[i - Len(c)]
  BY ConcatProperties
<1>4. Len(b) = Len(d)
  BY <1>1, <1>2, <1>3
<1>5. ASSUME NEW i \in 1..Len(a)
      PROVE  a[i] = c[i]
  <2>1. i \in 1..(Len(a) + Len(b)) /\ i <= Len(a)
    BY <1>1
  <2> QED BY <1>2, <1>3, <1>4, <2>1
<1>6. a = c
  BY <1>5, SeqEqual
<1>7. SubSeq(a \o b, Len(a) + 1, Len(a \o b)) = b
  BY Rest
<1>8. SubSeq(c \o d, Len(c) + 1, Len(c \o d)) = d
  BY Rest
<1>9. b = d
  BY <1>7, <1>8, Zenon
<1> QED BY <1>6, <1>9

-----------------------------------------------------------------------------
(* What is to come.                                                        *)

\* What InStep compares with: the bytes of messages in a row.
Parts(s) == [i \in DOMAIN s |-> MessageData(s[i])]
Bytewise(s) == FlattenSeq(Parts(s))

\* A message of the protocol, as the reader needs it.
LEMMA MessageFits ==
  ASSUME NEW m \in Message, NEW k
  PROVE  /\ IsHeader(m.header)
         /\ m = [header |-> m.header, body |-> m.body]
         /\ m.header.bufferSize = BodySize(m.body)
         /\ ~(m.header.bufferSize > IntMax)
         /\ HeaderData(m.header) \in Seq(Nat) /\ Len(HeaderData(m.header)) = HeaderLength
         /\ BodyData(m.body) \in Seq(Nat) /\ Len(BodyData(m.body)) = BodySize(m.body)
         /\ BodySize(m.body) \in Nat
         /\ ParseBody(BodyData(m.body), BodySize(m.body)) = m.body
         /\ ParseHeader(k, HeaderData(m.header), HeaderLength) = m.header
         /\ ~HeaderThrows(HeaderData(m.header), HeaderLength)
<1> DEFINE h == m.header
           c == m.body
           n == BodySize(c)
<1>1. /\ m = MakeMessage(h.code, c) /\ h.code \in 10000..UShortMax
      /\ c \in Seq(Seq(Letter)) /\ n <= IntMax
  BY MessageAssumption, SMT DEF Letter
<1>2. c \in Seq(Seq(Nat))
  BY <1>1, LetterIsByte, SeqMonotonic
<1>3. BodyData(c) \in Seq(Nat) /\ n \in Nat /\ Len(BodyData(c)) = n /\ ParseBody(BodyData(c), n) = c
  BY <1>1, <1>2, BodyLength, BodyComesBack
<1> DEFINE code == h.code
<1>4. PICK magic, revision : magic = 42 /\ revision = 1
  OBVIOUS
<1>5. m = [header |-> [magic |-> magic, revision |-> revision, code |-> code, bufferSize |-> n],
           body |-> c]
  BY <1>1, <1>4 DEF MakeMessage
<1>6. h = [magic |-> magic, revision |-> revision, code |-> code, bufferSize |-> n]
  BY <1>5
<1>7. IsHeader(h)
  <2>1. IntMax \in Nat /\ UnsignedMax = 2 * IntMax + 1
    BY WidthAssumption
  <2>2. n \in 0..UnsignedMax
    BY <1>1, <1>3, <2>1
  <2>3. magic \in 0..127 /\ revision \in 0..ShortMax
    BY <1>4, SMT DEF ShortMax
  <2>4. code \in 0..UShortMax /\ IsFiveDigits(code)
    BY <1>1, CodeFits
  <2> HIDE DEF h, code, n
  <2> QED BY <1>6, <2>2, <2>3, <2>4, FieldsAreHeader, Zenon
<1>8. m = [header |-> h, body |-> c] /\ h.bufferSize = n
  BY <1>5, <1>6
<1>9. HeaderData(h) \in Seq(Nat) /\ Len(HeaderData(h)) = HeaderLength
  BY <1>7, HeaderLengthIs
<1>10. ~(h.bufferSize > IntMax)
  <2>1. IntMax \in Nat
    BY WidthAssumption
  <2> HIDE DEF h, n
  <2> QED BY <1>1, <1>3, <1>8, <2>1
<1> HIDE DEF h, c, n, code
<1>11. ~HeaderThrows(HeaderData(h), HeaderLength) /\ ParseHeader(k, HeaderData(h), HeaderLength) = h
  <2>1. HeaderLength \in Nat /\ HeaderLength > 0 /\ HeaderLength > 2 /\ HeaderLength > 8 /\ HeaderLength > 14
    BY DEF HeaderLength
  <2>2. ParseHeader(k, HeaderData(h), HeaderLength) =
          [magic |-> h.magic, revision |-> h.revision, code |-> h.code, bufferSize |-> h.bufferSize]
    BY <1>7, <2>1, HeaderAlone
  <2>3. h = [magic |-> h.magic, revision |-> h.revision,
             code |-> h.code, bufferSize |-> h.bufferSize]
    BY <1>7 DEF IsHeader, Header
  <2>4. HeaderThrows(HeaderData(h), HeaderLength) <=> h.bufferSize > IntMax
    BY <1>7, <2>1, HeaderAlone
  <2> QED BY <1>10, <2>2, <2>3, <2>4
<1> QED BY <1>3, <1>7, <1>8, <1>9, <1>10, <1>11 DEF h, c, n

LEMMA MessageBytes ==
  ASSUME NEW m \in Message
  PROVE  MessageData(m) \in Seq(Nat)
BY MessageFits, BytesConcat DEF MessageData

LEMMA PartsAreBytes ==
  ASSUME NEW s \in Seq(Message)
  PROVE  Parts(s) \in Seq(Seq(Nat)) /\ Bytewise(s) \in Seq(Nat)
<1>1. /\ DOMAIN s = 1..Len(s) /\ Len(s) \in Nat /\ \A i \in 1..Len(s) : s[i] \in Message
  OBVIOUS
<1>2. Parts(s) \in [1..Len(s) -> Seq(Nat)]
  BY <1>1, MessageBytes DEF Parts
<1>3. Parts(s) \in Seq(Seq(Nat))
  BY <1>1, <1>2, SeqDef
<1> QED BY <1>3, FlattenIsSeq DEF Bytewise

LEMMA BytewiseEmpty == Bytewise(<<>>) = <<>>
<1>1. Parts(<<>>) = <<>>
  BY DEF Parts
<1> QED BY <1>1, FlattenEmpty DEF Bytewise

LEMMA BytewiseAppend ==
  ASSUME NEW s \in Seq(Message), NEW m \in Message
  PROVE  Bytewise(Append(s, m)) = Bytewise(s) \o MessageData(m)
<1>1. Parts(Append(s, m)) = Append(Parts(s), MessageData(m))
  <2> DEFINE d == Append(s, m)
             p == Parts(s)
             q == Append(p, MessageData(m))
  <2>1. /\ d \in Seq(Message) /\ Len(d) = Len(s) + 1 /\ Len(s) \in Nat
        /\ d[Len(s) + 1] = m /\ \A i \in 1..Len(s) : d[i] = s[i]
    OBVIOUS
  <2>2. p \in Seq(Seq(Nat)) /\ Len(p) = Len(s) /\ \A i \in 1..Len(s) : p[i] = MessageData(s[i])
    <3>1. p \in Seq(Seq(Nat))
      BY PartsAreBytes
    <3>2. p = [i \in 1..Len(s) |-> MessageData(s[i])]
      BY DEF Parts
    <3>3. DOMAIN p = 1..Len(s)
      BY <3>2
    <3> HIDE DEF p
    <3> QED BY <3>1, <3>2, <3>3
  <2> HIDE DEF d, p
  <2>3. /\ q \in Seq(Seq(Nat)) /\ Len(q) = Len(s) + 1
        /\ q[Len(s) + 1] = MessageData(m) /\ \A i \in 1..Len(s) : q[i] = p[i]
    BY <2>2, MessageBytes, AppendProperties
  <2>4. Parts(d) \in Seq(Seq(Nat)) /\ Len(Parts(d)) = Len(s) + 1
        /\ \A i \in 1..(Len(s) + 1) : Parts(d)[i] = MessageData(d[i])
    <3>1. Parts(d) \in Seq(Seq(Nat))
      BY <2>1, PartsAreBytes
    <3>2. Parts(d) = [i \in 1..(Len(s) + 1) |-> MessageData(d[i])]
      BY <2>1 DEF Parts
    <3>3. DOMAIN Parts(d) = 1..(Len(s) + 1)
      BY <3>2
    <3> QED BY <2>1, <3>1, <3>2, <3>3
  <2> HIDE DEF q
  <2>5. \A i \in 1..(Len(s) + 1) : Parts(d)[i] = q[i]
    <3> SUFFICES ASSUME NEW i \in 1..(Len(s) + 1)
                 PROVE  Parts(d)[i] = q[i]
      OBVIOUS
    <3>1. CASE i = Len(s) + 1
      BY <2>1, <2>3, <2>4, <3>1
    <3>2. CASE i \in 1..Len(s)
      BY <2>1, <2>2, <2>3, <2>4, <3>2
    <3> QED BY <2>1, <3>1, <3>2
  <2>6. Parts(d) = q
    BY <2>3, <2>4, <2>5, SeqEqual
  <2> QED BY <2>6 DEF d, q, p
<1>2. Parts(s) \in Seq(Seq(Nat)) /\ MessageData(m) \in Seq(Nat)
  BY PartsAreBytes, MessageBytes
<1> QED BY <1>1, <1>2, FlattenAppend DEF Bytewise

LEMMA MessagesAssociative ==
  ASSUME NEW a \in Seq(Message), NEW b \in Seq(Message), NEW c \in Seq(Message)
  PROVE  (a \o b) \o c = a \o (b \o c)
  BY ConcatAssociative

LEMMA BytewiseFirst ==
  ASSUME NEW m \in Message, NEW s \in Seq(Message)
  PROVE  Bytewise(<<m>> \o s) = MessageData(m) \o Bytewise(s)
<1> DEFINE T == {c \in Seq(Message) : Bytewise(<<m>> \o c) = MessageData(m) \o Bytewise(c)}
           b == MessageData(m)
           x == <<m>>
<1>0. b \in Seq(Nat) /\ x \in Seq(Message)
  BY MessageBytes
<1>1. <<>> \in T
  <2>1. x \o <<>> = Append(<<>>, m) /\ <<>> \in Seq(Message)
    OBVIOUS
  <2>2. Bytewise(x \o <<>>) = <<>> \o b
    BY <2>1, BytewiseAppend, BytewiseEmpty
  <2>3. <<>> \o b = b /\ b \o <<>> = b
    BY <1>0, ConcatEmptySeq
  <2> QED BY <2>1, <2>2, <2>3, BytewiseEmpty
<1> HIDE DEF T, b, x
<1>2. ASSUME NEW c \in T, NEW d \in Message
      PROVE  Append(c, d) \in T
  <2> DEFINE f == Bytewise(c)
             e == MessageData(d)
             y == <<d>>
  <2>1. c \in Seq(Message) /\ Bytewise(x \o c) = b \o f
    BY DEF T, b, x
  <2>2. e \in Seq(Nat) /\ f \in Seq(Nat) /\ y \in Seq(Message)
    BY <2>1, MessageBytes, PartsAreBytes
  <2>3. x \o c \in Seq(Message) /\ Append(c, d) \in Seq(Message)
    BY <1>0, <2>1, AppendProperties, ConcatProperties
  <2>4. Append(c, d) = c \o y /\ Append(x \o c, d) = (x \o c) \o y
    BY <2>1, <2>3, AppendIsConcat
  <2> HIDE DEF y
  <2>5. (x \o c) \o y = x \o (c \o y)
    BY <1>0, <2>1, <2>2, MessagesAssociative
  <2>6. Bytewise(x \o Append(c, d)) = (b \o f) \o e
    BY <2>1, <2>3, <2>4, <2>5, BytewiseAppend
  <2>7. Bytewise(Append(c, d)) = f \o e
    BY <2>1, BytewiseAppend
  <2> HIDE DEF f, e
  <2>8. (b \o f) \o e = b \o (f \o e)
    BY <1>0, <2>2, BytesAssociative
  <2> QED BY <2>3, <2>6, <2>7, <2>8 DEF T, b, x
<1>3. T = Seq(Message)
  <2>1. T \subseteq Seq(Message)
    BY DEF T
  <2> QED BY <1>1, <1>2, <2>1, SeqSetAppend
<1> QED BY <1>3 DEF T, b, x

-----------------------------------------------------------------------------
(* The inductive invariant.                                                *)

TypeOK ==
  /\ got \in Seq(Message)
  /\ stream \in Seq(Nat)
  /\ buffer \in Seq(Nat)
  /\ reading \in {"header", "body"}

\* The messages still to come: what was written is what was handed over and these,
\* what is unread are their bytes, and a body that is being read is of the first.
StillToCome(todo) ==
  /\ todo \in Seq(Message)
  /\ sent = got \o todo
  /\ Unread = Bytewise(todo)
  /\ reading = "body" => \E m \in Message, t \in Seq(Message) :
                           todo = <<m>> \o t /\ header = m.header

WireInv == TypeOK /\ \E todo : StillToCome(todo)

LEMMA Kept ==
  ASSUME TypeOK, NEW todo, StillToCome(todo)
  PROVE  WireInv
BY DEF WireInv

LEMMA KeptNext ==
  ASSUME TypeOK', NEW todo, StillToCome(todo)'
  PROVE  WireInv'
BY DEF WireInv

LEMMA FirstOf ==
  ASSUME NEW s \in Seq(Message), s # <<>>
  PROVE  \E m \in Message, t \in Seq(Message) : s = <<m>> \o t
<1>1. /\ Head(s) \in Message /\ Tail(s) \in Seq(Message)
      /\ s = <<Head(s)>> \o Tail(s)
  OBVIOUS
<1> QED BY <1>1

LEMMA FirstKept ==
  ASSUME NEW k \in Message, NEW t \in Seq(Message), NEW m \in Message
  PROVE  Append(<<k>> \o t, m) = <<k>> \o Append(t, m) /\ Append(t, m) \in Seq(Message)
<1> DEFINE x == <<k>>
           y == <<m>>
<1>1. x \in Seq(Message) /\ y \in Seq(Message) /\ Append(t, m) = t \o y
  BY AppendIsConcat
<1>2. x \o t \in Seq(Message)
  BY <1>1, ConcatProperties
<1>3. Append(x \o t, m) = (x \o t) \o y
  BY <1>2, AppendIsConcat
<1> HIDE DEF x, y
<1>4. (x \o t) \o y = x \o (t \o y)
  BY <1>1, MessagesAssociative
<1>5. Append(t, m) \in Seq(Message)
  OBVIOUS
<1> QED BY <1>1, <1>3, <1>4, <1>5 DEF x

\* What the stream delivers of the bytes it has, and what it keeps.
LEMMA PiecesOf ==
  ASSUME NEW s \in Seq(Nat), NEW n \in Nat, n <= Len(s)
  PROVE  LET piece == SubSeq(s, 1, n)
             others == SubSeq(s, n + 1, Len(s))
         IN  piece \in Seq(Nat) /\ others \in Seq(Nat) /\ piece \o others = s
<1> DEFINE piece == SubSeq(s, 1, n)
           others == SubSeq(s, n + 1, Len(s))
<1>1. Len(s) \in Nat /\ \A i \in 1..Len(s) : s[i] \in Nat
  OBVIOUS
<1>2. piece \in Seq(Nat) /\ others \in Seq(Nat)
  <2>1. /\ \A i \in 1..n : s[i] \in Nat
        /\ \A i \in (n + 1)..Len(s) : s[i] \in Nat
        /\ 1 \in Int /\ n \in Int /\ n + 1 \in Int /\ Len(s) \in Int
    BY <1>1
  <2> QED BY <2>1, SubSeqProperties
<1>3. SubSeq(s, 1, Len(s)) = s
  BY SubSeqFull
<1>4. piece \o others = SubSeq(s, 1, Len(s))
  <2>1. 1 \in 1..(Len(s) + 1) /\ n \in (1 - 1)..Len(s) /\ Len(s) \in n..Len(s)
    BY <1>1
  <2> QED BY <2>1, ConcatAdjacentSubSeq
<1> QED BY <1>2, <1>3, <1>4

LEMMA InitKeeps == Init => WireInv
<1> SUFFICES ASSUME Init
             PROVE  WireInv
  OBVIOUS
<1>1. TypeOK
  BY DEF Init, TypeOK
<1>2. <<>> \in Seq(Message) /\ <<>> \in Seq(Nat) /\ <<>> \o <<>> = <<>>
  OBVIOUS
<1>3. Unread = <<>>
  BY <1>2 DEF Init, Unread
<1>4. StillToCome(<<>>)
  BY <1>2, <1>3, BytewiseEmpty DEF Init, StillToCome
<1> QED BY <1>1, <1>4, Kept

\* Writing puts another message after those to come, and its bytes after theirs.
LEMMA WriteKeeps ==
  ASSUME WireInv, NEW m \in Message, Write(m)
  PROVE  WireInv'
<1> DEFINE start == IF reading = "body" THEN HeaderData(header) ELSE <<>>
           bytes == MessageData(m)
<1>1. PICK todo : StillToCome(todo)
  BY DEF WireInv
<1>2. /\ todo \in Seq(Message) /\ sent = got \o todo /\ got \in Seq(Message)
      /\ stream \in Seq(Nat) /\ buffer \in Seq(Nat)
      /\ Unread = Bytewise(todo)
  BY <1>1 DEF WireInv, TypeOK, StillToCome
<1>3. /\ sent' = Append(sent, m) /\ stream' = stream \o bytes
      /\ buffer' = buffer /\ reading' = reading /\ header' = header /\ got' = got
  BY DEF Write
<1>4. bytes \in Seq(Nat)
  BY MessageBytes
<1>5. TypeOK'
  <2>1. stream' \in Seq(Nat)
    BY <1>2, <1>3, <1>4, BytesConcat
  <2> QED BY <1>3, <2>1 DEF WireInv, TypeOK
<1>6. start \in Seq(Nat)
  <2>1. CASE reading = "body"
    <3>1. PICK k \in Message : header = k.header
      BY <1>1, <2>1 DEF StillToCome
    <3> QED BY <2>1, <3>1, MessageFits
  <2>2. CASE reading # "body"
    <3>1. <<>> \in Seq(Nat)
      OBVIOUS
    <3> QED BY <2>2, <3>1
  <2> QED BY <2>1, <2>2
<1>7. Unread = (start \o buffer) \o stream /\ Unread' = (start \o buffer) \o (stream \o bytes)
  BY <1>3 DEF Unread
<1>8. Bytewise(Append(todo, m)) = Bytewise(todo) \o bytes
  BY <1>2, BytewiseAppend
<1>9. sent' = got' \o Append(todo, m)
  BY <1>2, <1>3
<1>10. reading' = "body" => \E k \in Message, t \in Seq(Message) :
                              Append(todo, m) = <<k>> \o t /\ header' = k.header
  <2> SUFFICES ASSUME reading' = "body"
               PROVE  \E k \in Message, t \in Seq(Message) :
                        Append(todo, m) = <<k>> \o t /\ header' = k.header
    OBVIOUS
  <2>1. PICK k \in Message, t \in Seq(Message) : todo = <<k>> \o t /\ header = k.header
    BY <1>1, <1>3 DEF StillToCome
  <2>2. Append(<<k>> \o t, m) = <<k>> \o Append(t, m) /\ Append(t, m) \in Seq(Message)
    BY FirstKept
  <2> QED BY <1>3, <2>1, <2>2
<1> HIDE DEF start, bytes
<1>11. Unread' = Bytewise(Append(todo, m))
  <2>1. start \o buffer \in Seq(Nat)
    BY <1>2, <1>6, BytesConcat
  <2>2. (start \o buffer) \o (stream \o bytes) = ((start \o buffer) \o stream) \o bytes
    BY <1>2, <1>4, <2>1, BytesAssociative
  <2> QED BY <1>2, <1>7, <1>8, <2>2
<1>12. Append(todo, m) \in Seq(Message)
  BY <1>2
<1>13. StillToCome(Append(todo, m))'
  BY <1>9, <1>10, <1>11, <1>12 DEF StillToCome
<1> QED BY <1>5, <1>13, KeptNext

\* Receiving moves bytes from the stream to the buffer, in order.
LEMMA ReceiveKeeps ==
  ASSUME WireInv, NEW n \in 1..HeaderLength, Receive(n)
  PROVE  WireInv'
<1> DEFINE start == IF reading = "body" THEN HeaderData(header) ELSE <<>>
           piece == SubSeq(stream, 1, n)
           others == SubSeq(stream, n + 1, Len(stream))
<1>1. PICK todo : StillToCome(todo)
  BY DEF WireInv
<1>2. stream \in Seq(Nat) /\ buffer \in Seq(Nat) /\ Len(stream) \in Nat /\ n \in Nat /\ n <= Len(stream)
  BY DEF WireInv, TypeOK, Receive, HeaderLength
<1>3. /\ buffer' = buffer \o piece /\ stream' = others
      /\ sent' = sent /\ reading' = reading /\ header' = header /\ got' = got
  BY DEF Receive
<1>4. piece \in Seq(Nat) /\ others \in Seq(Nat) /\ piece \o others = stream
  BY <1>2, PiecesOf
<1>5. start \in Seq(Nat)
  <2>1. CASE reading = "body"
    <3>1. PICK k \in Message : header = k.header
      BY <1>1, <2>1 DEF StillToCome
    <3> QED BY <2>1, <3>1, MessageFits
  <2>2. CASE reading # "body"
    <3>1. <<>> \in Seq(Nat)
      OBVIOUS
    <3> QED BY <2>2, <3>1
  <2> QED BY <2>1, <2>2
<1>6. Unread = (start \o buffer) \o stream /\ Unread' = (start \o (buffer \o piece)) \o others
  BY <1>3 DEF Unread
<1> HIDE DEF start, piece, others
<1>7. TypeOK'
  <2>1. buffer \o piece \in Seq(Nat)
    BY <1>2, <1>4, BytesConcat
  <2> QED BY <1>3, <1>4, <2>1 DEF WireInv, TypeOK
<1>8. Unread' = Unread
  <2>1. start \o (buffer \o piece) = (start \o buffer) \o piece
    BY ZenonT(30), <1>2, <1>4, <1>5, BytesAssociative
  <2>2. start \o buffer \in Seq(Nat)
    BY <1>2, <1>5, BytesConcat
  <2>3. ((start \o buffer) \o piece) \o others = (start \o buffer) \o (piece \o others)
    BY <1>4, <2>2, BytesAssociative
  <2> QED BY <1>4, <1>6, <2>1, <2>3
<1>9. StillToCome(todo)'
  BY <1>1, <1>3, <1>8 DEF StillToCome
<1> QED BY <1>7, <1>9, KeptNext

\* A whole header is that of the first message to come.
LEMMA WholeHeader ==
  ASSUME WireInv, reading = "header", Len(buffer) = Wanted
  PROVE  \E m \in Message, t \in Seq(Message) :
           /\ StillToCome(<<m>> \o t)
           /\ buffer = HeaderData(m.header)
           /\ stream = BodyData(m.body) \o Bytewise(t)
<1>1. PICK todo : StillToCome(todo)
  BY DEF WireInv
<1>2. /\ todo \in Seq(Message) /\ stream \in Seq(Nat) /\ buffer \in Seq(Nat)
      /\ Len(buffer) = HeaderLength
  BY <1>1 DEF WireInv, TypeOK, StillToCome, Wanted
<1>3. Unread = buffer \o stream
  <2>1. <<>> \o buffer = buffer
    BY <1>2, ConcatEmptySeq
  <2> QED BY <2>1 DEF Unread
<1>4. buffer \o stream = Bytewise(todo)
  BY <1>1, <1>3 DEF StillToCome
<1>5. todo # <<>>
  <2>1. Len(buffer \o stream) = HeaderLength + Len(stream) /\ Len(stream) \in Nat
    BY <1>2
  <2>2. Len(<<>>) = 0 /\ ~(HeaderLength + Len(stream) = 0)
    BY <2>1 DEF HeaderLength
  <2> QED BY <1>4, <2>1, <2>2, BytewiseEmpty
<1>6. PICK m \in Message, t \in Seq(Message) : todo = <<m>> \o t
  BY <1>2, <1>5, FirstOf
<1> DEFINE h == HeaderData(m.header)
           c == BodyData(m.body)
           r == Bytewise(t)
<1>7. h \in Seq(Nat) /\ Len(h) = HeaderLength /\ c \in Seq(Nat) /\ r \in Seq(Nat)
  BY MessageFits, PartsAreBytes
<1>8. Bytewise(todo) = (h \o c) \o r
  BY <1>6, BytewiseFirst DEF MessageData
<1> HIDE DEF h, c, r
<1>9. (h \o c) \o r = h \o (c \o r) /\ c \o r \in Seq(Nat)
  <2>1. (h \o c) \o r = h \o (c \o r)
    BY <1>7, BytesAssociative
  <2>2. c \o r \in Seq(Nat)
    BY <1>7, BytesConcat
  <2> QED BY <2>1, <2>2, Zenon
<1>10. buffer = h /\ stream = c \o r
  BY <1>2, <1>4, <1>7, <1>8, <1>9, SameParts
<1> QED BY <1>1, <1>6, <1>10 DEF h, c, r

\* It parses, and what is unread stays, the header being kept.
LEMMA ReadHeaderKeeps ==
  ASSUME WireInv, ReadHeader
  PROVE  WireInv'
<1>1. /\ reading = "header" /\ Len(buffer) = Wanted
      /\ header' = ParseHeader(kind, buffer, HeaderLength)
      /\ reading' = "body" /\ buffer' = <<>>
      /\ sent' = sent /\ stream' = stream /\ got' = got
  BY DEF ReadHeader
<1>2. PICK m \in Message, t \in Seq(Message) :
        /\ StillToCome(<<m>> \o t)
        /\ buffer = HeaderData(m.header)
        /\ stream = BodyData(m.body) \o Bytewise(t)
  BY <1>1, WholeHeader
<1>3. header' = m.header
  BY <1>1, <1>2, MessageFits
<1>4. TypeOK'
  BY <1>1 DEF WireInv, TypeOK
<1>5. Unread' = Unread
  <2>1. HeaderData(m.header) \o <<>> = HeaderData(m.header) /\ <<>> \o buffer = buffer
    <3> DEFINE b == HeaderData(m.header)
    <3>1. b \in Seq(Nat)
      BY MessageFits
    <3> HIDE DEF b
    <3>2. b \o <<>> = b /\ <<>> \o b = b
      BY <3>1, ConcatEmptySeq
    <3> QED BY <1>2, <3>2 DEF b
  <2>2. Unread = buffer \o stream
    BY <1>1, <2>1 DEF Unread
  <2>3. Unread' = (HeaderData(m.header) \o <<>>) \o stream
    BY <1>1, <1>3 DEF Unread
  <2> QED BY <1>2, <2>1, <2>2, <2>3
<1>6. StillToCome(<<m>> \o t)'
  BY <1>1, <1>2, <1>3, <1>5 DEF StillToCome
<1> QED BY <1>4, <1>6, KeptNext

\* A whole body is that of the first message to come, which is handed over as it was.
LEMMA WholeBody ==
  ASSUME WireInv, reading = "body", Len(buffer) = Wanted
  PROVE  \E m \in Message, t \in Seq(Message) :
           /\ StillToCome(<<m>> \o t)
           /\ m = [header |-> header, body |-> ParseBody(buffer, header.bufferSize)]
           /\ stream = Bytewise(t)
<1>1. PICK m \in Message, t \in Seq(Message) : StillToCome(<<m>> \o t) /\ header = m.header
  <2>1. PICK todo : StillToCome(todo)
    BY DEF WireInv
  <2>2. PICK m \in Message, t \in Seq(Message) : todo = <<m>> \o t /\ header = m.header
    BY <2>1 DEF StillToCome
  <2> QED BY <2>1, <2>2
<1> DEFINE h == HeaderData(m.header)
           c == BodyData(m.body)
           r == Bytewise(t)
<1>2. /\ h \in Seq(Nat) /\ c \in Seq(Nat) /\ r \in Seq(Nat)
      /\ Len(c) = BodySize(m.body) /\ m.header.bufferSize = BodySize(m.body)
      /\ m = [header |-> m.header, body |-> m.body]
      /\ ParseBody(c, BodySize(m.body)) = m.body
  BY MessageFits, PartsAreBytes
<1>3. buffer \in Seq(Nat) /\ stream \in Seq(Nat) /\ Len(buffer) = Len(c)
  BY <1>1, <1>2 DEF WireInv, TypeOK, Wanted
<1>4. Unread = (h \o buffer) \o stream
  BY <1>1 DEF Unread
<1>5. Unread = (h \o c) \o r
  BY <1>1, BytewiseFirst DEF StillToCome, MessageData
<1> HIDE DEF h, c, r
<1>6. h \o (buffer \o stream) = h \o (c \o r) /\ buffer \o stream \in Seq(Nat) /\ c \o r \in Seq(Nat)
  <2>1. (h \o buffer) \o stream = h \o (buffer \o stream)
    BY ZenonT(30), <1>2, <1>3, BytesAssociative
  <2>2. (h \o c) \o r = h \o (c \o r)
    BY <1>2, BytesAssociative
  <2>3. buffer \o stream \in Seq(Nat)
    BY <1>3, BytesConcat
  <2>4. c \o r \in Seq(Nat)
    BY <1>2, BytesConcat
  <2> QED BY <1>4, <1>5, <2>1, <2>2, <2>3, <2>4, Zenon
<1>7. buffer \o stream = c \o r
  BY <1>2, <1>6, SameParts
<1>8. buffer = c /\ stream = r
  BY <1>2, <1>3, <1>7, SameParts
<1>9. m = [header |-> header, body |-> ParseBody(buffer, header.bufferSize)]
  BY <1>1, <1>2, <1>8
<1> QED BY <1>1, <1>8, <1>9 DEF r

LEMMA ReadBodyKeeps ==
  ASSUME WireInv, ReadBody
  PROVE  WireInv' /\ \E m \in Message, t \in Seq(Message) :
                       got' = Append(got, m) /\ sent = got \o (<<m>> \o t)
<1>1. /\ reading = "body" /\ Len(buffer) = Wanted
      /\ got' = Append(got, [header |-> header, body |-> ParseBody(buffer, header.bufferSize)])
      /\ reading' = "header" /\ buffer' = <<>>
      /\ sent' = sent /\ stream' = stream /\ header' = header
  BY DEF ReadBody
<1>2. PICK m \in Message, t \in Seq(Message) :
        /\ StillToCome(<<m>> \o t)
        /\ m = [header |-> header, body |-> ParseBody(buffer, header.bufferSize)]
        /\ stream = Bytewise(t)
  BY <1>1, WholeBody
<1>3. got' = Append(got, m) /\ got \in Seq(Message)
  BY <1>1, <1>2 DEF WireInv, TypeOK
<1>4. TypeOK'
  <2>1. got' \in Seq(Message)
    BY <1>3
  <2> QED BY <1>1, <2>1 DEF WireInv, TypeOK
<1>5. sent = got \o (<<m>> \o t)
  BY <1>2 DEF StillToCome
<1>6. sent' = got' \o t
  <2> DEFINE x == <<m>>
  <2>1. x \in Seq(Message) /\ Append(got, m) = got \o x
    BY <1>3, AppendIsConcat
  <2> HIDE DEF x
  <2>2. (got \o x) \o t = got \o (x \o t)
    BY <1>3, <2>1, MessagesAssociative
  <2> QED BY <1>1, <1>3, <1>5, <2>1, <2>2 DEF x
<1>7. Unread' = Bytewise(t)
  <2>1. Unread' = (<<>> \o <<>>) \o stream
    BY <1>1 DEF Unread
  <2>2. stream \in Seq(Nat)
    BY DEF WireInv, TypeOK
  <2>3. <<>> \o <<>> = <<>> /\ <<>> \o stream = stream
    BY <2>2, ConcatEmptySeq
  <2> QED BY <1>2, <2>1, <2>3
<1>8. StillToCome(t)'
  BY <1>1, <1>6, <1>7 DEF StillToCome
<1> QED BY <1>3, <1>4, <1>5, <1>8, KeptNext

LEMMA StutterKeeps == WireInv /\ UNCHANGED vars => WireInv'
<1> SUFFICES ASSUME WireInv, UNCHANGED vars
             PROVE  WireInv'
  OBVIOUS
<1>1. PICK todo : StillToCome(todo)
  BY DEF WireInv
<1>2. TypeOK' /\ StillToCome(todo)'
  BY <1>1 DEF WireInv, TypeOK, StillToCome, Unread, vars
<1> QED BY <1>2, KeptNext

LEMMA StepKeeps == WireInv /\ [Next]_vars => WireInv'
<1> SUFFICES ASSUME WireInv, [Next]_vars
             PROVE  WireInv'
  OBVIOUS
<1>1. CASE ReceiveSome
  BY <1>1, ReceiveKeeps DEF ReceiveSome
<1>2. CASE ReadHeader
  BY <1>2, ReadHeaderKeeps
<1>3. CASE ReadBody
  BY <1>3, ReadBodyKeeps
<1>4. ASSUME NEW m \in Message, Write(m)
      PROVE  WireInv'
  BY <1>4, WriteKeeps
<1>5. CASE UNCHANGED vars
  BY <1>5, StutterKeeps
<1> QED BY <1>1, <1>2, <1>3, <1>4, <1>5 DEF Next

THEOREM WireInvHolds == Spec => []WireInv
BY InitKeeps, StepKeeps, PTL DEF Spec

-----------------------------------------------------------------------------
(* What follows.                                                           *)

\* Between the handlers of read and read_body the reader is always where a message
\* begins, or where the body of the header it has parsed begins: the bytes it has
\* not handed over are those of the messages still to come, whatever the pieces.
THEOREM InStepHolds == Spec => []InStep
<1>1. WireInv => InStep
  <2> SUFFICES ASSUME WireInv
               PROVE  InStep
    OBVIOUS
  <2>1. PICK todo : StillToCome(todo)
    BY DEF WireInv
  <2>2. /\ todo \in Seq(Message) /\ got \in Seq(Message) /\ sent = got \o todo
        /\ Unread = Bytewise(todo)
    BY <2>1 DEF WireInv, TypeOK, StillToCome
  <2>3. ToCome = todo
    BY <2>2, Rest DEF ToCome
  <2> QED BY <2>2, <2>3 DEF InStep, Bytewise, Parts
<1> QED BY <1>1, WireInvHolds, PTL

\* No message of the protocol makes the constructors of headers throw in the read
\* handlers, so no client that uses the library ends the server by what it sends.
THEOREM HeadersParseHolds == Spec => []HeadersParse
<1>1. WireInv => HeadersParse
  <2> SUFFICES ASSUME WireInv, reading = "header", Len(buffer) = Wanted
               PROVE  ~HeaderThrows(buffer, HeaderLength)
    BY DEF HeadersParse
  <2> QED BY WholeHeader, MessageFits
<1> QED BY <1>1, WireInvHolds, PTL

\* Bytes, headers and bodies implement the channel of whole messages: each step is
\* one of the channel or none.
THEOREM WireImplementsChannel == Spec => C!Spec
<1>1. Init => C!Init
  BY DEF Init, C!Init
<1>2. WireInv /\ [Next]_vars => [C!Next]_C!vars
  <2> SUFFICES ASSUME WireInv, [Next]_vars
               PROVE  [C!Next]_C!vars
    OBVIOUS
  <2>1. ASSUME NEW n \in 1..HeaderLength, Receive(n)
        PROVE  UNCHANGED C!vars
    BY <2>1 DEF Receive, C!vars
  <2>2. CASE ReadHeader
    BY <2>2 DEF ReadHeader, C!vars
  <2>3. CASE ReadBody
    <3>1. PICK m \in Message, t \in Seq(Message) :
            got' = Append(got, m) /\ sent = got \o (<<m>> \o t)
      BY <2>3, ReadBodyKeeps
    <3>2. got \in Seq(Message) /\ sent' = sent
      BY <2>3 DEF WireInv, TypeOK, ReadBody
    <3> DEFINE r == <<m>> \o t
    <3>3. r \in Seq(Message) /\ Len(r) > 0 /\ r[1] = m
      OBVIOUS
    <3> HIDE DEF r
    <3>4. Len(got) \in Nat /\ Len(r) \in Nat
      BY <3>2, <3>3
    <3>5. /\ Len(got \o r) = Len(got) + Len(r)
          /\ \A i \in 1..(Len(got) + Len(r)) :
               (got \o r)[i] = IF i <= Len(got) THEN got[i] ELSE r[i - Len(got)]
      BY <3>2, <3>3, ConcatProperties
    <3>6. /\ Len(got) + 1 \in 1..(Len(got) + Len(r)) /\ ~(Len(got) + 1 <= Len(got))
          /\ (Len(got) + 1) - Len(got) = 1
      BY <3>3, <3>4
    <3>7. Len(got) < Len(sent) /\ sent[Len(got) + 1] = m
      BY <3>1, <3>3, <3>4, <3>5, <3>6 DEF r
    <3>8. C!Receive
      BY <3>1, <3>2, <3>7 DEF C!Receive
    <3> QED BY <3>8 DEF C!Next
  <2>4. ASSUME NEW m \in Message, Write(m)
        PROVE  C!Next
    BY <2>4 DEF Write, C!Send, C!Next
  <2>5. CASE UNCHANGED vars
    BY <2>5 DEF vars, C!vars
  <2> QED BY <2>1, <2>2, <2>3, <2>4, <2>5 DEF Next, ReceiveSome
<1> QED BY <1>1, <1>2, WireInvHolds, PTL DEF Spec, C!Spec
=============================================================================
