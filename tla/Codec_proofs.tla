---------------------------- MODULE Codec_proofs ----------------------------
(***************************************************************************)
(* Proofs that what is formatted is parsed back, for all headers of the    *)
(* protocol and all bodies.                                                *)
(***************************************************************************)
EXTENDS Codec, Serialization_proofs

\* The message is one of the protocol.
MessageIs(h, c) == /\ message = [header |-> h, body |-> c]
                   /\ IsHeader(h)
                   /\ c \in Seq(Seq(Letter))

CodecInv == \E h, c : MessageIs(h, c)

LEMMA MessageKept ==
  ASSUME NEW h, NEW c, message = [header |-> h, body |-> c], IsHeader(h), c \in Seq(Seq(Letter))
  PROVE  CodecInv
BY Zenon DEF CodecInv, MessageIs

LEMMA HeadersAreHeaders == \A h \in Headers : IsHeader(h)
<1> SUFFICES ASSUME NEW h \in Headers
             PROVE  IsHeader(h)
  OBVIOUS
<1>1. /\ h.magic = 42 /\ h.revision \in Revisions
      /\ h.code \in Codes /\ h.bufferSize \in Sizes
      /\ h = [magic |-> h.magic, revision |-> h.revision,
              code |-> h.code, bufferSize |-> h.bufferSize]
  BY DEF Headers
<1>2. /\ h.revision \in 0..ShortMax /\ h.code \in 10000..UShortMax
      /\ h.bufferSize \in 0..UnsignedMax
  BY <1>1, CodecAssumption, SMT
<1>3. 42 \in 0..127
  OBVIOUS
<1>5. h.code \in 0..UShortMax /\ IsFiveDigits(h.code)
  BY <1>2, CodeFits, SMT
<1>6. h \in Header
  BY <1>1, <1>2, <1>3, <1>5, SMT DEF Header
<1> QED BY <1>5, <1>6, SMT DEF IsHeader

LEMMA BoundedAreSequences ==
  ASSUME NEW S, NEW n \in Nat
  PROVE  BoundedSeq(S, n) \subseteq Seq(S)
<1> SUFFICES ASSUME NEW s \in BoundedSeq(S, n)
             PROVE  s \in Seq(S)
  OBVIOUS
<1>1. PICK m \in 0..n : s \in [1..m -> S]
  BY DEF BoundedSeq, SeqOf
<1>2. m \in Nat
  BY <1>1
<1> QED BY <1>1, <1>2, SeqDef

LEMMA BodiesAreTexts == Bodies \subseteq Seq(Seq(Letter))
<1> DEFINE B == BoundedSeq(Letters, MaxText)
<1>1. Letters \subseteq Letter /\ MaxText \in Nat /\ MaxTexts \in Nat
  BY CodecAssumption, SMT DEF Letter
<1>2. B \subseteq Seq(Letters) /\ Seq(Letters) \subseteq Seq(Letter)
  BY <1>1, BoundedAreSequences, SeqMonotonic
<1> HIDE DEF B
<1>3. BoundedSeq(B, MaxTexts) \subseteq Seq(B)
  BY <1>1, BoundedAreSequences
<1>4. Seq(B) \subseteq Seq(Seq(Letter))
  BY <1>2, SeqMonotonic
<1> QED BY <1>3, <1>4 DEF Bodies, B

-----------------------------------------------------------------------------
(* Every message of the specification is one of the protocol.              *)

\* The message starts as one that says that there is no body, and each step puts
\* another header or another body in its place.
THEOREM CodecInvHolds == Spec => []CodecInv
<1>1. Init => CodecInv
  <2> SUFFICES ASSUME Init
               PROVE  CodecInv
    OBVIOUS
  <2>1. PICK magic, revision, code, size :
          magic = 42 /\ revision = 1 /\ code = 41217 /\ size = 0
    OBVIOUS
  <2> DEFINE h == [magic |-> magic, revision |-> revision, code |-> code, bufferSize |-> size]
  <2>2. message = [header |-> h, body |-> <<>>]
    BY <2>1, BodySizeEmpty DEF Init, MakeMessage
  <2>3. UnsignedMax \in Nat
    BY WidthAssumption
  <2>4. /\ magic \in 0..127 /\ revision \in 0..ShortMax
        /\ code \in 0..UShortMax /\ size \in 0..UnsignedMax
    BY <2>1, <2>3, SMT DEF ShortMax, UShortMax
  <2>5. IsFiveDigits(code)
    BY <2>1, SMT DEF IsFiveDigits
  <2>6. IsHeader(h)
    BY <2>4, <2>5, FieldsAreHeader, Zenon
  <2>7. <<>> \in Seq(Seq(Letter))
    OBVIOUS
  <2> HIDE DEF h
  <2> QED BY <2>2, <2>6, <2>7, MessageKept, Zenon
<1>2. CodecInv /\ [Next]_vars => CodecInv'
  <2> SUFFICES ASSUME CodecInv, [Next]_vars
               PROVE  CodecInv'
    OBVIOUS
  <2>1. PICK h, c : MessageIs(h, c)
    BY DEF CodecInv
  <2>2. message = [header |-> h, body |-> c] /\ IsHeader(h) /\ c \in Seq(Seq(Letter))
    BY <2>1, Zenon DEF MessageIs
  <2>3. CASE OtherHeader
    <3>1. PICK g \in Headers : message' = [message EXCEPT !.header = g]
      BY <2>3 DEF OtherHeader
    <3>2. message' = [header |-> g, body |-> c]
      BY <2>2, <3>1
    <3>3. IsHeader(g)
      BY HeadersAreHeaders
    <3> QED BY <2>2, <3>2, <3>3, Zenon DEF CodecInv, MessageIs
  <2>4. CASE OtherBody
    <3>1. PICK d \in Bodies : message' = [message EXCEPT !.body = d]
      BY <2>4 DEF OtherBody
    <3>2. message' = [header |-> h, body |-> d]
      BY <2>2, <3>1
    <3>3. d \in Seq(Seq(Letter))
      BY BodiesAreTexts
    <3> QED BY <2>2, <3>2, <3>3, Zenon DEF CodecInv, MessageIs
  <2>5. CASE UNCHANGED message
    BY <2>2, <2>5, Zenon DEF CodecInv, MessageIs
  <2> QED BY <2>3, <2>4, <2>5 DEF Next, OtherKind, vars
<1> QED BY <1>1, <1>2, PTL DEF Spec

-----------------------------------------------------------------------------
(* The properties of the conversions, for every such message.              *)

\* Every header has the 25 bytes that the other end waits for, and says so:
\* no number outgrows its width and none is narrower (data(), size()).
THEOREM HeadersFitHolds == Spec => []HeadersFit
<1>1. CodecInv => HeadersFit
  <2> SUFFICES ASSUME NEW h, NEW c, MessageIs(h, c)
               PROVE  HeadersFit
    BY DEF CodecInv
  <2>1. message.header = h /\ IsHeader(h)
    BY DEF MessageIs
  <2> QED BY <2>1, HeaderLengthIs DEF HeadersFit
<1> QED BY <1>1, CodecInvHolds, PTL

\* A header is parsed as it was, or it has a size that is no int and the
\* constructors throw: HeaderRequest and HeaderResponse undo data().
THEOREM HeadersComeBackHolds == Spec => []HeadersComeBack
<1>1. CodecInv => HeadersComeBack
  <2> SUFFICES ASSUME NEW h, NEW c, MessageIs(h, c)
               PROVE  HeadersComeBack
    BY DEF CodecInv
  <2>1. message.header = h /\ IsHeader(h)
    BY DEF MessageIs
  <2>2. IntMax \in Nat /\ UnsignedMax \in Nat
    BY WidthAssumption
  <2>3. h.bufferSize \in Nat
    <3>1. h.bufferSize \in 0..UnsignedMax
      BY <2>1 DEF IsHeader, Header
    <3>2. \A max \in Nat : \A n \in 0..max : n \in Nat
      OBVIOUS
    <3> QED BY <2>2, <3>1, <3>2, Zenon
  <2>4. h.bufferSize > IntMax <=> ~IsInt
    BY <2>1, <2>2, <2>3 DEF IsInt
  <2>5. 25 \in Nat /\ 25 > 0 /\ 25 > 2 /\ 25 > 8 /\ 25 > 14
    OBVIOUS
  <2>6. ParseHeader(kind, HeaderData(h), 25) =
          [magic |-> h.magic, revision |-> h.revision, code |-> h.code, bufferSize |-> h.bufferSize]
    BY <2>1, <2>5, HeaderAlone
  <2>7. h = [magic |-> h.magic, revision |-> h.revision,
             code |-> h.code, bufferSize |-> h.bufferSize]
    BY <2>1 DEF IsHeader, Header
  <2>8. HeaderThrows(HeaderData(h), HeaderLength) <=> h.bufferSize > IntMax
    BY <2>1, <2>5, HeaderAlone
  <2> QED BY <2>1, <2>4, <2>6, <2>7, <2>8 DEF HeadersComeBack, HeaderLength
<1> QED BY <1>1, CodecInvHolds, PTL

\* Wherever a header is cut, the fields that begin before the cut are read and
\* the others keep their default values.
THEOREM MissingIsDefaultHolds == Spec => []MissingIsDefault
<1>1. CodecInv => MissingIsDefault
  <2> SUFFICES ASSUME NEW h, NEW c, MessageIs(h, c)
               PROVE  MissingIsDefault
    BY DEF CodecInv
  <2>1. message.header = h /\ IsHeader(h)
    BY DEF MessageIs
  <2>2. \A length \in 0..HeaderLength : length \in Nat
    BY DEF HeaderLength
  <2> QED BY <2>1, <2>2, HeaderAlone DEF MissingIsDefault
<1> QED BY <1>1, CodecInvHolds, PTL

\* A body takes the bytes that BodySize counts and Body(buffer, length) gives its
\* texts back, whatever they are and however many.
THEOREM BodiesComeBackHolds == Spec => []BodiesComeBack
<1>1. CodecInv => BodiesComeBack
  <2> SUFFICES ASSUME NEW h, NEW c, MessageIs(h, c)
               PROVE  BodiesComeBack
    BY DEF CodecInv
  <2>1. message.body = c /\ c \in Seq(Seq(Letter))
    BY DEF MessageIs
  <2>2. c \in Seq(Seq(Nat))
    BY <2>1, LetterIsByte, SeqMonotonic
  <2> QED BY <2>1, <2>2, BodyLength, BodyComesBack DEF BodiesComeBack
<1> QED BY <1>1, CodecInvHolds, PTL

\* A whole message is parsed as it was: the constructors find the border between
\* its header and its body, even if the header does not hold the body's size.
THEOREM MessagesComeBackHolds == Spec => []MessagesComeBack
<1>1. CodecInv => MessagesComeBack
  <2> SUFFICES ASSUME NEW h, NEW c, MessageIs(h, c), IsInt
               PROVE  ParseMessage(kind, MessageData(message), MessageSize(kind, message)) = message
    BY DEF CodecInv, MessagesComeBack
  <2>1. message = [header |-> h, body |-> c] /\ IsHeader(h) /\ c \in Seq(Seq(Letter))
    BY Zenon DEF MessageIs
  <2>2. h.bufferSize <= IntMax
    BY <2>1 DEF IsInt
  <2> QED BY <2>1, <2>2, MessageComesBack
<1> QED BY <1>1, CodecInvHolds, PTL
=============================================================================
