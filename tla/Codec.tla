------------------------------- MODULE Codec -------------------------------
(***************************************************************************)
(* Serialization, applied to every message of a bounded set: a state is a  *)
(* message, and what is formatted must be parsed back.                     *)
(***************************************************************************)
EXTENDS Serialization

CONSTANTS Revisions, Codes, Sizes,  \* the numbers that headers hold
          Letters,                  \* the bytes of texts
          MaxText, MaxTexts         \* bounds: the bytes of a text, the texts of a body

\* The codes are unsigned short, and all of them have five digits (data_utils.hpp).
ASSUME CodecAssumption ==
  /\ Revisions \subseteq 0..ShortMax
  /\ Codes \subseteq 10000..UShortMax
  /\ Sizes \subseteq 0..UnsignedMax
  /\ Letters \subseteq Nat \ {Nul}
  /\ MaxText \in Nat /\ MaxTexts \in Nat

VARIABLES kind, message

vars == <<kind, message>>

Headers == [magic : {42}, revision : Revisions, code : Codes, bufferSize : Sizes]
Bodies  == BoundedSeq(BoundedSeq(Letters, MaxText), MaxTexts)

Init == kind = "request" /\ message = MakeMessage(41217, <<>>)

\* Each state is another message.
OtherHeader == /\ \E h \in Headers : message' = [message EXCEPT !.header = h]
               /\ UNCHANGED kind
OtherBody   == /\ \E content \in Bodies : message' = [message EXCEPT !.body = content]
               /\ UNCHANGED kind
OtherKind   == kind' \in {"request", "response"} /\ UNCHANGED message

Next == OtherHeader \/ OtherBody \/ OtherKind

Spec == Init /\ [][Next]_vars

-----------------------------------------------------------------------------
(* Properties.                                                             *)

IsInt == message.header.bufferSize <= IntMax

\* Whatever its numbers, a header has the 25 bytes that the other end waits for,
\* and says so (size()).
HeadersFit ==
  /\ Len(HeaderData(message.header)) = HeaderLength
  /\ HeaderSize(kind, message.header) = HeaderLength

\* A header is parsed as it was, by the constructors that take a buffer, or, if
\* its size is an unsigned that is no int, not at all.
HeadersComeBack ==
  LET data == HeaderData(message.header) IN
  /\ HeaderThrows(data, HeaderLength) <=> ~IsInt
  /\ IsInt => ParseHeader(kind, data, HeaderLength) = message.header

\* "If a parameter is missing, then the parameter is set to default value"
\* (serialization/request.hpp, response.hpp): wherever a header is cut, the
\* fields that begin before the cut are read and the others are the default ones.
MissingIsDefault ==
  \A length \in 0..HeaderLength :
    LET h == message.header
        d == DefaultHeader(kind)
    IN  IsInt => ParseHeader(kind, HeaderData(h), length) =
          [magic      |-> IF length > 0  THEN h.magic      ELSE d.magic,
           revision   |-> IF length > 2  THEN h.revision   ELSE d.revision,
           code       |-> IF length > 8  THEN h.code       ELSE d.code,
           bufferSize |-> IF length > 14 THEN h.bufferSize ELSE d.bufferSize]

\* A body takes the size it says and is parsed as it was, empty texts included.
BodiesComeBack ==
  /\ Len(BodyData(message.body)) = BodySize(message.body)
  /\ ParseBody(BodyData(message.body), BodySize(message.body)) = message.body

\* A whole message in a buffer is parsed as it was, even if its header does not
\* hold the size of its body.
MessagesComeBack ==
  IsInt => ParseMessage(kind, MessageData(message), MessageSize(kind, message)) = message
=============================================================================
