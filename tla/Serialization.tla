--------------------------- MODULE Serialization ---------------------------
(***************************************************************************)
(* How requests and responses become bytes and come back                   *)
(* (protocol/src/serialization, protocol/include/serialization).           *)
(*                                                                         *)
(* A byte is a number, a text (std::string) a sequence of bytes that are   *)
(* not Nul, a body a sequence of texts.  Requests and responses have the   *)
(* same layout, so a message is [header, body] and its kind says which it  *)
(* is.  short and unsigned short have their real ranges.  int and unsigned *)
(* are parameters: TLC has no number above 2^31 - 1, the instances take    *)
(* them one bit narrower, and their maxima still have ten digits.          *)
(***************************************************************************)
EXTENDS Naturals, Sequences, SequencesExt

CONSTANTS IntMax, UnsignedMax

ShortMax  == 32767
UShortMax == 65535

ASSUME WidthAssumption ==
  /\ IntMax \in Nat /\ IntMax > UShortMax
  /\ UnsignedMax = 2 * IntMax + 1
  /\ UnsignedMax \div 1000000000 \in 1..9

Nul  == 0
Zero == 48              \* '0'

\* The 25 bytes that both ends read as a header.
HeaderLength == 25

Header == [magic : 0..127, revision : 0..ShortMax, code : 0..UShortMax,
           bufferSize : 0..UnsignedMax]

\* What a header is before anything is read into it.
DefaultHeader(kind) ==
  [magic |-> 42, revision |-> 1,
   code |-> IF kind = "request" THEN 41217 ELSE 45056,  \* CLIENT_DISCONNECT, OK
   bufferSize |-> 0]

-----------------------------------------------------------------------------
(* Numbers.                                                                *)

\* std::to_string
Decimal[n \in Nat] ==
  IF n < 10 THEN <<Zero + n>> ELSE Append(Decimal[n \div 10], Zero + (n % 10))

\* Mutant: not padded.
Unpadded(n, max) == Decimal[n]

\* HeaderUtility::convert: as many digits as the largest number of the type.
Convert(n, max) ==
  [i \in 1..(Len(Decimal[max]) - Len(Decimal[n])) |-> Zero] \o Decimal[n]

\* What std::stoi makes of a text of digits, if it is an int.
Number(text) == FoldLeft(LAMBDA n, digit : 10 * n + (digit - Zero), 0, text)

-----------------------------------------------------------------------------
(* Formatting.                                                             *)

\* data() of both headers: the code is not padded.
HeaderData(h) ==
  <<h.magic, Nul>> \o Convert(h.revision, ShortMax)
            \o <<Nul>> \o Decimal[h.code]
            \o <<Nul>> \o Convert(h.bufferSize, UnsignedMax)
            \o <<Nul>>

\* size(): that of a response counts a padded code.
HeaderSize(kind, h) ==
  LET codeText == IF kind = "request" THEN Decimal[h.code] ELSE Convert(h.code, UShortMax) IN
  1 + Len(Convert(h.revision, ShortMax)) + Len(codeText)
    + Len(Convert(h.bufferSize, UnsignedMax)) + 4

\* Mutant: the terminators are not counted.
BodySizeOfTexts(content) == FoldLeft(LAMBDA n, text : n + Len(text), 0, content)

BodySize(content) == FoldLeft(LAMBDA n, text : n + Len(text) + 1, 0, content)

\* Mutant: texts are separated, not terminated.
BodyDataSeparated(content) ==
  FoldLeft(LAMBDA bytes, text : IF bytes = <<>> THEN text ELSE bytes \o <<Nul>> \o text,
           <<>>, content)

BodyData(content) == FoldLeft(LAMBDA bytes, text : bytes \o text \o <<Nul>>, <<>>, content)

MessageSize(kind, m) == HeaderSize(kind, m.header) + BodySize(m.body)
MessageData(m) == HeaderData(m.header) \o BodyData(m.body)

\* make_request and make_response.
MakeMessage(code, content) ==
  [header |-> [magic |-> 42, revision |-> 1, code |-> code, bufferSize |-> BodySize(content)],
   body |-> content]

-----------------------------------------------------------------------------
(* Parsing.  Positions start at 1, the code's at 0.                        *)

\* std::string{&buffer[at]}: up to the next Nul, which may be beyond the length
\* that the caller was given.
TextAt(buffer, at) ==
  SubSeq(buffer, at, SelectInSubSeq(buffer, at, Len(buffer), LAMBDA byte : byte = Nul) - 1)

\* Mutant: the terminator of a field is taken for the next one.
NextAtTerminator(buffer, at) == at + Len(TextAt(buffer, at))

\* Where the field after the one at "at" begins.
NextAt(buffer, at) == at + Len(TextAt(buffer, at)) + 1

RevisionAt == 3
CodeAt(buffer) == NextAt(buffer, RevisionAt)
SizeAt(buffer) == NextAt(buffer, CodeAt(buffer))

\* Mutant: the length is not looked at.
FieldBeyond(buffer, length, at, default) ==
  IF at > Len(buffer) THEN default ELSE Number(TextAt(buffer, at))

\* A field that begins beyond the length is left as it is, and so are those after it.
Field(buffer, length, at, default) ==
  IF at > length THEN default ELSE Number(TextAt(buffer, at))

\* HeaderRequest(buffer, length), HeaderResponse(buffer, length).
ParseHeader(kind, buffer, length) ==
  LET d == DefaultHeader(kind) IN
  [magic      |-> IF length = 0 THEN d.magic ELSE buffer[1],
   revision   |-> Field(buffer, length, RevisionAt, d.revision),
   code       |-> Field(buffer, length, CodeAt(buffer), d.code),
   bufferSize |-> Field(buffer, length, SizeAt(buffer), d.bufferSize)]

\* Mutant: the code is a short.
HeaderThrowsShort(buffer, length) ==
  \/ Field(buffer, length, RevisionAt, 0) > ShortMax
  \/ Field(buffer, length, CodeAt(buffer), 0) > ShortMax
  \/ Field(buffer, length, SizeAt(buffer), 0) > IntMax

\* When they throw: each number has the range of its type, but the size, which is
\* an unsigned, is read as an int.
HeaderThrows(buffer, length) ==
  \/ Field(buffer, length, RevisionAt, 0) > ShortMax
  \/ Field(buffer, length, CodeAt(buffer), 0) > UShortMax
  \/ Field(buffer, length, SizeAt(buffer), 0) > IntMax

\* Body(buffer, length): text after text until the length is reached.
ParseBody(buffer, length) ==
  LET texts[at \in Nat] ==
        IF at > length THEN <<>>
        ELSE LET text == TextAt(buffer, at)
             IN  <<text>> \o texts[at + Len(text) + 1]
  IN  texts[1]

\* Request(buffer, length), Response(buffer, length), if the header parses.
ParseMessage(kind, buffer, length) ==
  LET h == ParseHeader(kind, buffer, length)
      size == HeaderSize(kind, h)
  IN  [header |-> h, body |-> ParseBody(SubSeq(buffer, size + 1, Len(buffer)), length - size)]
=============================================================================
