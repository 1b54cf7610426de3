-------------------------------- MODULE Wire --------------------------------
(***************************************************************************)
(* One direction of a connection, byte by byte: messages are formatted into*)
(* a stream that has no borders, and the other end finds them again by     *)
(* reading a header of fixed length and then as many bytes as it says      *)
(* (read and read_body of protocol/src/server.cpp for requests, of         *)
(* protocol/src/client.cpp for responses).  The stream delivers what it has*)
(* in pieces of any size.                                                  *)
(***************************************************************************)
EXTENDS Serialization

CONSTANTS Message,              \* what is sent
          MaxSent               \* bound: messages sent

ASSUME MaxSentAssumption == MaxSent \in Nat

\* Every message is one that make_request or make_response made, of texts without
\* a Nul, and its code has five digits like all of data_utils.hpp.  Its size is an
\* int: a larger one throws when it is read.
ASSUME MessageAssumption == \A m \in Message :
  /\ m = MakeMessage(m.header.code, m.body)
  /\ m.header.code \in 10000..UShortMax
  /\ m.body \in Seq(Seq(Nat \ {Nul}))
  /\ BodySize(m.body) <= IntMax

VARIABLES kind,         \* "request" or "response": which direction it is
          sent,         \* the messages written, in order
          stream,       \* the bytes written and not yet received
          reading,      \* what the outstanding async_read is for
          buffer,       \* the bytes it has received
          header,       \* the header that the body being read belongs to
          got           \* the messages handed to on_read_success, in order

vars == <<kind, sent, stream, reading, buffer, header, got>>

Init ==
  /\ kind \in {"request", "response"}
  /\ sent = <<>>
  /\ stream = <<>>
  /\ reading = "header"
  /\ buffer = <<>>
  /\ header = DefaultHeader(kind)
  /\ got = <<>>

Write(m) ==
  /\ Len(sent) < MaxSent
  /\ sent' = Append(sent, m)
  /\ stream' = stream \o MessageData(m)
  /\ UNCHANGED <<kind, reading, buffer, header, got>>

\* Mutant: as many bytes of a body as are allocated.
WantedAllocated == IF reading = "header" THEN HeaderLength ELSE header.bufferSize + 1

\* The length of the outstanding async_read.
Wanted == IF reading = "header" THEN HeaderLength ELSE header.bufferSize

\* It takes what has arrived, and not more than it wants.
Receive(n) ==
  /\ n <= Len(stream)
  /\ Len(buffer) + n <= Wanted
  /\ buffer' = buffer \o SubSeq(stream, 1, n)
  /\ stream' = SubSeq(stream, n + 1, Len(stream))
  /\ UNCHANGED <<kind, sent, reading, header, got>>

\* The header is whole: parse it, keep it, and read the body.  (If it does not
\* parse, the exception ends the reader.)
ReadHeader ==
  /\ reading = "header"
  /\ Len(buffer) = Wanted
  /\ ~HeaderThrows(buffer, HeaderLength)
  /\ header' = ParseHeader(kind, buffer, HeaderLength)
  /\ reading' = "body"
  /\ buffer' = <<>>
  /\ UNCHANGED <<kind, sent, stream, got>>

\* The body is whole, perhaps empty: hand over the message, and read the next.
ReadBody ==
  /\ reading = "body"
  /\ Len(buffer) = Wanted
  /\ got' = Append(got, [header |-> header, body |-> ParseBody(buffer, header.bufferSize)])
  /\ reading' = "header"
  /\ buffer' = <<>>
  /\ UNCHANGED <<kind, sent, stream, header>>

ReceiveSome == \E n \in 1..HeaderLength : Receive(n)

Next == ReceiveSome \/ ReadHeader \/ ReadBody \/ \E m \in Message : Write(m)

Spec == Init /\ [][Next]_vars

\* TCP delivers what was sent and the loop runs the handlers.
FairSpec == Spec /\ WF_vars(ReceiveSome) /\ WF_vars(ReadHeader) /\ WF_vars(ReadBody)

-----------------------------------------------------------------------------
(* Properties.                                                             *)

\* The reader never loses its place: what it has not handed over, from the start
\* of the header it is at, is exactly the messages still to come.
Unread  == (IF reading = "body" THEN HeaderData(header) ELSE <<>>) \o buffer \o stream
ToCome  == SubSeq(sent, Len(got) + 1, Len(sent))

InStep  == Unread = FlattenSeq([i \in DOMAIN ToCome |-> MessageData(ToCome[i])])

\* The exception of a header that does not parse would end the reader, and with
\* the server's every other one: what the other end formats never throws it.
HeadersParse ==
  reading = "header" /\ Len(buffer) = Wanted => ~HeaderThrows(buffer, HeaderLength)

\* Messages are handed over as they were written, in order, and all of them.
C == INSTANCE Channel

ImplementsChannel == C!FairSpec
=============================================================================
