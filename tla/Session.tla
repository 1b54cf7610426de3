------------------------------- MODULE Session -------------------------------
(***************************************************************************)
(* Clients and server together: the programs of Client talk to the whole   *)
(* server of Engine, each over a connection of its own, and take the place *)
(* of the peers of Connections.  Each program follows a script, and the    *)
(* requests of the script are what its request processer is given.         *)
(*                                                                         *)
(* A connection is a stream in each direction; what is in them survives the*)
(* end that wrote it, unless the connection is reset.  The server's kernel *)
(* connects clients that the server has not accepted, and perhaps never    *)
(* will; what they write waits for it.                                     *)
(***************************************************************************)
EXTENDS Engine

CONSTANTS Closing,      \* see Client
          Script        \* what each program asks, and the answers it asserts

\* A program asks something: what, it does not look at when it has connected.
ASSUME ScriptAssumption ==
  \A c \in Processer : /\ Len(Script[c]) \in Nat \ {0}
                        /\ \A k \in 1..Len(Script[c]) : Script[c][k].ask \in Request

VARIABLES loop, socket, asked, request, outgoing, awaiting, told, unconnected,
          posted,       \* the requests in the stream to the server, by number
          heard,        \* how many of the pieces received the client has read
          answer        \* the answers that the server has given, in order

K == INSTANCE Client WITH Conn <- Processer

clientVars == <<loop, socket, asked, request, outgoing, awaiting, told, unconnected,
                posted, heard>>
sessionVars == <<engineVars, clientVars, answer>>

SessionInit == /\ EngineInit
               /\ K!Init
               /\ posted = [c \in Processer |-> <<>>]
               /\ heard  = [c \in Processer |-> 0]
               /\ answer = [c \in Processer |-> <<>>]

-----------------------------------------------------------------------------
(* The network, as a client sees it.                                       *)

\* The server's end of the connection is closed, by its process if not by it.
ServerGone(c) == ~C!Running \/ peer[c] = "dropped"

\* The server will read no more of a request: what it left unread, or is written
\* to it later, is answered by a reset.
Unserved(c) == asked[c] > current[c]

Unheard(c)   == heard[c] < Len(received[c])
NextPiece(c) == received[c][heard[c] + 1]
Hear(c)      == heard' = [heard EXCEPT ![c] = @ + 1]

\* A part of request n goes into the stream, if there is an end to receive it.
Post(c, n, parts) ==
  IF ServerGone(c)
  THEN UNCHANGED <<stream, sent, posted>>
  ELSE /\ stream' = [stream EXCEPT ![c] = @ \o parts]
       /\ IF "header" \in Range(parts)
          THEN /\ posted' = [posted EXCEPT ![c] = Append(@, n)]
               /\ sent' = [sent EXCEPT ![c] = @ + 1]
          ELSE UNCHANGED <<posted, sent>>

-----------------------------------------------------------------------------
(* Steps of a client.                                                      *)

\* Nothing of the server changes, but for what is in its stream.
ServerStays == /\ NotProcessing
               /\ UNCHANGED <<server, accepting, pool, protoId, reading, writing,
                              current, orphans, peer, received, answer>>

Dial(c) ==
  /\ \/ K!Resolve(c)
     \/ K!ResolveThrows(c)
     \/ C!Running /\ K!Connect(c)
     \/ K!ConnectFails(c)
  /\ ServerStays /\ UNCHANGED <<stream, sent, posted, heard>>

\* The program asks the next request of its script, as long as the answers are
\* those it asserts; a closing program asserts nothing.
AsksMore(c, n) ==
  /\ asked[c] < Len(Script[c])
  /\ c \in Closing \/ answer[c][n] \in Script[c][Len(told[c]) + 1].asserted

ClientReads(c) ==
  /\ \/ /\ Unheard(c) /\ NextPiece(c)[2] = "begin"
        /\ K!ReadHeader(c) /\ Hear(c)
     \/ /\ Unheard(c) /\ NextPiece(c)[2] = "end"
        /\ K!ReadBody(c, NextPiece(c)[1], AsksMore(c, NextPiece(c)[1])) /\ Hear(c)
     \/ /\ ServerGone(c) /\ (~Unheard(c) \/ Unserved(c))
        /\ K!ReadFails(c, Unserved(c)) /\ UNCHANGED heard
  /\ ServerStays /\ UNCHANGED <<stream, sent, posted>>

ClientWrites(c) ==
  LET w == Head(outgoing[c]) IN
  /\ \/ K!WriteSome(c) /\ Post(c, w[1], <<"header">>)
     \/ K!WriteLast(c) /\ Post(c, w[1], IF w[2] = "begin" THEN <<"header", "body">> ELSE <<"body">>)
     \/ K!WriteDone(c) /\ UNCHANGED <<stream, sent, posted>>
     \/ ServerGone(c) /\ K!WriteFails(c, TRUE) /\ UNCHANGED <<stream, sent, posted>>
  /\ ServerStays /\ UNCHANGED heard

Killed(c) == K!Kill(c) /\ ServerStays /\ UNCHANGED <<stream, sent, posted, heard>>

\* The end of a program that has closed, or is gone, reaches the server: as a
\* reset, if anything of the server's was not read.
EndReaches(c) ==
  /\ ~K!Running(c)
  /\ \/ C!PeerLeaves(c, "closed", <<>>)
     \/ (Unheard(c) \/ current[c] > C!Answered(c)) /\ C!PeerLeaves(c, "reset", <<>>)
     \/ C!PeerResets(c)
  /\ NotProcessing /\ UNCHANGED <<clientVars, answer>>

-----------------------------------------------------------------------------
(* Steps of the server.                                                    *)

\* It accepts a client that has connected.
Accepts(c) == /\ socket[c] \in {"open", "closed"}
              /\ OnAccept(c)
              /\ UNCHANGED <<clientVars, answer>>

\* It answers the request that is next in the stream.
Serves(c) ==
  /\ Len(posted[c]) > current[c]
  /\ OnReadSuccess(c, Script[c][posted[c][current[c] + 1]].ask)
  /\ answer' = [answer EXCEPT ![c] = Append(@, [status |-> reply'.status, body |-> reply'.body])]
  /\ UNCHANGED clientVars

ServerReads(c) ==
  \/ Serves(c)
  \/ /\ \/ OnReadFail(c)
        \/ OnReadFailThrows(c)
        \/ C!ReadHeader(c) /\ NotProcessing
     /\ UNCHANGED <<clientVars, answer>>

ServerWrites(c) == C!WriteStep(c) /\ NotProcessing /\ UNCHANGED <<clientVars, answer>>

LoopEnds == (C!AcceptFails \/ C!RunReturns) /\ NotProcessing /\ UNCHANGED <<clientVars, answer>>

Discards(c) == C!Aborted(c) /\ NotProcessing /\ UNCHANGED <<clientVars, answer>>

-----------------------------------------------------------------------------

ClientStep(c) == Dial(c) \/ ClientReads(c) \/ ClientWrites(c)
ServerStep(c) == Accepts(c) \/ ServerReads(c) \/ ServerWrites(c) \/ Discards(c)

SessionNext ==
  \/ \E c \in Processer : ClientStep(c) \/ Killed(c) \/ EndReaches(c) \/ ServerStep(c)
  \/ LoopEnds

SessionSpec == SessionInit /\ [][SessionNext]_sessionVars

\* Both loops serve the operations that can complete, the server accepts while it
\* still does, and the end of a program reaches the server.
SessionFairSpec ==
  /\ SessionSpec
  /\ \A c \in Processer : /\ WF_sessionVars(ClientStep(c))
                          /\ WF_sessionVars(ServerStep(c))
                          /\ WF_sessionVars(EndReaches(c))
  /\ WF_sessionVars(C!RunReturns /\ LoopEnds)

-----------------------------------------------------------------------------
(* Properties.                                                             *)

\* From end to end, a client's k-th answer is the one the server gave to its k-th
\* request: nothing in the messages says so, only their order does.
Paired ==
  \A c \in Processer :
    /\ posted[c] = [k \in DOMAIN posted[c] |-> k]
    /\ told[c]   = [k \in DOMAIN told[c] |-> k]
    /\ Len(told[c]) <= Len(answer[c]) /\ Len(answer[c]) <= asked[c]

\* A program that stops by itself has been told everything it asked, unless it
\* could not connect, or the server ended or dropped the connection.
StopsWhenTold ==
  \A c \in Processer :
    loop[c] = "stopped" =>
      Len(told[c]) = Len(Script[c]) \/ unconnected[c] \/ ServerGone(c)

\* The request passed to on_write_success is the one that was written.
CallbackIsTrue ==
  [][\A c \in Processer : K!WriteDone(c) => Head(outgoing[c])[1] = request[c]]_sessionVars

\* Every closing program ends, whatever fails and whenever, but for one: connected
\* by the kernel to a server that failed to accept somebody, and accepts no more
\* for that, while the other connections keep it running.
Unaccepted(c) == peer[c] = "none" /\ ~accepting /\ C!Running

SessionEnds == \A c \in Closing : <>[](~K!Running(c) \/ Unaccepted(c))

\* When all those who had an id have left, the id is put out of every room.
Abandoned(c) == \A p \in Processer : playerId[p] = c => peer[p] # "open"

GoneAreCleared ==
  \A c \in PlayerId : Abandoned(c) ~>
    \/ ~InGeneral(c) /\ ~IsInRoom(c)
    \/ ~Abandoned(c)
    \/ ~C!Running
=============================================================================
