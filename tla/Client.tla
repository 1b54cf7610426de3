------------------------------- MODULE Client -------------------------------
(***************************************************************************)
(* The programs that use the client library (protocol/src/client.cpp), one *)
(* per connection: each connects and asks the requests of its script, one  *)
(* after the other.  There are two kinds of them.  A closing program       *)
(* (protocol/test/client.cpp) reads when its request is written, closes    *)
(* after the last answer, and closes when anything fails.  The others      *)
(* (server/test/client) read at once, set no callback for failures, and    *)
(* never close.                                                            *)
(*                                                                         *)
(* One action is the completion of one asynchronous operation, with all    *)
(* that its handler and the callback it calls do; what a write sends is    *)
(* with the server before its handler runs.  Requests and answers are known*)
(* by their numbers.  The module is open: what arrives, and when an        *)
(* operation can fail, is for the module that composes it with a server.   *)
(***************************************************************************)
EXTENDS Naturals, Sequences

CONSTANTS Conn,         \* the connections, and their programs
          Closing       \* the programs that close

VARIABLES loop,         \* what has become of client::run
          socket,       \* m_socket
          asked,        \* calls of write()
          request,      \* m_current_request
          outgoing,     \* outstanding async_writes, in the order they are served
          awaiting,     \* the outstanding async_read: of a header, of a body
          told,         \* the answers that on_read_success was called with
          unconnected   \* whether on_connect_failed was called

writeVars == <<asked, request, outgoing>>
vars == <<loop, socket, writeVars, awaiting, told, unconnected>>

Running(c) == loop[c] = "running"

Init ==
  /\ loop        = [c \in Conn |-> "running"]
  /\ socket      = [c \in Conn |-> "unresolved"]
  /\ asked       = [c \in Conn |-> 0]
  /\ request     = [c \in Conn |-> 0]
  /\ outgoing    = [c \in Conn |-> <<>>]
  /\ awaiting    = [c \in Conn |-> "none"]
  /\ told        = [c \in Conn |-> <<>>]
  /\ unconnected = [c \in Conn |-> FALSE]

-----------------------------------------------------------------------------
(* What callbacks do with the connection.                                  *)

\* Mutant: the request is not kept for the callback.
WriteUnkept(c) ==
  /\ asked' = [asked EXCEPT ![c] = @ + 1]
  /\ outgoing' = [outgoing EXCEPT ![c] = Append(@, <<asked'[c], "begin">>)]
  /\ UNCHANGED request

\* Mutant: the request is written twice.
WriteTwice(c) ==
  /\ asked' = [asked EXCEPT ![c] = @ + 1]
  /\ request' = [request EXCEPT ![c] = asked'[c]]
  /\ outgoing' = [outgoing EXCEPT ![c] = @ \o <<<<asked'[c], "begin">>, <<asked'[c], "begin">>>>]

\* write() of the next request.
Write(c) ==
  /\ asked' = [asked EXCEPT ![c] = @ + 1]
  /\ request' = [request EXCEPT ![c] = asked'[c]]
  /\ outgoing' = [outgoing EXCEPT ![c] = Append(@, <<asked'[c], "begin">>)]

\* What is outstanding after write(): a closing program does not read yet.
Ahead(c) == awaiting' = [awaiting EXCEPT ![c] = IF c \in Closing THEN "none" ELSE "header"]

\* close(), which calls on_close, which stops the loop.
Close(c) == /\ socket' = [socket EXCEPT ![c] = "closed"]
            /\ loop' = [loop EXCEPT ![c] = "stopped"]

\* Mutant: no program sets a failure callback.
OnFailureIgnored(c, reset) == reset \in BOOLEAN /\ UNCHANGED <<loop, socket>>

\* The failure callback of a closing program: close(), whose shutdown throws, out
\* of run(), if the connection has been reset.  The others have none, and go on
\* waiting for nothing: io_service::work keeps their loop running.
OnFailure(c, reset) ==
  \/ c \in Closing /\ Close(c)
  \/ /\ c \in Closing /\ reset
     /\ loop' = [loop EXCEPT ![c] = "threw"]
     /\ UNCHANGED socket
  \/ /\ c \notin Closing
     /\ UNCHANGED <<loop, socket>>

-----------------------------------------------------------------------------
(* Connecting.                                                             *)

\* client::connect resolves the name on the spot.
Resolve(c) ==
  /\ Running(c)
  /\ socket[c] = "unresolved"
  /\ socket' = [socket EXCEPT ![c] = "connecting"]
  /\ UNCHANGED <<loop, writeVars, awaiting, told, unconnected>>

\* The resolver throws, out of run().
ResolveThrows(c) ==
  /\ Running(c)
  /\ socket[c] = "unresolved"
  /\ loop' = [loop EXCEPT ![c] = "threw"]
  /\ UNCHANGED <<socket, writeVars, awaiting, told, unconnected>>

\* on_connect: the first request.
Connect(c) ==
  /\ Running(c)
  /\ socket[c] = "connecting"
  /\ socket' = [socket EXCEPT ![c] = "open"]
  /\ Write(c) /\ Ahead(c)
  /\ UNCHANGED <<loop, told, unconnected>>

\* on_connect_failed stops the loop.
ConnectFails(c) ==
  /\ Running(c)
  /\ socket[c] = "connecting"
  /\ unconnected' = [unconnected EXCEPT ![c] = TRUE]
  /\ loop' = [loop EXCEPT ![c] = "stopped"]
  /\ UNCHANGED <<socket, writeVars, awaiting, told>>

-----------------------------------------------------------------------------
(* Reading.                                                                *)

\* The request is sent and the handler of its write is in the queue of the loop,
\* before that of any read that ends after it.
Completed(c) == outgoing[c] # <<>> /\ Head(outgoing[c])[2] = "done"

ReadHeader(c) ==
  /\ Running(c)
  /\ awaiting[c] = "header" /\ ~Completed(c)
  /\ awaiting' = [awaiting EXCEPT ![c] = "body"]
  /\ UNCHANGED <<loop, socket, writeVars, told, unconnected>>

\* on_read_success asks the next request.
GoOn(c) == Write(c) /\ Ahead(c) /\ UNCHANGED <<loop, socket>>

\* on_read_success asks nothing more: it closes, or just returns.
Finish(c) ==
  /\ awaiting' = [awaiting EXCEPT ![c] = "none"]
  /\ IF c \in Closing THEN Close(c) ELSE UNCHANGED <<loop, socket>>
  /\ UNCHANGED writeVars

\* The n-th answer is there, whole, and more is to be asked, or not.
ReadBody(c, n, more) ==
  /\ Running(c)
  /\ awaiting[c] = "body" /\ ~Completed(c)
  /\ told' = [told EXCEPT ![c] = Append(@, n)]
  /\ IF more THEN GoOn(c) ELSE Finish(c)
  /\ UNCHANGED unconnected

\* A read fails: the connection is at its end, or reset.
ReadFails(c, reset) ==
  /\ Running(c)
  /\ awaiting[c] # "none" /\ ~Completed(c)
  /\ awaiting' = [awaiting EXCEPT ![c] = "none"]
  /\ OnFailure(c, reset)
  /\ UNCHANGED <<writeVars, told, unconnected>>

-----------------------------------------------------------------------------
(* Writing.                                                                *)

\* A part of the write is done; the rest waits behind the other writes.
WriteSome(c) ==
  LET w == Head(outgoing[c]) IN
  /\ Running(c)
  /\ outgoing[c] # <<>> /\ w[2] = "begin"
  /\ outgoing' = [outgoing EXCEPT ![c] = Append(Tail(@), <<w[1], "end">>)]
  /\ UNCHANGED <<loop, socket, asked, request, awaiting, told, unconnected>>

\* The last of a request is sent.  The handler is yet to run.
WriteLast(c) ==
  LET w == Head(outgoing[c]) IN
  /\ Running(c)
  /\ outgoing[c] # <<>> /\ ~Completed(c)
  /\ outgoing' = [outgoing EXCEPT ![c][1] = <<w[1], "done">>]
  /\ UNCHANGED <<loop, socket, asked, request, awaiting, told, unconnected>>

\* Mutant: a closing program closes when its request is written.
WriteDoneCloses(c) ==
  /\ Running(c)
  /\ Completed(c)
  /\ outgoing' = [outgoing EXCEPT ![c] = Tail(@)]
  /\ IF c \in Closing THEN Close(c) ELSE UNCHANGED <<loop, socket>>
  /\ UNCHANGED <<asked, request, awaiting, told, unconnected>>

\* The handler of a write: on_write_success is told m_current_request, and reads.
WriteDone(c) ==
  /\ Running(c)
  /\ Completed(c)
  /\ outgoing' = [outgoing EXCEPT ![c] = Tail(@)]
  /\ awaiting' = [awaiting EXCEPT ![c] = IF c \in Closing THEN "header" ELSE @]
  /\ UNCHANGED <<loop, socket, asked, request, told, unconnected>>

WriteFails(c, reset) ==
  /\ Running(c)
  /\ outgoing[c] # <<>> /\ ~Completed(c)
  /\ outgoing' = [outgoing EXCEPT ![c] = Tail(@)]
  /\ OnFailure(c, reset)
  /\ UNCHANGED <<asked, request, awaiting, told, unconnected>>

-----------------------------------------------------------------------------

\* The program is killed.
Kill(c) ==
  /\ Running(c)
  /\ socket[c] = "open"
  /\ loop' = [loop EXCEPT ![c] = "killed"]
  /\ UNCHANGED <<socket, writeVars, awaiting, told, unconnected>>
=============================================================================
