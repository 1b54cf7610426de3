----------------------------- MODULE Connections -----------------------------
(***************************************************************************)
(* The connections of the server: the accept loop (protocol/src/server.cpp)*)
(* the read and write operations of each InputConnection, the Protocol that*)
(* drives it and the pool that owns it (server/src/protocol.cpp,           *)
(* server/src/input_connection_pool.cpp), inside the io_service loop of    *)
(* main (server/src/main.cpp).                                             *)
(*                                                                         *)
(* One action is the completion of one asynchronous operation, with all    *)
(* that its handler does.  A write is the exception: what it sends is with *)
(* the peer before its handler runs.  The answer to a request is known by  *)
(* the number of the request; what process() does is the business of       *)
(* Engine.  The peer and TCP are modelled from what the code can see of    *)
(* them: nothing keeps a peer from sending ahead of its answers.           *)
(***************************************************************************)
EXTENDS Naturals, Sequences, FiniteSets

CONSTANTS Conn,         \* the connections, each accepted at most once
          MaxSent,      \* bound: requests a peer sends over its connection
          Sends,        \* what peers send: headers, and torn requests or not
          Leaves        \* the ways in which peers leave

ASSUME SentAssumption == MaxSent \in Nat
ASSUME PeerAssumption == /\ Sends  \subseteq {"header", "bad header", "torn"}
                         /\ Leaves \subseteq {"closed", "reset"}

VARIABLES server,       \* what has become of the process
          accepting,    \* whether an async_accept is outstanding
          pool,         \* m_input_collection, whose order matters to nobody
          protoId,      \* m_id of the connection's Protocol; 0: no such object
          reading,      \* its outstanding async_read: of a header, of a body
          writing,      \* its outstanding async_writes, in the order they are served
          current,      \* m_current_response
          orphans,      \* operations outstanding on it after its destruction
          peer,         \* what the other end has done
          stream,       \* what the other end sent and the server has not read
          sent,         \* how many requests the other end sent
          received      \* the pieces of answers the other end got

netVars == <<peer, stream, sent>>
vars == <<server, accepting, pool, protoId, reading, writing, current,
          orphans, peer, stream, sent, received>>

Running == server = "running"
Open    == {c \in Conn : protoId[c] # 0}

Init ==
  /\ server = "running"
  /\ accepting = TRUE           \* server::run starts the first accept
  /\ pool = {}
  /\ protoId  = [c \in Conn |-> 0]
  /\ reading  = [c \in Conn |-> "none"]
  /\ writing  = [c \in Conn |-> <<>>]
  /\ current  = [c \in Conn |-> 0]
  /\ orphans  = [c \in Conn |-> 0]
  /\ peer     = [c \in Conn |-> "none"]
  /\ stream   = [c \in Conn |-> <<>>]
  /\ sent     = [c \in Conn |-> 0]
  /\ received = [c \in Conn |-> <<>>]

-----------------------------------------------------------------------------
(* The other end of a connection (external).                               *)

Answered(c) == Cardinality({k \in DOMAIN received[c] : received[c][k][2] = "end"})

\* A request, in whole, or with a header the server's parser cannot read.
PeerSends(c, header) ==
  /\ Running
  /\ peer[c] = "open"
  /\ sent[c] < MaxSent
  /\ sent' = [sent EXCEPT ![c] = @ + 1]
  /\ stream' = [stream EXCEPT ![c] = @ \o <<header, "body">>]
  /\ UNCHANGED <<server, accepting, pool, protoId, reading, writing, current,
                 orphans, peer, received>>

\* The other end closes or resets, perhaps in the middle of a request.
PeerLeaves(c, how, rest) ==
  /\ Running
  /\ peer[c] = "open"
  /\ peer' = [peer EXCEPT ![c] = how]
  /\ stream' = [stream EXCEPT ![c] = @ \o rest]
  /\ UNCHANGED <<server, accepting, pool, protoId, reading, writing, current,
                 orphans, sent, received>>

\* An answer to an end that has closed is answered by a reset.
PeerResets(c) ==
  /\ Running
  /\ peer[c] = "closed"
  /\ current[c] > Answered(c)
  /\ peer' = [peer EXCEPT ![c] = "reset"]
  /\ UNCHANGED <<server, accepting, pool, protoId, reading, writing, current,
                 orphans, stream, sent, received>>

-----------------------------------------------------------------------------
(* Accepting.                                                              *)

\* Mutant: numbered from zero.
NewIdFromZero == Cardinality(pool)

\* InputConnectionPool::insert numbers a connection by the size of the pool.
NewId == Cardinality(pool) + 1

\* The accept handler: insert into the pool, which starts the first read, and
\* accept the next one.
Accept(c) ==
  /\ Running /\ accepting
  /\ peer[c] = "none"
  /\ peer' = [peer EXCEPT ![c] = "open"]
  /\ pool' = pool \union {[id |-> NewId, conn |-> c]}
  /\ protoId' = [protoId EXCEPT ![c] = NewId]
  /\ reading' = [reading EXCEPT ![c] = "header"]
  /\ UNCHANGED <<server, accepting, writing, current, orphans, stream, sent, received>>

\* The accept handler with an error does nothing, and accepts nothing more.
AcceptFails ==
  /\ Running /\ accepting
  /\ accepting' = FALSE
  /\ UNCHANGED <<server, pool, protoId, reading, writing, current, orphans,
                 netVars, received>>

-----------------------------------------------------------------------------
(* Reading.                                                                *)

\* A write of the connection has ended and its handler is in the queue of the
\* loop, before that of any read of the connection that ends after it.
Completed(c) == writing[c] # <<>> /\ Head(writing[c])[2] = "done"

Arrived(c, what) == stream[c] # <<>> /\ Head(stream[c]) = what /\ ~Completed(c)
Consume(c) == stream' = [stream EXCEPT ![c] = Tail(@)]

ReadHeader(c) ==
  /\ Running
  /\ reading[c] = "header"
  /\ Arrived(c, "header")
  /\ Consume(c)
  /\ reading' = [reading EXCEPT ![c] = "body"]
  /\ UNCHANGED <<server, accepting, pool, protoId, writing, current, orphans,
                 peer, sent, received>>

\* The header does not parse: the exception leaves io_service::run, and main.
ReadBadHeader(c) ==
  /\ Running
  /\ reading[c] = "header"
  /\ Arrived(c, "bad header")
  /\ server' = "stopped"
  /\ UNCHANGED <<accepting, pool, protoId, reading, writing, current, orphans,
                 netVars, received>>

\* Mutant: the next header is not waited for.
ReadBodyOnce(c) ==
  /\ Running
  /\ reading[c] = "body"
  /\ Arrived(c, "body")
  /\ Consume(c)
  /\ current' = [current EXCEPT ![c] = @ + 1]
  /\ writing' = [writing EXCEPT ![c] = Append(@, <<current'[c], "begin">>)]
  /\ reading' = [reading EXCEPT ![c] = "none"]
  /\ UNCHANGED <<server, accepting, pool, protoId, orphans, peer, sent, received>>

\* Mutant: the answer is written twice.
ReadBodyTwice(c) ==
  /\ Running
  /\ reading[c] = "body"
  /\ Arrived(c, "body")
  /\ Consume(c)
  /\ current' = [current EXCEPT ![c] = @ + 1]
  /\ writing' = [writing EXCEPT ![c] = @ \o <<<<current'[c], "begin">>, <<current'[c], "begin">>>>]
  /\ reading' = [reading EXCEPT ![c] = "header"]
  /\ UNCHANGED <<server, accepting, pool, protoId, orphans, peer, sent, received>>

\* A whole request: process() answers it, the answer starts to be written,
\* and the next header is waited for.
ReadBody(c) ==
  /\ Running
  /\ reading[c] = "body"
  /\ Arrived(c, "body")
  /\ Consume(c)
  /\ current' = [current EXCEPT ![c] = @ + 1]
  /\ writing' = [writing EXCEPT ![c] = Append(@, <<current'[c], "begin">>)]
  /\ reading' = [reading EXCEPT ![c] = "header"]
  /\ UNCHANGED <<server, accepting, pool, protoId, orphans, peer, sent, received>>

\* Mutant: an error is only handled while a header is read.
ReadErrorInHeader(c) ==
  /\ Running
  /\ reading[c] = "header" /\ ~Completed(c)
  /\ \/ peer[c] = "closed" /\ stream[c] = <<>>
     \/ peer[c] = "reset"

\* A read meets the end of the stream, or a reset.
ReadError(c) ==
  /\ Running
  /\ reading[c] # "none" /\ ~Completed(c)
  /\ \/ peer[c] = "closed" /\ stream[c] = <<>>
     \/ peer[c] = "reset"

\* Mutant: only one connection of the id is destroyed.
ErasedFirst(id) == {(CHOOSE e \in pool : e.id = id).conn}

\* The connections InputConnectionPool::remove(id) erases.
Erased(id) == {e.conn : e \in {e \in pool : e.id = id}}

\* What a destroyed connection leaves pending: the read whose handler runs is
\* no longer pending, the reads and the writes of the others are.
LeftBehind(q, c) == Len(writing[q]) + (IF q = c THEN 0 ELSE 1)

\* on_read_fail: the socket is shut down and closed, and the pool erases, and so
\* destroys, every connection of that id.
Lose(c) ==
  LET gone == Erased(protoId[c]) IN
  /\ ReadError(c)
  /\ peer[c] # "reset"
  /\ pool' = {e \in pool : e.id # protoId[c]}
  /\ protoId' = [q \in Conn |-> IF q \in gone THEN 0 ELSE protoId[q]]
  /\ reading' = [q \in Conn |-> IF q \in gone THEN "none" ELSE reading[q]]
  /\ writing' = [q \in Conn |-> IF q \in gone THEN <<>> ELSE writing[q]]
  /\ orphans' = [q \in Conn |-> IF q \in gone THEN LeftBehind(q, c) ELSE orphans[q]]
  /\ peer' = [q \in Conn |-> IF q \in gone /\ peer[q] = "open" THEN "dropped" ELSE peer[q]]
  /\ UNCHANGED <<server, accepting, current, stream, sent, received>>

\* close() on a reset socket: shutdown throws, and nothing after it is done.
LoseThrows(c) ==
  /\ ReadError(c)
  /\ peer[c] = "reset"
  /\ server' = "stopped"
  /\ UNCHANGED <<accepting, pool, protoId, reading, writing, current, orphans,
                 netVars, received>>

-----------------------------------------------------------------------------
(* Writing.  An async_write may take several turns, and then waits behind  *)
(* the other writes of the socket.                                         *)

Deliver(c, pieces) ==
  received' = IF peer[c] = "open" THEN [received EXCEPT ![c] = @ \o pieces] ELSE received

WriteSome(c) ==
  LET w == Head(writing[c]) IN
  /\ Running
  /\ writing[c] # <<>> /\ w[2] = "begin"
  /\ writing' = [writing EXCEPT ![c] = Append(Tail(@), <<w[1], "end">>)]
  /\ Deliver(c, <<w>>)
  /\ UNCHANGED <<server, accepting, pool, protoId, reading, current, orphans, netVars>>

\* The last of a write is sent.  Its handler is yet to run.
WriteLast(c) ==
  LET w == Head(writing[c]) IN
  /\ Running
  /\ writing[c] # <<>> /\ ~Completed(c)
  /\ writing' = [writing EXCEPT ![c][1] = <<w[1], "done">>]
  /\ Deliver(c, IF w[2] = "begin" THEN <<w, <<w[1], "end">>>> ELSE <<w>>)
  /\ UNCHANGED <<server, accepting, pool, protoId, reading, current, orphans, netVars>>

\* The handler of a write: on_write_succeed is told m_current_response.
WriteDone(c) ==
  /\ Running
  /\ Completed(c)
  /\ writing' = [writing EXCEPT ![c] = Tail(@)]
  /\ UNCHANGED <<server, accepting, pool, protoId, reading, current, orphans,
                 netVars, received>>

\* Protocol sets no write_failed callback: an error goes unnoticed.
WriteFails(c) ==
  /\ Running
  /\ writing[c] # <<>> /\ ~Completed(c)
  /\ peer[c] # "open"
  /\ writing' = [writing EXCEPT ![c] = Tail(@)]
  /\ UNCHANGED <<server, accepting, pool, protoId, reading, current, orphans,
                 netVars, received>>

-----------------------------------------------------------------------------
(* The loop.                                                               *)

\* An operation of a destroyed connection completes, aborted: its handler looks
\* at the callbacks of an object that is gone.  It may find none, or crash.
Aborted(c) ==
  /\ Running
  /\ orphans[c] > 0
  /\ orphans' = [orphans EXCEPT ![c] = @ - 1]
  /\ server' \in {"running", "crashed"}
  /\ UNCHANGED <<accepting, pool, protoId, reading, writing, current, netVars, received>>

\* io_service::run returns when nothing is outstanding, and main with it.
RunReturns ==
  /\ Running
  /\ ~accepting
  /\ \A c \in Conn : reading[c] = "none" /\ writing[c] = <<>> /\ orphans[c] = 0
  /\ server' = "stopped"
  /\ UNCHANGED <<accepting, pool, protoId, reading, writing, current, orphans,
                 netVars, received>>

ReadStep(c)  == ReadHeader(c) \/ ReadBadHeader(c) \/ ReadBody(c) \/ Lose(c) \/ LoseThrows(c)
WriteStep(c) == WriteSome(c) \/ WriteLast(c) \/ WriteDone(c) \/ WriteFails(c)
PeerStep(c)  ==
  \/ \E header \in Sends \ {"torn"} : PeerSends(c, header)
  \/ \E how \in Leaves : \/ PeerLeaves(c, how, <<>>)
                         \/ "torn" \in Sends /\ PeerLeaves(c, how, <<"header">>)
  \/ "reset" \in Leaves /\ PeerResets(c)

Next == \/ AcceptFails
        \/ RunReturns
        \/ \E c \in Conn : Accept(c) \/ ReadStep(c) \/ WriteStep(c) \/ Aborted(c)
        \/ \E c \in Conn : PeerStep(c)

Spec == Init /\ [][Next]_vars

\* The loop serves every operation that can complete; peers owe nothing.
Fairness == \A c \in Conn : /\ WF_vars(ReadStep(c))
                            /\ WF_vars(WriteStep(c))
                            /\ WF_vars(Aborted(c))

FairSpec == Spec /\ Fairness

-----------------------------------------------------------------------------
(* Properties.                                                             *)

Piece     == (Nat \ {0}) \X {"begin", "end"}
WriteTurn == (Nat \ {0}) \X {"begin", "end", "done"}

TypeOK ==
  /\ server \in {"running", "stopped", "crashed"}
  /\ accepting \in BOOLEAN
  /\ pool \subseteq [id : Nat \ {0}, conn : Conn] /\ IsFiniteSet(pool)
  /\ protoId \in [Conn -> Nat]
  /\ reading \in [Conn -> {"none", "header", "body"}]
  /\ writing \in [Conn -> Seq(WriteTurn)]
  /\ current \in [Conn -> Nat]
  /\ orphans \in [Conn -> Nat]
  /\ peer \in [Conn -> {"none", "open", "closed", "reset", "dropped"}]
  /\ stream \in [Conn -> Seq({"header", "bad header", "body"})]
  /\ sent \in [Conn -> 0..MaxSent]
  /\ received \in [Conn -> Seq(Piece)]

\* The pool holds every connection that has a Protocol, once, under the id that
\* Protocol removes it by, and nothing else: removal can neither miss the
\* connection it is for nor leave a destroyed one behind.
PoolIsOpen ==
  /\ \A e \in pool : e.id = protoId[e.conn]
  /\ Open = {e.conn : e \in pool}

\* While the server runs, every connection it keeps has exactly one read to come
\* back from, so none is forgotten, and those it does not keep have none.
OpenIsReading == \A c \in Conn : c \in Open <=> reading[c] # "none"

\* However far ahead a peer sends, nothing of an answer reaches it before the
\* request has been processed, nothing twice, no end without its beginning, and no
\* answer begins before those of the earlier requests.
BegunBefore(c, k) ==
  LET n == received[c][k][1] IN
  \A m \in 1..(IF received[c][k][2] = "begin" THEN n - 1 ELSE n) :
    \E i \in 1..(k - 1) : received[c][i] = <<m, "begin">>

AnswersComeOnce ==
  \A c \in Conn :
    /\ \A k \in DOMAIN received[c] : received[c][k][1] <= current[c] /\ BegunBefore(c, k)
    /\ \A i, k \in DOMAIN received[c] : received[c][i] = received[c][k] => i = k

\* The answers come whole, one after the other, in the order of the requests: so
\* they do to a peer that awaits each, as the clients of Session do, whereas those
\* to requests that are sent ahead may be interleaved.
PieceOf(k) == <<(k + 1) \div 2, IF k % 2 = 1 THEN "begin" ELSE "end">>

AnswersInOrder ==
  \A c \in Conn : /\ received[c] = [k \in DOMAIN received[c] |-> PieceOf(k)]
                 /\ Len(received[c]) <= 2 * sent[c]

\* The response passed to on_write_success is "the response that the server sent
\* to the client" (server/include/protocol.hpp:48).
CallbackIsTrue ==
  [][\A c \in Conn : WriteDone(c) => Head(writing[c])[1] = current[c]]_vars

\* InputConnectionPool::remove removes "the connection from the given associated
\* id" (server/include/input_connection_pool.hpp:27): no other peer is dropped.
OnlyOwnRemoved == \A c \in Conn : peer[c] # "dropped"

\* close() will "close the socket call the on_close() function if not null"
\* (protocol/include/server.hpp:68), and on_close removes it from the pool.
CloseCompletes ==
  [][\A c \in Conn : ReadError(c) /\ (Lose(c) \/ LoseThrows(c)) => protoId'[c] = 0]_vars

\* A connection whose peer has left does not stay in the pool for ever.
LostIsReleased ==
  \A c \in Conn : peer[c] \in {"closed", "reset"} ~> c \notin Open \/ ~Running

=============================================================================
