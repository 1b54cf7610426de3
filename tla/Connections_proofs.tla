-------------------------- MODULE Connections_proofs --------------------------
(***************************************************************************)
(* Proofs about the connections: the pool, the Protocols and the           *)
(* outstanding reads agree, whatever the peers do, and although the pool   *)
(* gives ids more than once; and each piece of an answer comes once,       *)
(* however far ahead the peers send.                                       *)
(***************************************************************************)
EXTENDS Connections, FiniteSetTheorems, TLAPS

\* A connection that has not arrived has no Protocol.
NoneYet == \A c \in Conn : peer[c] = "none" => protoId[c] = 0

\* The inductive invariant.  PoolIsOpen is what tells which connections a removal
\* by id destroys, and NoneYet that an accepted one is not there already.
CInv == TypeOK /\ PoolIsOpen /\ OpenIsReading /\ NoneYet

\* What streams are made of.
LEMMA StreamFacts ==
  ASSUME NEW S
  PROVE  /\ <<>> \in Seq(S)
         /\ \A a \in S : <<a>> \in Seq(S)
         /\ \A a, b \in S : <<a, b>> \in Seq(S)
         /\ \A s, t \in Seq(S) : s \o t \in Seq(S)
         /\ \A s \in Seq(S) : s # <<>> => Tail(s) \in Seq(S)
OBVIOUS

\* The empty server satisfies the invariant.
LEMMA InitCInv == Init => CInv
<1> SUFFICES ASSUME Init PROVE CInv
  OBVIOUS
<1>1. TypeOK
  BY FS_EmptySet, SentAssumption DEF Init, TypeOK, Piece, WriteTurn
<1>2. Open = {}
  BY DEF Init, Open
<1> QED BY <1>1, <1>2 DEF Init, CInv, PoolIsOpen, OpenIsReading, NoneYet

\* A step that neither makes nor destroys connections keeps them as they were.
LEMMA OwnershipKept ==
  ASSUME CInv, UNCHANGED <<pool, protoId>>, reading' \in [Conn -> {"none", "header", "body"}],
         \A c \in Conn : reading'[c] = "none" <=> reading[c] = "none",
         \A c \in Conn : peer'[c] = "none" => peer[c] = "none"
  PROVE  PoolIsOpen' /\ OpenIsReading' /\ NoneYet'
<1>1. Open' = Open
  BY DEF Open
<1> QED BY <1>1 DEF CInv, PoolIsOpen, OpenIsReading, NoneYet

\* The id of a new connection is positive.
LEMMA NewIdIs == ASSUME TypeOK PROVE NewId \in Nat \ {0}
<1>1. Cardinality(pool) \in Nat
  BY FS_CardinalityType DEF TypeOK
<1> QED BY <1>1 DEF NewId

\* An accepted connection joins the pool with its Protocol and its first read
\* (InputConnectionPool::insert), whatever the id it is given.
LEMMA AcceptKeeps == ASSUME CInv, NEW c \in Conn, Accept(c) PROVE CInv'
<1>1. NewId \in Nat \ {0}
  BY NewIdIs DEF CInv
<1> DEFINE new == [id |-> NewId, conn |-> c]
<1>2. new \in [id : Nat \ {0}, conn : Conn] /\ new.id = NewId /\ new.conn = c
  BY <1>1
<1>3. /\ pool' = pool \union {new}
      /\ protoId' = [protoId EXCEPT ![c] = NewId]
      /\ reading' = [reading EXCEPT ![c] = "header"]
      /\ peer' = [peer EXCEPT ![c] = "open"]
      /\ UNCHANGED <<server, accepting, writing, current, orphans, stream, sent, received>>
      /\ protoId[c] = 0
  BY DEF Accept, CInv, NoneYet
<1> HIDE DEF new
<1>4. TypeOK'
  <2>1. IsFiniteSet(pool')
    BY <1>3, FS_AddElement DEF CInv, TypeOK
  <2>2. NewId \in Nat
    BY <1>1
  <2> QED BY <2>1, <2>2, <1>2, <1>3 DEF CInv, TypeOK
<1>5. /\ protoId'[c] = NewId /\ \A q \in Conn : q # c => protoId'[q] = protoId[q]
      /\ reading'[c] = "header" /\ \A q \in Conn : q # c => reading'[q] = reading[q]
      /\ peer'[c] = "open" /\ \A q \in Conn : q # c => peer'[q] = peer[q]
  BY <1>3 DEF CInv, TypeOK
<1>6. Open' = Open \union {c}
  BY <1>5, <1>1 DEF Open
<1>7. \A e \in pool : e.conn \in Open /\ e.conn # c /\ e.conn \in Conn
  BY <1>3 DEF CInv, PoolIsOpen, Open
<1>8. PoolIsOpen'
  BY <1>2, <1>3, <1>5, <1>6, <1>7 DEF CInv, PoolIsOpen
<1>9. OpenIsReading' /\ NoneYet'
  BY <1>5, <1>6 DEF CInv, OpenIsReading, NoneYet
<1> QED BY <1>4, <1>8, <1>9 DEF CInv

\* The connections of an id are the open ones that have it.
LEMMA ErasedAre ==
  ASSUME CInv, NEW c \in Open
  PROVE  Erased(protoId[c]) = {q \in Open : protoId[q] = protoId[c]}
BY DEF CInv, PoolIsOpen, Erased

\* A lost connection is destroyed with all those of its id: they leave the pool,
\* and their Protocols and reads go with them (Protocol::on_read_fail).
LEMMA LoseKeeps == ASSUME CInv, NEW c \in Conn, Lose(c) PROVE CInv'
<1> DEFINE gone == Erased(protoId[c])
<1>1. c \in Open
  BY DEF Lose, ReadError, CInv, OpenIsReading
<1>2. gone = {q \in Open : protoId[q] = protoId[c]}
  BY <1>1, ErasedAre
<1>3. /\ pool' = {e \in pool : e.id # protoId[c]}
      /\ protoId' = [q \in Conn |-> IF q \in gone THEN 0 ELSE protoId[q]]
      /\ reading' = [q \in Conn |-> IF q \in gone THEN "none" ELSE reading[q]]
      /\ writing' = [q \in Conn |-> IF q \in gone THEN <<>> ELSE writing[q]]
      /\ orphans' = [q \in Conn |-> IF q \in gone THEN LeftBehind(q, c) ELSE orphans[q]]
      /\ peer' = [q \in Conn |-> IF q \in gone /\ peer[q] = "open" THEN "dropped" ELSE peer[q]]
      /\ UNCHANGED <<server, accepting, current, stream, sent, received>>
  BY DEF Lose
<1> HIDE DEF gone
<1>4. TypeOK'
  <2>1. IsFiniteSet(pool')
    BY <1>3, FS_Subset DEF CInv, TypeOK
  <2>2. ASSUME NEW q \in Conn PROVE LeftBehind(q, c) \in Nat
    <3>1. writing[q] \in Seq(WriteTurn)
      BY DEF CInv, TypeOK
    <3>2. Len(writing[q]) \in Nat
      BY <3>1
    <3>3. (IF q = c THEN 0 ELSE 1) \in Nat
      OBVIOUS
    <3>4. \A m, n \in Nat : m + n \in Nat
      OBVIOUS
    <3> QED BY <3>2, <3>3, <3>4 DEF LeftBehind
  <2>3. orphans' \in [Conn -> Nat] /\ writing' \in [Conn -> Seq(WriteTurn)]
    <3>1. orphans \in [Conn -> Nat] /\ writing \in [Conn -> Seq(WriteTurn)]
      BY DEF CInv, TypeOK
    <3>2. <<>> \in Seq(WriteTurn)
      OBVIOUS
    <3> QED BY <1>3, <2>2, <3>1, <3>2
  <2> QED BY <2>1, <2>3, <1>3 DEF CInv, TypeOK
<1>5. Open' = Open \ gone
  BY <1>2, <1>3 DEF Open, CInv, TypeOK
<1>6. \A e \in pool : e.conn \in Open /\ (e.conn \in gone <=> e.id = protoId[c])
  BY <1>2 DEF CInv, PoolIsOpen
<1>7. PoolIsOpen'
  <2>1. \A e \in pool' : e.id = protoId'[e.conn]
    BY <1>3, <1>6 DEF CInv, PoolIsOpen, Open
  <2>2. Open' = {e.conn : e \in pool'}
    BY <1>3, <1>5, <1>6 DEF CInv, PoolIsOpen
  <2> QED BY <2>1, <2>2 DEF PoolIsOpen
<1>8. OpenIsReading' /\ NoneYet'
  BY <1>3, <1>5, <1>2 DEF CInv, OpenIsReading, NoneYet, Open
<1> QED BY <1>4, <1>7, <1>8 DEF CInv

\* Another read that completes goes on with the next one, or ends the server.
LEMMA ReadKeeps ==
  ASSUME CInv, NEW c \in Conn,
         ReadHeader(c) \/ ReadBadHeader(c) \/ ReadBody(c) \/ LoseThrows(c)
  PROVE  CInv'
<1>1. CASE ReadBadHeader(c) \/ LoseThrows(c)
  <2>1. server' = "stopped" /\ UNCHANGED <<accepting, pool, protoId, reading, writing, current,
                                         orphans, peer, stream, sent, received>>
    BY <1>1 DEF ReadBadHeader, LoseThrows, netVars
  <2>2. TypeOK'
    BY <2>1 DEF CInv, TypeOK
  <2>3. PoolIsOpen' /\ OpenIsReading' /\ NoneYet'
    BY <2>1, OwnershipKept DEF CInv, TypeOK
  <2> QED BY <2>2, <2>3 DEF CInv
<1>2. CASE ReadHeader(c) \/ ReadBody(c)
  <2>1. /\ UNCHANGED <<server, accepting, pool, protoId, orphans, peer, sent, received>>
        /\ stream' = [stream EXCEPT ![c] = Tail(@)] /\ stream[c] # <<>>
        /\ reading[c] # "none"
        /\ reading' = [reading EXCEPT ![c] = "body"] \/ reading' = [reading EXCEPT ![c] = "header"]
    BY <1>2 DEF ReadHeader, ReadBody, Consume, Arrived
  <2>2. /\ writing' \in [Conn -> Seq(WriteTurn)]
        /\ current' \in [Conn -> Nat]
    <3>1. CASE ReadHeader(c)
      BY <3>1 DEF ReadHeader, CInv, TypeOK
    <3>2. CASE ReadBody(c)
      <4>1. /\ current \in [Conn -> Nat] /\ writing \in [Conn -> Seq(WriteTurn)]
            /\ current' = [current EXCEPT ![c] = current[c] + 1]
            /\ writing' = [writing EXCEPT ![c] = Append(writing[c], <<current'[c], "begin">>)]
        BY <3>2 DEF ReadBody, CInv, TypeOK
      <4>2. current'[c] = current[c] + 1 /\ current'[c] \in Nat \ {0}
        BY <4>1
      <4>3. <<current'[c], "begin">> \in WriteTurn
        BY <4>2 DEF WriteTurn
      <4>4. Append(writing[c], <<current'[c], "begin">>) \in Seq(WriteTurn)
        BY <4>1, <4>3
      <4> QED BY <4>1, <4>2, <4>4
    <3> QED BY <1>2, <3>1, <3>2
  <2>3. reading' \in [Conn -> {"none", "header", "body"}]
    BY <2>1 DEF CInv, TypeOK
  <2>4. stream' \in [Conn -> Seq({"header", "bad header", "body"})]
    <3>1. stream \in [Conn -> Seq({"header", "bad header", "body"})]
      BY DEF CInv, TypeOK
    <3>2. \A s \in Seq({"header", "bad header", "body"}) :
            s # <<>> => Tail(s) \in Seq({"header", "bad header", "body"})
      BY StreamFacts
    <3>3. Tail(stream[c]) \in Seq({"header", "bad header", "body"})
      BY <2>1, <3>1, <3>2
    <3> QED BY <2>1, <3>1, <3>3
  <2>5. TypeOK'
    BY <2>1, <2>2, <2>3, <2>4 DEF CInv, TypeOK
  <2>6. \A q \in Conn : reading'[q] = "none" <=> reading[q] = "none"
    BY <2>1 DEF CInv, TypeOK
  <2>7. PoolIsOpen' /\ OpenIsReading' /\ NoneYet'
    BY <2>1, <2>3, <2>6, OwnershipKept
  <2> QED BY <2>5, <2>7 DEF CInv
<1> QED BY <1>1, <1>2

\* The pieces delivered to a peer are pieces.
LEMMA DeliverKeeps ==
  ASSUME TypeOK, NEW c \in Conn, NEW pieces \in Seq(Piece), Deliver(c, pieces)
  PROVE  received' \in [Conn -> Seq(Piece)]
<1>1. received \in [Conn -> Seq(Piece)]
  BY DEF TypeOK
<1>2. received[c] \o pieces \in Seq(Piece)
  BY <1>1
<1> QED BY <1>1, <1>2 DEF Deliver

\* A write that goes on, is over or fails concerns neither pool nor reads.
LEMMA WriteKeeps ==
  ASSUME CInv, NEW c \in Conn, WriteStep(c) PROVE CInv'
<1>1. /\ writing[c] \in Seq(WriteTurn) /\ writing[c] # <<>>
      /\ UNCHANGED <<server, accepting, pool, protoId, reading, current, orphans,
                     peer, stream, sent>>
  BY DEF WriteStep, WriteSome, WriteLast, WriteDone, WriteFails, Completed, netVars, CInv, TypeOK
<1> DEFINE w == Head(writing[c])
<1>2. w \in WriteTurn /\ Tail(writing[c]) \in Seq(WriteTurn)
  BY <1>1
<1>3. /\ w[1] \in Nat \ {0} /\ <<w[1], "end">> \in Piece
      /\ <<w[1], "end">> \in WriteTurn /\ <<w[1], "done">> \in WriteTurn
      /\ w[2] # "done" => w \in Piece
  BY <1>2 DEF Piece, WriteTurn
<1>4. Append(Tail(writing[c]), <<w[1], "end">>) \in Seq(WriteTurn)
  BY <1>2, <1>3
<1>5. w[2] # "done" => <<w>> \in Seq(Piece) /\ <<w, <<w[1], "end">>>> \in Seq(Piece)
  BY <1>3
<1>6. [writing[c] EXCEPT ![1] = <<w[1], "done">>] \in Seq(WriteTurn)
  BY <1>1, <1>3
<1> HIDE DEF w
<1>7. writing' \in [Conn -> Seq(WriteTurn)] /\ received' \in [Conn -> Seq(Piece)]
  <2>0. TypeOK
    BY DEF CInv
  <2>1. CASE WriteSome(c)
    <3>1. /\ writing' = [writing EXCEPT ![c] = Append(Tail(writing[c]), <<w[1], "end">>)]
          /\ Deliver(c, <<w>>) /\ w[2] # "done"
      BY <2>0, <2>1 DEF WriteSome, w, TypeOK
    <3> QED BY <3>1, <1>4, <1>5, <2>0, DeliverKeeps DEF TypeOK
  <2>2. CASE WriteLast(c)
    <3>1. /\ writing' = [writing EXCEPT ![c] = [writing[c] EXCEPT ![1] = <<w[1], "done">>]]
          /\ Deliver(c, <<w>>) \/ Deliver(c, <<w, <<w[1], "end">>>>)
          /\ w[2] # "done"
      BY <2>0, <2>2 DEF WriteLast, Completed, w, TypeOK
    <3> QED BY <3>1, <1>5, <1>6, <2>0, DeliverKeeps DEF TypeOK
  <2>3. CASE WriteDone(c) \/ WriteFails(c)
    <3>1. writing' = [writing EXCEPT ![c] = Tail(writing[c])] /\ received' = received
      BY <2>0, <2>3 DEF WriteDone, WriteFails, TypeOK
    <3> QED BY <3>1, <1>2, <2>0 DEF TypeOK
  <2> QED BY <2>1, <2>2, <2>3 DEF WriteStep
<1>8. TypeOK'
  BY <1>1, <1>7 DEF CInv, TypeOK
<1>9. PoolIsOpen' /\ OpenIsReading' /\ NoneYet'
  BY <1>1, OwnershipKept DEF CInv, TypeOK
<1> QED BY <1>8, <1>9 DEF CInv

\* Nor does what the peer does.
LEMMA PeerKeeps ==
  ASSUME CInv, NEW c \in Conn, PeerStep(c) PROVE CInv'
<1>1. /\ UNCHANGED <<server, accepting, pool, protoId, reading, writing, current,
                     orphans, received>>
      /\ sent' \in [Conn -> 0..MaxSent]
      /\ stream' \in [Conn -> Seq({"header", "bad header", "body"})]
      /\ peer' \in [Conn -> {"none", "open", "closed", "reset", "dropped"}]
      /\ \A q \in Conn : peer'[q] = "none" => peer[q] = "none"
  <2> DEFINE Stream == Seq({"header", "bad header", "body"})
  <2>1. /\ stream \in [Conn -> Stream] /\ sent \in [Conn -> 0..MaxSent]
        /\ peer \in [Conn -> {"none", "open", "closed", "reset", "dropped"}]
    BY DEF CInv, TypeOK
  <2>2. CASE \E header \in Sends \ {"torn"} : PeerSends(c, header)
    <3>1. PICK header \in Sends \ {"torn"} : PeerSends(c, header)
      BY <2>2
    <3>2. header \in {"header", "bad header"}
      BY PeerAssumption
    <3>3. stream[c] \o <<header, "body">> \in Stream
      <4>1. <<header, "body">> \in Stream
        BY <3>2, StreamFacts
      <4> QED BY <2>1, <4>1, StreamFacts
    <3> HIDE DEF Stream
    <3>4. sent[c] + 1 \in 0..MaxSent
      <4>1. sent[c] \in 0..MaxSent /\ sent[c] < MaxSent /\ MaxSent \in Nat
        BY <2>1, <3>1, SentAssumption DEF PeerSends
      <4> QED BY <4>1
    <3>5. stream' \in [Conn -> Stream] /\ sent' \in [Conn -> 0..MaxSent]
      BY <2>1, <3>1, <3>3, <3>4 DEF PeerSends
    <3> QED BY <2>1, <3>1, <3>5 DEF PeerSends, Stream
  <2>3. CASE \E how \in Leaves : PeerLeaves(c, how, <<>>) \/ PeerLeaves(c, how, <<"header">>)
    <3>1. PICK how \in Leaves, rest \in {<<>>, <<"header">>} : PeerLeaves(c, how, rest)
      BY <2>3
    <3>2. how \in {"closed", "reset"}
      BY PeerAssumption
    <3>3. stream[c] \o rest \in Stream
      <4>1. "header" \in {"header", "bad header", "body"}
        OBVIOUS
      <4>2. rest \in Stream
        BY <4>1, StreamFacts
      <4> QED BY <2>1, <4>2, StreamFacts
    <3> HIDE DEF Stream
    <3>4. stream' \in [Conn -> Stream]
      BY <2>1, <3>1, <3>3 DEF PeerLeaves
    <3>5. /\ peer' \in [Conn -> {"none", "open", "closed", "reset", "dropped"}]
          /\ \A q \in Conn : peer'[q] = "none" => peer[q] = "none"
      BY <2>1, <3>1, <3>2 DEF PeerLeaves
    <3> QED BY <2>1, <3>1, <3>4, <3>5 DEF PeerLeaves, Stream
  <2>4. CASE PeerResets(c)
    BY <2>1, <2>4 DEF PeerResets
  <2> QED BY <2>2, <2>3, <2>4 DEF PeerStep
<1>2. TypeOK'
  BY <1>1 DEF CInv, TypeOK
<1>3. PoolIsOpen' /\ OpenIsReading' /\ NoneYet'
  BY <1>1, OwnershipKept DEF CInv, TypeOK
<1> QED BY <1>2, <1>3 DEF CInv

\* Nor do the steps of the loop itself.
LEMMA LoopKeeps ==
  ASSUME CInv, AcceptFails \/ RunReturns \/ \E c \in Conn : Aborted(c) PROVE CInv'
<1>1. /\ UNCHANGED <<pool, protoId, reading, writing, current, peer, stream, sent, received>>
      /\ server' \in {"running", "stopped", "crashed"} /\ accepting' \in BOOLEAN
      /\ orphans' \in [Conn -> Nat]
  <2>1. CASE AcceptFails \/ RunReturns
    BY <2>1 DEF AcceptFails, RunReturns, netVars, CInv, TypeOK
  <2>2. ASSUME NEW c \in Conn, Aborted(c)
        PROVE  /\ UNCHANGED <<accepting, pool, protoId, reading, writing, current,
                              peer, stream, sent, received>>
               /\ server' \in {"running", "stopped", "crashed"}
               /\ orphans' \in [Conn -> Nat]
    <3>1. orphans \in [Conn -> Nat] /\ orphans' = [orphans EXCEPT ![c] = orphans[c] - 1]
      BY <2>2 DEF Aborted, CInv, TypeOK
    <3>2. orphans[c] - 1 \in Nat
      BY <2>2, <3>1 DEF Aborted
    <3> QED BY <2>2, <3>1, <3>2 DEF Aborted, netVars
  <2> QED BY <2>1, <2>2 DEF CInv, TypeOK
<1>2. TypeOK'
  BY <1>1 DEF CInv, TypeOK
<1>3. PoolIsOpen' /\ OpenIsReading' /\ NoneYet'
  BY <1>1, OwnershipKept DEF CInv, TypeOK
<1> QED BY <1>2, <1>3 DEF CInv

-----------------------------------------------------------------------------

\* The invariant is inductive.
LEMMA NextKeepsC == CInv /\ [Next]_vars => CInv'
<1> SUFFICES ASSUME CInv, [Next]_vars PROVE CInv'
  OBVIOUS
<1>1. CASE UNCHANGED vars
  BY <1>1 DEF vars, CInv, TypeOK, PoolIsOpen, OpenIsReading, NoneYet, Open
<1> QED BY <1>1, AcceptKeeps, LoseKeeps, ReadKeeps, WriteKeeps, PeerKeeps, LoopKeeps
        DEF Next, ReadStep

\* The invariant holds in every reachable state.
THEOREM CInvHolds == Spec => []CInv
BY InitCInv, NextKeepsC, PTL DEF Spec

\* The connections, their streams and what their peers get keep their types.
THEOREM ConnectionTypesHold == Spec => []TypeOK
<1>1. CInv => TypeOK
  BY DEF CInv
<1> QED BY <1>1, CInvHolds, PTL

\* The pool holds exactly the connections that have a Protocol, under the ids
\* they are removed by (InputConnectionPool::insert, remove), also when an id has
\* been given twice.
THEOREM PoolIsOpenHolds == Spec => []PoolIsOpen
<1>1. CInv => PoolIsOpen
  BY DEF CInv
<1> QED BY <1>1, CInvHolds, PTL

\* Every connection of the pool has a read outstanding, and no other has
\* (InputConnection::on_read_body_completed waits for the next header).
THEOREM OpenIsReadingHolds == Spec => []OpenIsReading
<1>1. CInv => OpenIsReading
  BY DEF CInv
<1> QED BY <1>1, CInvHolds, PTL


-----------------------------------------------------------------------------
(***************************************************************************)
(* What a peer gets that sends a request when it has been answered: answers*)
(* whole, in the order of the requests, whatever is lost in between.  Not  *)
(* all peers do; the steps are here for a composition with some that do.   *)
(***************************************************************************)

PeerState == {"none", "open", "closed", "reset", "dropped"}
Sendable  == {"header", "bad header", "body"}

\* What the answers of a connection depend on.
AnswerTypes ==
  /\ writing \in [Conn -> Seq(WriteTurn)]
  /\ received \in [Conn -> Seq(Piece)]
  /\ current \in [Conn -> Nat]
  /\ sent \in [Conn -> Nat]
  /\ peer \in [Conn -> PeerState]
  /\ stream \in [Conn -> Seq(Sendable)]
  /\ reading \in [Conn -> {"none", "header", "body"}]

\* The places of the bodies in a stream.
BodiesIn(s) == {i \in DOMAIN s : s[i] = "body"}
Bodies(c)   == BodiesIn(stream[c])

\* The last answer is to be begun, is to be ended, or is written, its handler yet
\* to run; or nothing is being written.
Idle(c)   == writing[c] = <<>>
Begun(c)  == writing[c] = <<<<current[c], "begin">>>>
Ending(c) == writing[c] = <<<<current[c], "end">>>>
Over(c)   == writing[c] = <<<<current[c], "done">>>>
Quiet(c)  == Idle(c) \/ Over(c)

\* A peer that is there has got all that was written to it.
UpToDate(c) ==
  \/ Quiet(c)  /\ Answered(c) = current[c] /\ Len(received[c]) = 2 * Answered(c)
  \/ Begun(c)  /\ Answered(c) + 1 = current[c] /\ Len(received[c]) = 2 * Answered(c)
  \/ Ending(c) /\ Answered(c) + 1 = current[c] /\ Len(received[c]) = 2 * Answered(c) + 1

\* The state of one connection: one request at most, in the stream or being
\* answered; the answers so far are what the peer has received.
OneByOne(c) ==
  /\ current[c] <= sent[c]
  /\ \A i, j \in Bodies(c) : i = j
  /\ Bodies(c) # {} => current[c] < sent[c] /\ Quiet(c)
  /\ Quiet(c) \/ Begun(c) \/ Ending(c)
  /\ \A k \in DOMAIN received[c] : received[c][k] = PieceOf(k)
  /\ Len(received[c]) <= 2 * current[c]
  /\ peer[c] = "open" => UpToDate(c)
  /\ peer[c] \in {"none", "dropped"} => reading[c] = "none" /\ Idle(c)
  /\ peer[c] = "none" => received[c] = <<>> /\ current[c] = 0

AInv == AnswerTypes /\ \A c \in Conn : OneByOne(c)

-----------------------------------------------------------------------------
(* Pieces and their number.                                                *)

\* The pieces of the n-th answer come at 2n - 1 and 2n.
LEMMA PiecesAt ==
  ASSUME NEW n \in Nat
  PROVE  PieceOf(2 * n + 1) = <<n + 1, "begin">> /\ PieceOf(2 * n + 2) = <<n + 1, "end">>
<1>1. (2 * n + 1 + 1) \div 2 = n + 1 /\ (2 * n + 1) % 2 = 1
  OBVIOUS
<1>2. (2 * n + 2 + 1) \div 2 = n + 1 /\ (2 * n + 2) % 2 = 0
  OBVIOUS
<1> QED BY <1>1, <1>2 DEF PieceOf

\* The ends of answers among what a peer got.
Ends(pieces) == {k \in DOMAIN pieces : pieces[k][2] = "end"}

\* Adding one or two pieces at once is appending them.
LEMMA AddOneOrTwo ==
  ASSUME NEW s \in Seq(Piece), NEW p \in Piece, NEW q \in Piece
  PROVE  s \o <<p>> = Append(s, p) /\ s \o <<p, q>> = Append(Append(s, p), q)
<1>1. Len(s) \in Nat /\ DOMAIN s = 1..Len(s)
  OBVIOUS
<1>2. s \o <<p>> = Append(s, p)
  OBVIOUS
<1> DEFINE both  == s \o <<p, q>>
           twice == Append(Append(s, p), q)
<1>3. /\ both \in Seq(Piece) /\ Len(both) = Len(s) + 2
      /\ \A k \in 1..Len(s) : both[k] = s[k]
      /\ both[Len(s) + 1] = p /\ both[Len(s) + 2] = q
  OBVIOUS
<1>4. /\ twice \in Seq(Piece) /\ Len(twice) = Len(s) + 2
      /\ \A k \in 1..Len(s) : twice[k] = s[k]
      /\ twice[Len(s) + 1] = p /\ twice[Len(s) + 2] = q
  OBVIOUS
<1> HIDE DEF both, twice
<1>5. \A k \in 1..(Len(s) + 2) : k \in 1..Len(s) \/ k = Len(s) + 1 \/ k = Len(s) + 2
  BY <1>1
<1>6. \A k \in 1..(Len(s) + 2) : both[k] = twice[k]
  BY <1>3, <1>4, <1>5
<1>7. both = twice
  BY <1>3, <1>4, <1>6
<1> QED BY <1>2, <1>7 DEF both, twice

\* The answers that the peer has got whole.
LEMMA AnsweredIs == ASSUME NEW c \in Conn PROVE Answered(c) = Cardinality(Ends(received[c]))
BY DEF Answered, Ends

\* Answered counts one more when the end of an answer comes, and not before.
LEMMA CountEnds ==
  ASSUME NEW pieces \in Seq(Piece), NEW n \in Nat \ {0}
  PROVE  /\ Cardinality(Ends(pieces)) \in Nat
         /\ Cardinality(Ends(Append(pieces, <<n, "begin">>))) = Cardinality(Ends(pieces))
         /\ Cardinality(Ends(Append(pieces, <<n, "end">>))) = Cardinality(Ends(pieces)) + 1
<1>1. IsFiniteSet(Ends(pieces))
  <2>1. DOMAIN pieces = 1..Len(pieces) /\ Len(pieces) \in Nat
    OBVIOUS
  <2>2. IsFiniteSet(1..Len(pieces))
    BY <2>1, FS_Interval
  <2> QED BY <2>1, <2>2, FS_Subset DEF Ends
<1>2. Ends(Append(pieces, <<n, "begin">>)) = Ends(pieces)
  <2> DEFINE more == Append(pieces, <<n, "begin">>)
  <2>1. /\ DOMAIN more = 1..(Len(pieces) + 1) /\ more[Len(pieces) + 1] = <<n, "begin">>
        /\ \A k \in 1..Len(pieces) : more[k] = pieces[k]
        /\ DOMAIN pieces = 1..Len(pieces) /\ Len(pieces) \in Nat
    OBVIOUS
  <2> HIDE DEF more
  <2>2. \A k \in DOMAIN more : k \in 1..Len(pieces) \/ k = Len(pieces) + 1
    BY <2>1
  <2>3. more[Len(pieces) + 1][2] # "end"
    BY <2>1
  <2>4. \A k : k \in Ends(more) <=> k \in Ends(pieces)
    BY <2>1, <2>2, <2>3 DEF Ends
  <2> QED BY <2>4 DEF more
<1>3. /\ Ends(Append(pieces, <<n, "end">>)) = Ends(pieces) \union {Len(pieces) + 1}
      /\ Len(pieces) + 1 \notin Ends(pieces)
  <2> DEFINE more == Append(pieces, <<n, "end">>)
  <2>1. /\ DOMAIN more = 1..(Len(pieces) + 1) /\ more[Len(pieces) + 1] = <<n, "end">>
        /\ \A k \in 1..Len(pieces) : more[k] = pieces[k]
        /\ DOMAIN pieces = 1..Len(pieces) /\ Len(pieces) \in Nat
    OBVIOUS
  <2> HIDE DEF more
  <2>2. \A k \in DOMAIN more : k \in 1..Len(pieces) \/ k = Len(pieces) + 1
    BY <2>1
  <2>3. more[Len(pieces) + 1][2] = "end" /\ Len(pieces) + 1 \notin DOMAIN pieces
        /\ Len(pieces) + 1 \in DOMAIN more
    BY <2>1
  <2>4. \A k : k \in Ends(more) <=> k \in Ends(pieces) \union {Len(pieces) + 1}
    BY <2>1, <2>2, <2>3 DEF Ends
  <2>5. Len(pieces) + 1 \notin Ends(pieces)
    BY <2>3 DEF Ends
  <2> QED BY <2>4, <2>5 DEF more
<1> QED BY <1>1, <1>2, <1>3, FS_CardinalityType, FS_AddElement

\* Taking the first of a stream, and adding to it, do to its bodies what they say.
LEMMA TailBodies ==
  ASSUME NEW s \in Seq(Sendable), s # <<>>
  PROVE  /\ Tail(s) \in Seq(Sendable)
         /\ \A i \in BodiesIn(Tail(s)) : i + 1 \in BodiesIn(s) /\ i \in Nat \ {0}
         /\ Head(s) = "body" => 1 \in BodiesIn(s)
<1>1. /\ DOMAIN Tail(s) = 1..(Len(s) - 1) /\ DOMAIN s = 1..Len(s) /\ Len(s) \in Nat \ {0}
      /\ \A i \in 1..(Len(s) - 1) : Tail(s)[i] = s[i + 1]
      /\ Head(s) = s[1] /\ Tail(s) \in Seq(Sendable)
  OBVIOUS
<1> QED BY <1>1 DEF BodiesIn

\* What is sent adds its bodies at the end.
LEMMA MoreBodies ==
  ASSUME NEW s \in Seq(Sendable), NEW h \in Sendable \ {"body"}
  PROVE  /\ s \o <<h>> \in Seq(Sendable) /\ BodiesIn(s \o <<h>>) = BodiesIn(s)
         /\ s \o <<"body">> \in Seq(Sendable)
         /\ BodiesIn(s \o <<"body">>) = BodiesIn(s) \union {Len(s) + 1}
         /\ s \o <<h, "body">> \in Seq(Sendable)
         /\ BodiesIn(s \o <<h, "body">>) = BodiesIn(s) \union {Len(s) + 2}
<1>0. "body" \in Sendable /\ h \in Sendable
  BY DEF Sendable
<1>1. /\ DOMAIN s = 1..Len(s) /\ Len(s) \in Nat
  OBVIOUS
<1>2. ASSUME NEW e \in Sendable
      PROVE  /\ s \o <<e>> \in Seq(Sendable)
             /\ DOMAIN (s \o <<e>>) = 1..(Len(s) + 1)
             /\ \A i \in 1..Len(s) : (s \o <<e>>)[i] = s[i]
             /\ (s \o <<e>>)[Len(s) + 1] = e
  OBVIOUS
<1>3. /\ s \o <<h, "body">> \in Seq(Sendable)
      /\ DOMAIN (s \o <<h, "body">>) = 1..(Len(s) + 2)
      /\ \A i \in 1..Len(s) : (s \o <<h, "body">>)[i] = s[i]
      /\ (s \o <<h, "body">>)[Len(s) + 1] = h
      /\ (s \o <<h, "body">>)[Len(s) + 2] = "body"
  BY <1>0
<1>4. \A i \in 1..(Len(s) + 1) : i \in 1..Len(s) \/ i = Len(s) + 1
  BY <1>1
<1>5. \A i \in 1..(Len(s) + 2) : i \in 1..Len(s) \/ i = Len(s) + 1 \/ i = Len(s) + 2
  BY <1>1
<1>6. /\ 1..Len(s) \subseteq 1..(Len(s) + 1) /\ 1..Len(s) \subseteq 1..(Len(s) + 2)
      /\ Len(s) + 1 \in 1..(Len(s) + 1) /\ Len(s) + 2 \in 1..(Len(s) + 2)
  BY <1>1
<1>7. s \o <<h>> \in Seq(Sendable) /\ s \o <<"body">> \in Seq(Sendable)
  BY <1>0, <1>2
<1>8. BodiesIn(s \o <<h>>) = BodiesIn(s)
  BY <1>0, <1>1, <1>2, <1>4, <1>6 DEF BodiesIn
<1>9. BodiesIn(s \o <<"body">>) = BodiesIn(s) \union {Len(s) + 1}
  BY <1>0, <1>1, <1>2, <1>4, <1>6 DEF BodiesIn
<1>10. BodiesIn(s \o <<h, "body">>) = BodiesIn(s) \union {Len(s) + 2}
  BY <1>1, <1>3, <1>5, <1>6 DEF BodiesIn
<1> QED BY <1>3, <1>7, <1>8, <1>9, <1>10

\* The number of answers that a peer has got is one.
LEMMA AnsweredNat == ASSUME AInv, NEW c \in Conn PROVE Answered(c) \in Nat
<1>1. 1 \in Nat \ {0} /\ received[c] \in Seq(Piece)
  BY DEF AInv, AnswerTypes
<1>2. Cardinality(Ends(received[c])) \in Nat
  BY <1>1, CountEnds
<1> QED BY <1>2, AnsweredIs

-----------------------------------------------------------------------------
(* Steps.                                                                  *)

\* What no step touches stays as it was.
LEMMA Untouched ==
  ASSUME NEW c \in Conn, OneByOne(c),
         writing'[c] = writing[c], received'[c] = received[c], current'[c] = current[c],
         sent'[c] = sent[c], stream'[c] = stream[c], peer'[c] = peer[c],
         reading'[c] # "none" => reading[c] # "none"
  PROVE  OneByOne(c)'
BY DEF OneByOne, Bodies, Idle, Over, Quiet, Begun, Ending, UpToDate, Answered

\* A connection arrives.
LEMMA AcceptInOrder == ASSUME AInv, NEW c \in Conn, Accept(c) PROVE AInv'
<1>1. /\ peer[c] = "none" /\ peer' = [peer EXCEPT ![c] = "open"]
      /\ reading' = [reading EXCEPT ![c] = "header"]
      /\ UNCHANGED <<writing, received, current, sent, stream>>
  BY DEF Accept
<1>2. AnswerTypes'
  BY <1>1 DEF AInv, AnswerTypes, PeerState
<1>3. \A q \in Conn : q # c => peer'[q] = peer[q] /\ reading'[q] = reading[q]
  BY <1>1 DEF AInv, AnswerTypes
<1>4. peer'[c] = "open"
  BY <1>1 DEF AInv, AnswerTypes
<1>5. Answered(c) = 0
  <2>1. received[c] = <<>>
    BY <1>1 DEF AInv, OneByOne
  <2> QED BY <2>1, FS_EmptySet DEF Answered
<1>6. OneByOne(c)'
  <2>1. OneByOne(c) /\ received[c] = <<>> /\ Idle(c) /\ current[c] = 0
    BY <1>1 DEF AInv, OneByOne
  <2>2. UpToDate(c)'
    BY <1>1, <1>5, <2>1 DEF UpToDate, Idle, Quiet, Answered
  <2> QED BY <1>1, <1>4, <2>1, <2>2 DEF OneByOne, Bodies, Idle, Over, Quiet, Begun, Ending
<1> QED BY <1>1, <1>2, <1>3, <1>6, Untouched DEF AInv

\* A header is read: there are the same bodies.
LEMMA ReadHeaderInOrder == ASSUME AInv, NEW c \in Conn, ReadHeader(c) PROVE AInv'
<1>1. /\ stream' = [stream EXCEPT ![c] = Tail(stream[c])] /\ stream[c] # <<>>
      /\ reading[c] # "none" /\ reading' = [reading EXCEPT ![c] = "body"]
      /\ UNCHANGED <<writing, received, current, sent, peer>>
  BY DEF ReadHeader, Consume, Arrived, AInv, AnswerTypes
<1>2. stream[c] \in Seq(Sendable)
  BY DEF AInv, AnswerTypes
<1>3. /\ stream'[c] = Tail(stream[c]) /\ \A q \in Conn : q # c => stream'[q] = stream[q]
      /\ \A q \in Conn : reading'[q] # "none" => reading[q] # "none"
  BY <1>1 DEF AInv, AnswerTypes
<1>4. AnswerTypes'
  BY <1>1, <1>2, TailBodies DEF AInv, AnswerTypes
<1>5. OneByOne(c)'
  <2>1. OneByOne(c)
    BY DEF AInv
  <2>2. \A i \in Bodies(c)' : i + 1 \in Bodies(c) /\ i \in Nat \ {0}
    BY <1>1, <1>2, <1>3, TailBodies DEF Bodies
  <2>3. \A i, j \in Bodies(c)' : i = j
    BY <2>1, <2>2 DEF OneByOne
  <2>4. Bodies(c)' # {} => Bodies(c) # {}
    BY <2>2
  <2> QED BY <1>1, <2>1, <2>3, <2>4 DEF OneByOne, Idle, Over, Quiet, Begun, Ending, UpToDate, Answered
<1> QED BY <1>1, <1>3, <1>4, <1>5, Untouched DEF AInv

\* A body is read: it was the only one, and its answer is begun.
LEMMA ReadBodyInOrder == ASSUME AInv, NEW c \in Conn, ReadBody(c) PROVE AInv'
<1>1. /\ stream' = [stream EXCEPT ![c] = Tail(stream[c])]
      /\ stream[c] # <<>> /\ Head(stream[c]) = "body"
      /\ current' = [current EXCEPT ![c] = current[c] + 1]
      /\ writing' = [writing EXCEPT ![c] = Append(writing[c], <<current'[c], "begin">>)]
      /\ reading[c] # "none" /\ reading' = [reading EXCEPT ![c] = "header"]
      /\ UNCHANGED <<received, sent, peer>> /\ ~Completed(c)
  BY DEF ReadBody, Consume, Arrived, AInv, AnswerTypes
<1>2. stream[c] \in Seq(Sendable) /\ current[c] \in Nat /\ sent[c] \in Nat
  BY DEF AInv, AnswerTypes
<1>3. /\ stream'[c] = Tail(stream[c]) /\ \A q \in Conn : q # c => stream'[q] = stream[q]
      /\ current'[c] = current[c] + 1 /\ \A q \in Conn : q # c => current'[q] = current[q]
      /\ writing'[c] = Append(writing[c], <<current'[c], "begin">>)
      /\ \A q \in Conn : q # c => writing'[q] = writing[q]
      /\ \A q \in Conn : reading'[q] # "none" => reading[q] # "none"
  BY <1>1 DEF AInv, AnswerTypes
<1>4. /\ OneByOne(c) /\ 1 \in Bodies(c) /\ current[c] < sent[c] /\ writing[c] = <<>>
  <2>1. OneByOne(c) /\ 1 \in Bodies(c)
    BY <1>1, <1>2, TailBodies DEF AInv, Bodies
  <2>2. current[c] < sent[c] /\ Quiet(c)
    BY <2>1 DEF OneByOne
  <2>3. ~Over(c)
    BY <1>1 DEF Over, Completed
  <2> QED BY <2>1, <2>2, <2>3 DEF Quiet, Idle
<1>5. writing'[c] = <<<<current'[c], "begin">>>>
  BY <1>3, <1>4
<1>6. AnswerTypes'
  <2>1. <<current'[c], "begin">> \in WriteTurn
    BY <1>2, <1>3 DEF WriteTurn
  <2>2. writing'[c] \in Seq(WriteTurn)
    BY <1>5, <2>1
  <2>3. writing' \in [Conn -> Seq(WriteTurn)]
    BY <1>1, <1>3, <2>2 DEF AInv, AnswerTypes
  <2> QED BY SMTT(30), <1>1, <1>2, <2>3, TailBodies DEF AInv, AnswerTypes
<1>7. OneByOne(c)'
  <2>1. Bodies(c)' = {}
    <3>1. \A i \in Bodies(c)' : i + 1 \in Bodies(c) /\ i \in Nat \ {0}
      BY <1>1, <1>2, <1>3, TailBodies DEF Bodies
    <3> QED BY <3>1, <1>4 DEF OneByOne
  <2>2. Begun(c)'
    BY <1>5 DEF Begun
  <2>3. peer[c] \notin {"none", "dropped"}
    BY <1>1, <1>4 DEF OneByOne
  <2>4. peer[c] = "open" => UpToDate(c)'
    <3>1. peer[c] = "open" => Answered(c) = current[c] /\ Len(received[c]) = 2 * Answered(c)
      BY <1>4 DEF OneByOne, UpToDate, Begun, Ending
    <3>2. Answered(c)' = Answered(c)
      BY <1>1 DEF Answered
    <3> QED BY <3>1, <3>2, <2>2, <1>1, <1>2, <1>3 DEF UpToDate
  <2> QED BY SMTT(30), <1>1, <1>2, <1>3, <1>4, <2>1, <2>2, <2>3, <2>4 DEF OneByOne
<1> QED BY <1>1, <1>3, <1>6, <1>7, Untouched DEF AInv

\* A lost connection, and those of the same id, write nothing any more.
LEMMA LoseInOrder == ASSUME AInv, NEW c \in Conn, Lose(c) PROVE AInv'
<1> DEFINE gone == Erased(protoId[c])
<1>1. /\ writing' = [q \in Conn |-> IF q \in gone THEN <<>> ELSE writing[q]]
      /\ reading' = [q \in Conn |-> IF q \in gone THEN "none" ELSE reading[q]]
      /\ peer' = [q \in Conn |-> IF q \in gone /\ peer[q] = "open" THEN "dropped" ELSE peer[q]]
      /\ UNCHANGED <<current, stream, sent, received>>
  BY DEF Lose
<1> HIDE DEF gone
<1>2. AnswerTypes'
  <2>1. <<>> \in Seq(WriteTurn)
    OBVIOUS
  <2> QED BY <1>1, <2>1 DEF AInv, AnswerTypes, PeerState
<1>3. ASSUME NEW q \in Conn, q \in gone PROVE OneByOne(q)'
  <2>1. writing'[q] = <<>> /\ reading'[q] = "none" /\ peer'[q] # "open"
    BY <1>1, <1>3
  <2>2. peer'[q] = "none" => peer[q] = "none"
    BY <1>1
  <2> QED BY <1>1, <2>1, <2>2 DEF AInv, OneByOne, Bodies, Idle, Quiet
<1>4. ASSUME NEW q \in Conn, q \notin gone PROVE OneByOne(q)'
  <2>1. writing'[q] = writing[q] /\ reading'[q] = reading[q] /\ peer'[q] = peer[q]
    BY <1>1, <1>4
  <2> QED BY <1>1, <2>1, Untouched DEF AInv
<1> QED BY <1>2, <1>3, <1>4 DEF AInv

\* The outstanding write is that of the last answer.
LEMMA WritingLast ==
  ASSUME AInv, NEW c \in Conn, writing[c] # <<>>
  PROVE  /\ ~Idle(c) /\ Head(writing[c])[1] = current[c] /\ Tail(writing[c]) = <<>>
         /\ current[c] \in Nat \ {0}
         /\ Begun(c)  => Head(writing[c]) = <<current[c], "begin">> /\ ~Quiet(c) /\ ~Ending(c)
         /\ Ending(c) => Head(writing[c]) = <<current[c], "end">> /\ ~Quiet(c) /\ ~Begun(c)
         /\ Over(c) <=> Completed(c)
         /\ Completed(c) \/ Begun(c) \/ Ending(c)
<1>1. PICK turn \in {"begin", "end", "done"} : writing[c] = <<<<current[c], turn>>>>
  BY DEF AInv, OneByOne, Quiet, Idle, Begun, Ending, Over
<1>2. Head(writing[c]) = <<current[c], turn>> /\ Tail(writing[c]) = <<>>
  BY <1>1
<1>3. current[c] \in Nat \ {0}
  <2>1. writing[c] \in Seq(WriteTurn)
    BY DEF AInv, AnswerTypes
  <2>2. writing[c][1] \in WriteTurn
    BY <1>1, <2>1
  <2>3. writing[c][1][1] = current[c]
    BY <1>1
  <2> QED BY <2>2, <2>3 DEF WriteTurn
<1>4. ASSUME NEW other \in {"begin", "end", "done"}
      PROVE  writing[c] = <<<<current[c], other>>>> <=> other = turn
  BY <1>1
<1>5. /\ Begun(c) <=> turn = "begin"
      /\ Ending(c) <=> turn = "end"
      /\ Over(c) <=> turn = "done"
  BY <1>4 DEF Begun, Ending, Over
<1>6. Completed(c) <=> turn = "done"
  BY <1>2 DEF Completed
<1>7. ~Idle(c)
  BY DEF Idle
<1> QED BY <1>2, <1>3, <1>5, <1>6, <1>7 DEF Quiet

\* What a peer that is there is given comes in its place.
LEMMA NextPieces ==
  ASSUME AInv, NEW c \in Conn, peer[c] = "open"
  PROVE  LET n == current[c]
             began == Append(received[c], <<n, "begin">>)
             ended == Append(received[c], <<n, "end">>)
             whole == Append(began, <<n, "end">>)
         IN  /\ Begun(c)  => /\ \A k \in DOMAIN began : began[k] = PieceOf(k)
                             /\ Len(began) = 2 * Answered(c) + 1
                             /\ Cardinality(Ends(began)) = Answered(c)
                             /\ \A k \in DOMAIN whole : whole[k] = PieceOf(k)
                             /\ Len(whole) = 2 * n
                             /\ Cardinality(Ends(whole)) = n
                             /\ began \in Seq(Piece) /\ whole \in Seq(Piece)
             /\ Ending(c) => /\ \A k \in DOMAIN ended : ended[k] = PieceOf(k)
                             /\ Len(ended) = 2 * n
                             /\ Cardinality(Ends(ended)) = n
                             /\ ended \in Seq(Piece)
<1> DEFINE n == current[c]
           a == Answered(c)
           began == Append(received[c], <<n, "begin">>)
           ended == Append(received[c], <<n, "end">>)
           whole == Append(began, <<n, "end">>)
<1>1. OneByOne(c) /\ UpToDate(c) /\ received[c] \in Seq(Piece)
  BY DEF AInv, OneByOne, AnswerTypes
<1>2. \A k \in DOMAIN received[c] : received[c][k] = PieceOf(k)
  BY <1>1 DEF OneByOne
<1>3. a = Cardinality(Ends(received[c])) /\ a \in Nat
  BY AnsweredIs, AnsweredNat
<1>4. ASSUME NEW pieces \in Seq(Piece), NEW p \in Piece,
             \A k \in DOMAIN pieces : pieces[k] = PieceOf(k), p = PieceOf(Len(pieces) + 1)
      PROVE  /\ \A k \in DOMAIN Append(pieces, p) : Append(pieces, p)[k] = PieceOf(k)
             /\ Len(Append(pieces, p)) = Len(pieces) + 1 /\ Append(pieces, p) \in Seq(Piece)
  BY <1>4
<1>5. CASE Begun(c)
  <2>0. writing[c] # <<>>
    BY <1>5 DEF Begun
  <2>1. ~Ending(c) /\ ~Quiet(c) /\ n \in Nat \ {0}
    BY <1>5, <2>0, WritingLast
  <2>2. a + 1 = n /\ Len(received[c]) = 2 * a
    BY <1>1, <2>1 DEF UpToDate
  <2>3. <<n, "begin">> \in Piece /\ <<n, "end">> \in Piece
    BY <2>1 DEF Piece
  <2>4. <<n, "begin">> = PieceOf(2 * a + 1) /\ <<n, "end">> = PieceOf(2 * a + 2)
    BY <1>3, <2>2, PiecesAt
  <2> HIDE DEF n, a
  <2>5. /\ \A k \in DOMAIN began : began[k] = PieceOf(k)
        /\ Len(began) = 2 * a + 1 /\ began \in Seq(Piece)
    BY <1>1, <1>2, <1>4, <2>2, <2>3, <2>4
  <2>6. Cardinality(Ends(began)) = a
    BY <1>1, <1>3, <2>1, CountEnds
  <2> HIDE DEF began
  <2>7. Len(began) + 1 = 2 * a + 2
    BY <1>3, <2>5
  <2>8. /\ \A k \in DOMAIN whole : whole[k] = PieceOf(k)
        /\ Len(whole) = Len(began) + 1 /\ whole \in Seq(Piece)
    BY <1>4, <2>3, <2>4, <2>5, <2>7
  <2>9. Cardinality(Ends(whole)) = a + 1
    BY <2>1, <2>5, <2>6, CountEnds
  <2>10. Len(whole) = 2 * n
    BY <1>3, <2>2, <2>7, <2>8
  <2> QED BY <2>1, <2>2, <2>5, <2>6, <2>8, <2>9, <2>10 DEF began, n, a
<1>6. CASE Ending(c)
  <2>0. writing[c] # <<>>
    BY <1>6 DEF Ending
  <2>1. ~Begun(c) /\ ~Quiet(c) /\ n \in Nat \ {0}
    BY <1>6, <2>0, WritingLast
  <2>2. a + 1 = n /\ Len(received[c]) = 2 * a + 1
    BY <1>1, <2>1 DEF UpToDate
  <2>3. <<n, "end">> \in Piece
    BY <2>1 DEF Piece
  <2>4. <<n, "end">> = PieceOf(Len(received[c]) + 1)
    <3>1. <<n, "end">> = PieceOf(2 * a + 2)
      BY <1>3, <2>2, PiecesAt
    <3>2. Len(received[c]) + 1 = 2 * a + 2
      BY <1>3, <2>2
    <3> QED BY <3>1, <3>2
  <2> HIDE DEF n, a
  <2>5. /\ \A k \in DOMAIN ended : ended[k] = PieceOf(k)
        /\ Len(ended) = Len(received[c]) + 1 /\ ended \in Seq(Piece)
    BY <1>1, <1>2, <1>4, <2>3, <2>4
  <2>6. Cardinality(Ends(ended)) = a + 1
    BY <1>1, <1>3, <2>1, CountEnds
  <2>7. Len(ended) = 2 * n
    BY <1>3, <2>2, <2>5
  <2> QED BY <2>1, <2>2, <2>5, <2>6, <2>7 DEF n, a
<1> QED BY <1>1, <1>5, <1>6 DEF UpToDate

\* The handler of a write runs: nothing is left to write.
LEMMA DoneInOrder == ASSUME AInv, NEW c \in Conn, WriteDone(c) PROVE AInv'
<1>1. /\ writing[c] # <<>> /\ Over(c)
      /\ writing' = [writing EXCEPT ![c] = Tail(writing[c])]
      /\ UNCHANGED <<reading, received, current, peer, stream, sent>>
  <2>1. Completed(c) /\ writing[c] # <<>>
    BY DEF WriteDone, Completed
  <2> QED BY <2>1, WritingLast DEF WriteDone, netVars, AInv, AnswerTypes
<1>2. Tail(writing[c]) = <<>> /\ ~Begun(c) /\ ~Ending(c) /\ ~Idle(c)
  BY <1>1, WritingLast DEF Quiet
<1>3. writing'[c] = <<>> /\ \A q \in Conn : q # c => writing'[q] = writing[q]
  BY <1>1, <1>2 DEF AInv, AnswerTypes
<1>4. AnswerTypes'
  <2>1. <<>> \in Seq(WriteTurn)
    OBVIOUS
  <2> QED BY <1>1, <1>2, <2>1 DEF AInv, AnswerTypes
<1>5. OneByOne(c)'
  <2>1. OneByOne(c)
    BY DEF AInv
  <2>2. Idle(c)' /\ Quiet(c)' /\ Bodies(c)' = Bodies(c) /\ Answered(c)' = Answered(c)
    BY <1>1, <1>3 DEF Idle, Quiet, Bodies, Answered
  <2>3. UpToDate(c) => UpToDate(c)'
    BY <1>1, <1>2, <2>2 DEF UpToDate
  <2> QED BY <1>1, <2>1, <2>2, <2>3 DEF OneByOne
<1> QED BY <1>1, <1>3, <1>4, <1>5, Untouched DEF AInv

\* A write that goes on, is sent or fails is that of the last answer.
LEMMA SendInOrder ==
  ASSUME AInv, NEW c \in Conn, WriteSome(c) \/ WriteLast(c) \/ WriteFails(c) PROVE AInv'
<1>1. /\ writing[c] # <<>> /\ ~Completed(c) /\ UNCHANGED <<reading, current, peer, stream, sent>>
  BY DEF WriteSome, WriteLast, WriteFails, Completed, netVars
<1> DEFINE w == Head(writing[c])
           n == current[c]
           began == Append(received[c], <<n, "begin">>)
           ended == Append(received[c], <<n, "end">>)
           whole == Append(began, <<n, "end">>)
<1>2. /\ ~Quiet(c) /\ (Begun(c) \/ Ending(c)) /\ w[1] = n /\ Tail(writing[c]) = <<>> /\ n \in Nat \ {0}
      /\ Begun(c)  => w = <<n, "begin">>
      /\ Ending(c) => w = <<n, "end">>
  BY <1>1, WritingLast
<1>3. OneByOne(c) /\ Bodies(c) = {} /\ n <= sent[c] /\ sent[c] \in Nat /\ received[c] \in Seq(Piece)
  BY <1>2 DEF AInv, OneByOne, AnswerTypes
<1>4. <<n, "begin">> \in Piece /\ <<n, "end">> \in Piece
  BY <1>2 DEF Piece
<1>5. /\ received[c] \o <<<<n, "begin">>>> = began
      /\ received[c] \o <<<<n, "end">>>> = ended
      /\ received[c] \o <<<<n, "begin">>, <<n, "end">>>> = whole
  BY <1>3, <1>4, AddOneOrTwo
<1>6. Answered(c)' = Cardinality(Ends(received'[c]))
  BY DEF Answered, Ends
<1>7. /\ UNCHANGED <<current[c], sent[c], reading[c], peer[c]>> /\ Bodies(c)' = {}
  BY <1>1, <1>3 DEF Bodies
\* The peer, if it is there, gets the pieces, and others are left to write.
<1> DEFINE Gets(pieces, left) ==
             /\ writing' = [writing EXCEPT ![c] = left]
             /\ \/ peer[c] = "open" /\ received' = [received EXCEPT ![c] = pieces]
                \/ peer[c] # "open" /\ received' = received
<1>8. ASSUME NEW pieces \in Seq(Piece), NEW left \in Seq(WriteTurn), Gets(pieces, left),
             left \in {<<>>, <<<<n, "end">>>>, <<<<n, "done">>>>},
             peer[c] = "open" =>
               /\ \A k \in DOMAIN pieces : pieces[k] = PieceOf(k)
               /\ Len(pieces) <= 2 * n
               /\ \/ left = <<<<n, "done">>>> /\ Cardinality(Ends(pieces)) = n /\ Len(pieces) = 2 * n
                  \/ /\ left = <<<<n, "end">>>> /\ Cardinality(Ends(pieces)) + 1 = n
                     /\ Len(pieces) = 2 * Cardinality(Ends(pieces)) + 1
      PROVE  AInv'
  <2>1. /\ writing'[c] = left
        /\ \A q \in Conn : q # c => writing'[q] = writing[q] /\ received'[q] = received[q]
        /\ peer[c] = "open" => received'[c] = pieces
        /\ peer[c] # "open" => received'[c] = received[c]
    BY <1>8 DEF AInv, AnswerTypes
  <2>2. AnswerTypes'
    <3>1. writing' \in [Conn -> Seq(WriteTurn)] /\ received' \in [Conn -> Seq(Piece)]
      BY <1>8 DEF AInv, AnswerTypes
    <3> QED BY <1>1, <3>1 DEF AInv, AnswerTypes
  <2>3. Quiet(c)' \/ Ending(c)'
    BY <1>7, <1>8, <2>1 DEF Idle, Over, Quiet, Ending
  <2>4. /\ \A k \in DOMAIN received'[c] : received'[c][k] = PieceOf(k)
        /\ Len(received'[c]) <= 2 * n
    <3>1. CASE peer[c] = "open"
      BY <1>8, <2>1, <3>1
    <3>2. CASE peer[c] # "open"
      BY <1>3, <2>1, <3>2 DEF OneByOne
    <3> QED BY <3>1, <3>2
  <2>5. peer[c] = "open" => UpToDate(c)'
    <3> SUFFICES ASSUME peer[c] = "open" PROVE UpToDate(c)'
      OBVIOUS
    <3>1. received'[c] = pieces /\ writing'[c] = left /\ current'[c] = n
      BY <1>7, <2>1
    <3>2. Answered(c)' = Cardinality(Ends(pieces))
      BY <1>6, <3>1
    <3>3. CASE left = <<<<n, "done">>>> /\ Cardinality(Ends(pieces)) = n /\ Len(pieces) = 2 * n
      BY <3>1, <3>2, <3>3 DEF UpToDate, Quiet, Over
    <3>4. CASE /\ left = <<<<n, "end">>>> /\ Cardinality(Ends(pieces)) + 1 = n
               /\ Len(pieces) = 2 * Cardinality(Ends(pieces)) + 1
      BY <3>1, <3>2, <3>4 DEF UpToDate, Ending
    <3> QED BY <1>8, <3>3, <3>4
  <2>6. peer[c] \notin {"none", "dropped"}
    BY <1>2, <1>3 DEF OneByOne, Quiet
  <2>7. OneByOne(c)'
    BY <1>3, <1>7, <2>3, <2>4, <2>5, <2>6 DEF OneByOne
  <2> QED BY <1>1, <2>1, <2>2, <2>7, Untouched DEF AInv
<1>9. <<n, "end">> \in WriteTurn /\ <<n, "done">> \in WriteTurn
  BY <1>2 DEF WriteTurn
<1>10. CASE WriteSome(c)
  <2>1. w[2] = "begin"
    BY <1>10 DEF WriteSome
  <2>2. Begun(c) /\ w = <<n, "begin">>
    BY <1>2, <2>1
  <2>3. Append(Tail(writing[c]), <<w[1], "end">>) = <<<<n, "end">>>> /\ <<w>> = <<<<n, "begin">>>>
    <3>1. \A p : Append(<<>>, p) = <<p>>
      OBVIOUS
    <3> QED BY <1>2, <2>2, <3>1
  <2>4. Gets(began, <<<<n, "end">>>>)
    BY <1>5, <1>10, <2>3 DEF WriteSome, Deliver, AInv, AnswerTypes
  <2>5. began \in Seq(Piece) /\ <<<<n, "end">>>> \in Seq(WriteTurn)
    BY <1>3, <1>4, <1>9
  <2>6. peer[c] = "open" =>
               /\ \A k \in DOMAIN began : began[k] = PieceOf(k)
               /\ Len(began) <= 2 * n
               /\ Cardinality(Ends(began)) + 1 = n
               /\ Len(began) = 2 * Cardinality(Ends(began)) + 1
    <3> SUFFICES ASSUME peer[c] = "open"
                 PROVE  /\ \A k \in DOMAIN began : began[k] = PieceOf(k)
                        /\ Len(began) <= 2 * n
                        /\ Cardinality(Ends(began)) + 1 = n
                        /\ Len(began) = 2 * Cardinality(Ends(began)) + 1
      OBVIOUS
    <3>1. /\ \A k \in DOMAIN began : began[k] = PieceOf(k)
          /\ Len(began) = 2 * Answered(c) + 1
          /\ Cardinality(Ends(began)) = Answered(c)
      BY <2>2, NextPieces
    <3>2. Answered(c) + 1 = n
      BY <1>2, <1>3, <2>2 DEF OneByOne, UpToDate, Begun, Ending
    <3>4. Answered(c) \in Nat
      BY AnsweredNat
    <3> QED BY <3>1, <3>2, <3>4
  <2> HIDE DEF began, Gets
  <2> QED BY <1>8, <2>4, <2>5, <2>6
<1>11. CASE WriteLast(c)
  <2> DEFINE over == <<<<n, "done">>>>
  <2>0. /\ [writing[c] EXCEPT ![1] = <<w[1], "done">>] = over
        /\ over \in Seq(WriteTurn)
    <3>1. PICK turn : writing[c] = <<turn>>
      BY <1>2 DEF Begun, Ending
    <3>2. \A p : [<<turn>> EXCEPT ![1] = p] = <<p>>
      OBVIOUS
    <3> QED BY <1>2, <1>9, <3>1, <3>2
  <2>1. CASE Begun(c)
    <3>1. w = <<n, "begin">> /\ w[2] = "begin" /\ w[1] = n
      BY <1>2, <2>1
    <3>2. Gets(whole, over)
      BY <1>2, <1>5, <1>11, <2>0, <3>1 DEF WriteLast, Deliver, AInv, AnswerTypes
    <3>3. whole \in Seq(Piece)
      BY <1>3, <1>4
    <3>4. peer[c] = "open" => /\ \A k \in DOMAIN whole : whole[k] = PieceOf(k)
                              /\ Cardinality(Ends(whole)) = n /\ Len(whole) = 2 * n
      BY <2>1, NextPieces
    <3>5. 2 * n <= 2 * n
      BY <1>2
    <3>6. over \in {<<>>, <<<<n, "end">>>>, <<<<n, "done">>>>}
      OBVIOUS
    <3> HIDE DEF whole, Gets
    <3> QED BY <1>8, <2>0, <3>2, <3>3, <3>4, <3>5, <3>6
  <2>2. CASE Ending(c)
    <3>1. w = <<n, "end">> /\ w[2] # "begin"
      BY <1>2, <2>2
    <3>2. Gets(ended, over)
      BY <1>2, <1>5, <1>11, <2>0, <3>1 DEF WriteLast, Deliver, AInv, AnswerTypes
    <3>3. ended \in Seq(Piece)
      BY <1>3, <1>4
    <3>4. peer[c] = "open" => /\ \A k \in DOMAIN ended : ended[k] = PieceOf(k)
                              /\ Cardinality(Ends(ended)) = n /\ Len(ended) = 2 * n
      BY <2>2, NextPieces
    <3>5. 2 * n <= 2 * n
      BY <1>2
    <3>6. over \in {<<>>, <<<<n, "end">>>>, <<<<n, "done">>>>}
      OBVIOUS
    <3> HIDE DEF ended, Gets
    <3> QED BY <1>8, <2>0, <3>2, <3>3, <3>4, <3>5, <3>6
  <2> QED BY <1>2, <2>1, <2>2
<1>12. CASE WriteFails(c)
  <2>1. peer[c] # "open" /\ <<>> \in Seq(WriteTurn)
    BY <1>12 DEF WriteFails
  <2>2. Gets(received[c], <<>>)
    BY <1>2, <1>12, <2>1 DEF WriteFails
  <2> HIDE DEF Gets
  <2> QED BY <1>3, <1>8, <2>1, <2>2
<1> QED BY <1>10, <1>11, <1>12

\* So is one whose handler runs.
LEMMA WriteInOrder == ASSUME AInv, NEW c \in Conn, WriteStep(c) PROVE AInv'
BY DoneInOrder, SendInOrder DEF WriteStep

\* The steps that end the process, and those of the loop, write and read nothing.
LEMMA OthersInOrder ==
  ASSUME AInv, NEW c \in Conn,
         \/ ReadBadHeader(c) \/ LoseThrows(c) \/ Aborted(c) \/ AcceptFails \/ RunReturns
  PROVE  AInv'
<1>1. UNCHANGED <<writing, reading, received, current, sent, stream, peer>>
  BY DEF ReadBadHeader, LoseThrows, Aborted, AcceptFails, RunReturns, netVars
<1> QED BY <1>1, Untouched DEF AInv, AnswerTypes

\* A peer that leaves may leave the beginning of a request, which has no body.
LEMMA LeavingInOrder ==
  ASSUME AInv, NEW c \in Conn,
         \/ PeerResets(c)
         \/ \E how \in {"closed", "reset"} : PeerLeaves(c, how, <<>>) \/ PeerLeaves(c, how, <<"header">>)
  PROVE  AInv'
<1>1. stream[c] \in Seq(Sendable) /\ OneByOne(c)
  BY DEF AInv, AnswerTypes
<1>2. PICK how \in {"closed", "reset"}, rest \in {<<>>, <<"header">>} :
        /\ peer[c] \in {"open", "closed"}
        /\ peer' = [peer EXCEPT ![c] = how]
        /\ stream' = [stream EXCEPT ![c] = stream[c] \o rest]
        /\ UNCHANGED <<writing, reading, received, current, sent>>
  <2>1. CASE PeerResets(c)
    <3>1. stream[c] \o <<>> = stream[c]
      BY <1>1
    <3>2. stream = [stream EXCEPT ![c] = stream[c] \o <<>>]
      BY <3>1 DEF AInv, AnswerTypes
    <3> QED BY <2>1, <3>2 DEF PeerResets
  <2>2. CASE ~PeerResets(c)
    <3>1. PICK how \in {"closed", "reset"}, rest \in {<<>>, <<"header">>} : PeerLeaves(c, how, rest)
      BY <2>2
    <3>2. stream' = [stream EXCEPT ![c] = stream[c] \o rest]
      BY <3>1 DEF PeerLeaves
    <3> QED BY <3>1, <3>2 DEF PeerLeaves
  <2> QED BY <2>1, <2>2
<1>3. stream[c] \o rest \in Seq(Sendable) /\ BodiesIn(stream[c] \o rest) = BodiesIn(stream[c])
  <2>1. CASE rest = <<>>
    <3>1. stream[c] \o <<>> = stream[c]
      BY <1>1
    <3> QED BY <1>1, <2>1, <3>1
  <2>2. CASE rest = <<"header">>
    <3>1. "header" \in Sendable \ {"body"}
      BY DEF Sendable
    <3> QED BY <1>1, <2>2, <3>1, MoreBodies
  <2> QED BY <2>1, <2>2
<1>4. /\ peer'[c] = how /\ stream'[c] = stream[c] \o rest
      /\ \A q \in Conn : q # c => peer'[q] = peer[q] /\ stream'[q] = stream[q]
  BY <1>2 DEF AInv, AnswerTypes
<1>5. AnswerTypes'
  BY <1>2, <1>3 DEF AInv, AnswerTypes, PeerState
<1>6. Bodies(c)' = Bodies(c)
  BY <1>3, <1>4 DEF Bodies
<1>7. OneByOne(c)'
  BY <1>1, <1>2, <1>4, <1>6 DEF OneByOne, Idle, Over, Quiet, Begun, Ending
<1> QED BY <1>2, <1>4, <1>5, <1>7, Untouched DEF AInv

\* The peer has got the answers to all it has asked.
Awaited(c) == sent[c] <= Answered(c)

\* A peer that awaits its answers sends when nothing of its own is under way.
LEMMA SendingInOrder ==
  ASSUME AInv, NEW c \in Conn, NEW header \in Sendable \ {"body"}, PeerSends(c, header),
         Awaited(c)
  PROVE  AInv'
<1>1. /\ peer[c] = "open"
      /\ sent' = [sent EXCEPT ![c] = sent[c] + 1]
      /\ stream' = [stream EXCEPT ![c] = stream[c] \o <<header, "body">>]
      /\ UNCHANGED <<writing, reading, received, current, peer>>
  BY DEF PeerSends, AInv, AnswerTypes
<1>2. /\ OneByOne(c) /\ UpToDate(c) /\ stream[c] \in Seq(Sendable)
      /\ sent[c] \in Nat /\ current[c] \in Nat
  BY <1>1 DEF AInv, OneByOne, AnswerTypes
<1>3. Quiet(c) /\ Answered(c) = current[c] /\ sent[c] = current[c] /\ Bodies(c) = {}
  <2>1. Answered(c) = current[c] \/ Answered(c) + 1 = current[c]
    BY <1>2 DEF UpToDate
  <2>2. Answered(c) \in Nat
    BY AnsweredNat
  <2>3. current[c] <= sent[c]
    BY <1>2 DEF OneByOne
  <2>4. sent[c] = current[c] /\ Answered(c) = current[c]
    BY <1>2, <2>1, <2>2, <2>3 DEF Awaited
  <2>5. Quiet(c)
    BY <1>2, <2>2, <2>4 DEF UpToDate
  <2>6. Bodies(c) = {}
    BY <1>2, <2>4 DEF OneByOne
  <2> QED BY <2>4, <2>5, <2>6
<1>5. /\ stream[c] \o <<header, "body">> \in Seq(Sendable)
      /\ BodiesIn(stream[c] \o <<header, "body">>) = BodiesIn(stream[c]) \union {Len(stream[c]) + 2}
  BY <1>2, MoreBodies
<1>6. /\ sent'[c] = sent[c] + 1 /\ stream'[c] = stream[c] \o <<header, "body">>
      /\ \A q \in Conn : q # c => sent'[q] = sent[q] /\ stream'[q] = stream[q]
  BY <1>1 DEF AInv, AnswerTypes
<1>7. AnswerTypes'
  BY <1>1, <1>2, <1>5 DEF AInv, AnswerTypes
<1>8. Bodies(c)' = {Len(stream[c]) + 2}
  BY <1>3, <1>5, <1>6 DEF Bodies
<1>9. OneByOne(c)'
  <2>1. Quiet(c)' /\ UpToDate(c)' /\ Len(received[c]) \in Nat
    BY <1>1, <1>2, <1>3 DEF Idle, Over, Quiet, Begun, Ending, UpToDate, Answered, AInv, AnswerTypes
  <2>2. /\ \A k \in DOMAIN received[c] : received[c][k] = PieceOf(k)
        /\ Len(received[c]) <= 2 * sent[c]
    BY <1>2 DEF OneByOne
  <2>3. Len(received[c]) <= 2 * (sent[c] + 1)
    BY <1>2, <2>1, <2>2
  <2> QED BY <1>1, <1>2, <1>3, <1>6, <1>8, <2>1, <2>2, <2>3 DEF OneByOne
<1> QED BY <1>1, <1>6, <1>7, <1>9, Untouched DEF AInv

-----------------------------------------------------------------------------

\* The empty server satisfies the invariant.
LEMMA InitInOrder == Init => AInv
<1> SUFFICES ASSUME Init PROVE AInv
  OBVIOUS
<1>1. AnswerTypes
  BY DEF Init, AnswerTypes, PeerState
<1>2. ASSUME NEW c \in Conn PROVE OneByOne(c)
  <2>1. Bodies(c) = {}
    BY DEF Init, Bodies, BodiesIn
  <2> QED BY <2>1 DEF Init, OneByOne, Idle, Quiet
<1> QED BY <1>1, <1>2 DEF AInv

-----------------------------------------------------------------------------
(***************************************************************************)
(* What the peers get if they send ahead: pieces of several answers in any *)
(* mixture, but each piece once, and the beginnings in order.              *)
(***************************************************************************)

Has(s, p) == \E k \in DOMAIN s : s[k] = p

\* The answers that must have begun before a piece.
Before(p) == 1..(IF p[2] = "begin" THEN p[1] - 1 ELSE p[1])

\* The pieces received, when n requests have been processed.
Once(pieces, n) ==
  /\ \A k \in DOMAIN pieces : pieces[k][1] <= n
  /\ \A k \in DOMAIN pieces : \A m \in Before(pieces[k]) :
       \E i \in 1..(k - 1) : pieces[i] = <<m, "begin">>
  /\ \A i, k \in DOMAIN pieces : pieces[i] = pieces[k] => i = k

\* The writes outstanding, and the pieces that have come of the n answers so far:
\* one write for each answer, those to be begun in order and behind all that have
\* been begun, and what is to come has not come.
InLine(turns) ==
  \A i, j \in DOMAIN turns :
    turns[j][2] = "begin" /\ i # j /\ (turns[i][2] # "begin" \/ i < j) => turns[i][1] < turns[j][1]
NotYet(turns, pieces) ==
  \A i \in DOMAIN turns, k \in DOMAIN pieces :
    turns[i][1] = pieces[k][1] =>
      turns[i][2] = "done" \/ (pieces[k][2] = "begin" /\ turns[i][2] # "begin")

ToCome(turns, pieces, n) ==
  /\ \A i \in DOMAIN turns : turns[i][1] <= n
  /\ \A i, j \in DOMAIN turns : turns[i][1] = turns[j][1] => i = j
  /\ InLine(turns)
  /\ \A m \in 1..n : Has(turns, <<m, "begin">>) \/ Has(pieces, <<m, "begin">>)
  /\ NotYet(turns, pieces)

\* A piece that has not come comes when those before it have.
LEMMA OneMore ==
  ASSUME NEW n \in Nat, NEW pieces \in Seq(Piece), Once(pieces, n),
         NEW p \in Piece, p[1] <= n, ~Has(pieces, p),
         \A m \in Before(p) : Has(pieces, <<m, "begin">>)
  PROVE  Once(Append(pieces, p), n)
<1> DEFINE more == Append(pieces, p)
<1>1. /\ DOMAIN pieces = 1..Len(pieces) /\ Len(pieces) \in Nat
      /\ DOMAIN more = 1..(Len(pieces) + 1) /\ more[Len(pieces) + 1] = p
      /\ \A k \in 1..Len(pieces) : more[k] = pieces[k]
  OBVIOUS
<1> HIDE DEF more
<1>2. \A k \in DOMAIN more : k \in DOMAIN pieces \/ k = Len(pieces) + 1
  BY <1>1
<1>3. \A k \in DOMAIN more : more[k][1] <= n
  BY <1>1, <1>2 DEF Once
<1>4. ASSUME NEW k \in DOMAIN more, NEW m \in Before(more[k])
      PROVE  \E i \in 1..(k - 1) : more[i] = <<m, "begin">>
  <2>1. CASE k \in DOMAIN pieces
    <3>1. PICK i \in 1..(k - 1) : pieces[i] = <<m, "begin">>
      BY <1>1, <1>4, <2>1 DEF Once
    <3>2. i \in 1..Len(pieces)
      BY <1>1, <2>1
    <3> QED BY <1>1, <3>1, <3>2
  <2>2. CASE k = Len(pieces) + 1
    <3>1. PICK i \in DOMAIN pieces : pieces[i] = <<m, "begin">>
      BY <1>1, <1>4, <2>2 DEF Has
    <3>2. i \in 1..(k - 1) /\ more[i] = pieces[i]
      BY <1>1, <2>2
    <3> QED BY <3>1, <3>2
  <2> QED BY <1>2, <2>1, <2>2
<1>5. ASSUME NEW i \in DOMAIN more, NEW k \in DOMAIN more, more[i] = more[k] PROVE i = k
  BY <1>1, <1>2, <1>5 DEF Once, Has
<1> QED BY <1>3, <1>4, <1>5 DEF Once, more

\* What more of a sequence has.
LEMMA HasMore ==
  ASSUME NEW S, NEW s \in Seq(S), NEW p \in S
  PROVE  \A q : Has(Append(s, p), q) <=> Has(s, q) \/ q = p
<1> DEFINE more == Append(s, p)
<1>1. /\ DOMAIN s = 1..Len(s) /\ Len(s) \in Nat
      /\ DOMAIN more = 1..(Len(s) + 1) /\ more[Len(s) + 1] = p
      /\ \A k \in 1..Len(s) : more[k] = s[k]
  OBVIOUS
<1> HIDE DEF more
<1>2. \A k \in DOMAIN more : k \in DOMAIN s \/ k = Len(s) + 1
  BY <1>1
<1>3. Len(s) + 1 \in DOMAIN more /\ DOMAIN s \subseteq DOMAIN more
  BY <1>1
<1> QED BY <1>1, <1>2, <1>3 DEF Has, more

\* The first write sends the beginning of its answer.
LEMMA BeginningComes ==
  ASSUME NEW n \in Nat, NEW turns \in Seq(WriteTurn), NEW pieces \in Seq(Piece),
         Once(pieces, n), ToCome(turns, pieces, n),
         turns # <<>>, Head(turns)[2] = "begin"
  PROVE  LET a == Head(turns)[1] IN
         /\ Append(pieces, <<a, "begin">>) \in Seq(Piece)
         /\ Once(Append(pieces, <<a, "begin">>), n)
         /\ [turns EXCEPT ![1] = <<a, "end">>] \in Seq(WriteTurn)
         /\ ToCome([turns EXCEPT ![1] = <<a, "end">>], Append(pieces, <<a, "begin">>), n)
<1> DEFINE a == Head(turns)[1]
           p == <<a, "begin">>
           begun == <<a, "end">>
           more == Append(pieces, p)
           left == [turns EXCEPT ![1] = begun]
<1>1. /\ DOMAIN turns = 1..Len(turns) /\ Len(turns) \in Nat \ {0} /\ 1 \in DOMAIN turns
      /\ Head(turns) = turns[1] /\ turns[1] \in WriteTurn
      /\ \A i \in DOMAIN turns : turns[i] \in WriteTurn
  OBVIOUS
<1>2. turns[1] = p /\ a \in Nat \ {0} /\ turns[1][1] = a /\ turns[1][2] = "begin"
  BY <1>1 DEF WriteTurn
<1> HIDE DEF a
<1>3. /\ p \in Piece /\ p[1] = a /\ p[2] = "begin"
      /\ begun \in WriteTurn /\ begun[1] = a /\ begun[2] = "end"
  BY <1>2 DEF Piece, WriteTurn
<1>4. \A i \in DOMAIN turns : i = 1 \/ 1 < i
  BY <1>1
<1>5. a <= n /\ ~Has(pieces, p)
  BY <1>1, <1>2, <1>3 DEF ToCome, NotYet, Has
<1>6. ASSUME NEW m \in Before(p) PROVE Has(pieces, <<m, "begin">>)
  <2>1. m \in 1..n /\ m < a
    BY <1>2, <1>3, <1>5, <1>6 DEF Before
  <2>2. ASSUME NEW i \in DOMAIN turns, turns[i] = <<m, "begin">> PROVE FALSE
    <3>1. i # 1
      BY <1>2, <2>1, <2>2
    <3>2. turns[i][2] = "begin" /\ turns[i][1] = m /\ 1 < i
      BY <1>4, <2>2, <3>1
    <3>3. turns[1][1] < turns[i][1]
      BY <1>1, <3>1, <3>2 DEF ToCome, InLine
    <3> QED BY <1>2, <2>1, <3>2, <3>3
  <2> QED BY <2>1, <2>2 DEF ToCome, Has
<1> HIDE DEF p, begun
<1>7. more \in Seq(Piece) /\ left \in Seq(WriteTurn)
  BY <1>1, <1>3
<1>8. Once(more, n)
  BY <1>3, <1>5, <1>6, OneMore
<1>9. /\ DOMAIN left = DOMAIN turns /\ left[1] = begun
      /\ \A i \in DOMAIN turns : i # 1 => left[i] = turns[i]
      /\ \A i \in DOMAIN turns : left[i][1] = turns[i][1]
  BY <1>1, <1>2, <1>3
<1>10. /\ DOMAIN pieces = 1..Len(pieces) /\ Len(pieces) \in Nat
       /\ DOMAIN more = 1..(Len(pieces) + 1) /\ more[Len(pieces) + 1] = p
       /\ \A k \in DOMAIN pieces : more[k] = pieces[k]
  BY <1>3
<1> HIDE DEF left, more
<1>11. ToCome(left, more, n)
  <2>1. \A i \in DOMAIN left : left[i][1] <= n
    BY <1>9 DEF ToCome
  <2>2. \A i, j \in DOMAIN left : left[i][1] = left[j][1] => i = j
    BY <1>9 DEF ToCome
  <2>3. InLine(left)
    <3> SUFFICES ASSUME NEW i \in DOMAIN left, NEW j \in DOMAIN left,
                        left[j][2] = "begin", i # j, left[i][2] # "begin" \/ i < j
                 PROVE  left[i][1] < left[j][1]
      BY DEF InLine
    <3>1. j # 1 /\ left[j] = turns[j]
      BY <1>3, <1>9
    <3>2. turns[i][2] # "begin" \/ i < j
      BY <1>4, <1>9, <3>1
    <3>3. turns[i][1] < turns[j][1]
      BY <1>9, <3>1, <3>2 DEF ToCome, InLine
    <3> QED BY <1>9, <3>3
  <2>4. \A m \in 1..n : Has(left, <<m, "begin">>) \/ Has(more, <<m, "begin">>)
    <3> SUFFICES ASSUME NEW m \in 1..n, ~Has(more, <<m, "begin">>)
                 PROVE  Has(left, <<m, "begin">>)
      OBVIOUS
    <3>1. ~Has(pieces, <<m, "begin">>) /\ <<m, "begin">> # p
      BY <1>3, HasMore DEF more
    <3>2. PICK i \in DOMAIN turns : turns[i] = <<m, "begin">>
      BY <3>1 DEF ToCome, Has
    <3>3. left[i] = <<m, "begin">>
      BY <1>2, <1>9, <3>1, <3>2 DEF p
    <3> QED BY <1>9, <3>3 DEF Has
  <2>5. NotYet(left, more)
    <3> SUFFICES ASSUME NEW i \in DOMAIN left, NEW k \in DOMAIN more, left[i][1] = more[k][1]
                 PROVE  left[i][2] = "done" \/ (more[k][2] = "begin" /\ left[i][2] # "begin")
      BY DEF NotYet
    <3>1. CASE k \in DOMAIN pieces
      <4>1. turns[i][1] = pieces[k][1]
        BY <1>9, <1>10, <3>1
      <4>2. turns[i][2] = "done" \/ (pieces[k][2] = "begin" /\ turns[i][2] # "begin")
        BY <1>9, <3>1, <4>1 DEF ToCome, NotYet
      <4>3. i # 1
        BY <1>2, <4>2
      <4> QED BY <1>9, <1>10, <3>1, <4>2, <4>3
    <3>2. CASE k = Len(pieces) + 1
      <4>1. turns[i][1] = turns[1][1]
        BY <1>2, <1>3, <1>9, <1>10, <3>2
      <4>2. i = 1
        BY <1>1, <1>9, <4>1 DEF ToCome
      <4> QED BY <1>3, <1>9, <1>10, <3>2, <4>2
    <3> QED BY <1>10, <3>1, <3>2
  <2> QED BY <2>1, <2>2, <2>3, <2>4, <2>5 DEF ToCome
<1> QED BY <1>7, <1>8, <1>11 DEF a, p, begun, more, left

\* The first write sends the end of its answer.
LEMMA EndComes ==
  ASSUME NEW n \in Nat, NEW turns \in Seq(WriteTurn), NEW pieces \in Seq(Piece),
         Once(pieces, n), ToCome(turns, pieces, n),
         turns # <<>>, Head(turns)[2] = "end"
  PROVE  LET a == Head(turns)[1] IN
         /\ Append(pieces, <<a, "end">>) \in Seq(Piece)
         /\ Once(Append(pieces, <<a, "end">>), n)
         /\ [turns EXCEPT ![1] = <<a, "done">>] \in Seq(WriteTurn)
         /\ ToCome([turns EXCEPT ![1] = <<a, "done">>], Append(pieces, <<a, "end">>), n)
<1> DEFINE a == Head(turns)[1]
           p == <<a, "end">>
           over == <<a, "done">>
           more == Append(pieces, p)
           left == [turns EXCEPT ![1] = over]
<1>1. /\ DOMAIN turns = 1..Len(turns) /\ Len(turns) \in Nat \ {0} /\ 1 \in DOMAIN turns
      /\ Head(turns) = turns[1] /\ turns[1] \in WriteTurn
      /\ \A i \in DOMAIN turns : turns[i] \in WriteTurn
  OBVIOUS
<1>2. turns[1] = p /\ a \in Nat \ {0} /\ turns[1][1] = a /\ turns[1][2] = "end"
  BY <1>1 DEF WriteTurn
<1> HIDE DEF a
<1>3. /\ p \in Piece /\ p[1] = a /\ p[2] = "end"
      /\ over \in WriteTurn /\ over[1] = a /\ over[2] = "done"
  BY <1>2 DEF Piece, WriteTurn
<1>4. a <= n /\ ~Has(pieces, p)
  BY <1>1, <1>2, <1>3 DEF ToCome, NotYet, Has
<1>5. ASSUME NEW m \in Before(p) PROVE Has(pieces, <<m, "begin">>)
  <2>1. m \in 1..n /\ m <= a
    BY <1>2, <1>3, <1>4, <1>5 DEF Before
  <2>2. ASSUME NEW i \in DOMAIN turns, turns[i] = <<m, "begin">> PROVE FALSE
    <3>1. i # 1 /\ turns[i][2] = "begin" /\ turns[i][1] = m
      BY <1>2, <2>2
    <3>2. turns[1][1] < turns[i][1]
      BY <1>1, <1>2, <3>1 DEF ToCome, InLine
    <3> QED BY <1>2, <2>1, <3>1, <3>2
  <2> QED BY <2>1, <2>2 DEF ToCome, Has
<1> HIDE DEF p, over
<1>6. more \in Seq(Piece) /\ left \in Seq(WriteTurn)
  BY <1>1, <1>3
<1>7. Once(more, n)
  BY <1>3, <1>4, <1>5, OneMore
<1>8. /\ DOMAIN left = DOMAIN turns /\ left[1] = over
      /\ \A i \in DOMAIN turns : i # 1 => left[i] = turns[i]
      /\ \A i \in DOMAIN turns : left[i][1] = turns[i][1]
      /\ \A i \in DOMAIN turns : left[i][2] = "begin" <=> turns[i][2] = "begin"
  BY <1>1, <1>2, <1>3
<1>9. /\ DOMAIN pieces = 1..Len(pieces) /\ Len(pieces) \in Nat
      /\ DOMAIN more = 1..(Len(pieces) + 1) /\ more[Len(pieces) + 1] = p
      /\ \A k \in DOMAIN pieces : more[k] = pieces[k]
  BY <1>3
<1> HIDE DEF left, more
<1>10. ToCome(left, more, n)
  <2>1. \A i \in DOMAIN left : left[i][1] <= n
    BY <1>8 DEF ToCome
  <2>2. \A i, j \in DOMAIN left : left[i][1] = left[j][1] => i = j
    BY <1>8 DEF ToCome
  <2>3. InLine(left)
    BY <1>8 DEF ToCome, InLine
  <2>4. \A m \in 1..n : Has(left, <<m, "begin">>) \/ Has(more, <<m, "begin">>)
    <3> SUFFICES ASSUME NEW m \in 1..n, ~Has(more, <<m, "begin">>)
                 PROVE  Has(left, <<m, "begin">>)
      OBVIOUS
    <3>1. ~Has(pieces, <<m, "begin">>)
      BY <1>3, HasMore DEF more
    <3>2. PICK i \in DOMAIN turns : turns[i] = <<m, "begin">>
      BY <3>1 DEF ToCome, Has
    <3>3. i # 1
      BY <1>2, <3>2
    <3> QED BY <1>8, <3>2, <3>3 DEF Has
  <2>5. NotYet(left, more)
    <3> SUFFICES ASSUME NEW i \in DOMAIN left, NEW k \in DOMAIN more, left[i][1] = more[k][1]
                 PROVE  left[i][2] = "done" \/ (more[k][2] = "begin" /\ left[i][2] # "begin")
      BY DEF NotYet
    <3>1. CASE i = 1
      BY <1>3, <1>8, <3>1
    <3>2. CASE i # 1 /\ k \in DOMAIN pieces
      BY <1>8, <1>9, <3>2 DEF ToCome, NotYet
    <3>3. CASE i # 1 /\ k = Len(pieces) + 1
      <4>1. turns[i][1] = turns[1][1]
        BY <1>2, <1>3, <1>8, <1>9, <3>3
      <4> QED BY <1>1, <1>8, <3>3, <4>1 DEF ToCome
    <3> QED BY <1>9, <3>1, <3>2, <3>3
  <2> QED BY <2>1, <2>2, <2>3, <2>4, <2>5 DEF ToCome
<1> QED BY <1>6, <1>7, <1>10 DEF a, p, over, more, left

\* A write that has sent the beginning of its answer goes behind the others.
LEMMA OthersFirst ==
  ASSUME NEW n \in Nat, NEW turns \in Seq(WriteTurn), NEW pieces, ToCome(turns, pieces, n),
         turns # <<>>, Head(turns)[2] = "end"
  PROVE  ToCome(Append(Tail(turns), Head(turns)), pieces, n)
<1> DEFINE last == Len(turns)
           left == Append(Tail(turns), Head(turns))
           From(i) == IF i = last THEN 1 ELSE i + 1
<1>1. /\ DOMAIN turns = 1..last /\ last \in Nat \ {0} /\ Head(turns) = turns[1]
      /\ Tail(turns) \in Seq(WriteTurn) /\ Len(Tail(turns)) = last - 1
      /\ \A i \in 1..(last - 1) : Tail(turns)[i] = turns[i + 1]
      /\ turns[1] \in WriteTurn /\ last - 1 \in Nat
  OBVIOUS
<1> HIDE DEF last
<1>2. /\ DOMAIN left = 1..last
      /\ \A i \in 1..(last - 1) : left[i] = turns[i + 1]
      /\ left[last] = turns[1]
  BY <1>1
<1> HIDE DEF left
<1>3. ASSUME NEW i \in DOMAIN left
      PROVE  From(i) \in DOMAIN turns /\ left[i] = turns[From(i)]
  BY <1>1, <1>2, <1>3
<1>4. \A i, j \in DOMAIN left : From(i) = From(j) => i = j
  BY <1>1, <1>2
<1>5. \A i \in DOMAIN turns : \E j \in DOMAIN left : left[j] = turns[i]
  <2> TAKE i \in DOMAIN turns
  <2>1. CASE i = 1
    BY <1>1, <1>2, <2>1
  <2>2. CASE i # 1
    <3>1. i - 1 \in 1..(last - 1) /\ i - 1 \in 1..last /\ (i - 1) + 1 = i
      BY <1>1, <2>2
    <3> QED BY <1>2, <3>1
  <2> QED BY <2>1, <2>2
<1>6. InLine(left)
  <2> SUFFICES ASSUME NEW i \in DOMAIN left, NEW j \in DOMAIN left,
                      left[j][2] = "begin", i # j, left[i][2] # "begin" \/ i < j
               PROVE  left[i][1] < left[j][1]
    BY DEF InLine
  <2>1. j # last
    BY <1>1, <1>2
  <2>2. turns[From(i)][2] # "begin" \/ From(i) < From(j)
    BY <1>1, <1>2, <1>3, <2>1
  <2>3. From(i) # From(j) /\ turns[From(j)][2] = "begin"
    BY <1>3, <1>4
  <2>4. turns[From(i)][1] < turns[From(j)][1]
    BY <1>3, <2>2, <2>3 DEF ToCome, InLine
  <2> QED BY <1>3, <2>4
<1> HIDE DEF From
<1>7. \A i \in DOMAIN left : left[i][1] <= n
  BY <1>3 DEF ToCome
<1>8. \A i, j \in DOMAIN left : left[i][1] = left[j][1] => i = j
  BY <1>3, <1>4 DEF ToCome
<1>9. \A m \in 1..n : Has(left, <<m, "begin">>) \/ Has(pieces, <<m, "begin">>)
  BY <1>5 DEF ToCome, Has
<1>10. NotYet(left, pieces)
  BY <1>3 DEF ToCome, NotYet
<1> QED BY <1>6, <1>7, <1>8, <1>9, <1>10 DEF ToCome, left

\* The handler of a write runs: nothing of it was to come.
LEMMA NothingElse ==
  ASSUME NEW n \in Nat, NEW turns \in Seq(WriteTurn), NEW pieces, ToCome(turns, pieces, n),
         turns # <<>>, Head(turns)[2] = "done"
  PROVE  ToCome(Tail(turns), pieces, n)
<1> DEFINE left == Tail(turns)
<1>1. /\ DOMAIN turns = 1..Len(turns) /\ Len(turns) \in Nat \ {0} /\ Head(turns) = turns[1]
      /\ DOMAIN left = 1..(Len(turns) - 1)
      /\ \A i \in DOMAIN left : left[i] = turns[i + 1]
  OBVIOUS
<1> HIDE DEF left
<1>2. \A i \in DOMAIN left : i \in Nat /\ i + 1 \in DOMAIN turns
  BY <1>1
<1>3. InLine(left)
  <2> SUFFICES ASSUME NEW i \in DOMAIN left, NEW j \in DOMAIN left,
                      left[j][2] = "begin", i # j, left[i][2] # "begin" \/ i < j
               PROVE  left[i][1] < left[j][1]
    BY DEF InLine
  <2>1. turns[i + 1][2] # "begin" \/ i + 1 < j + 1
    BY <1>1, <1>2
  <2>2. i + 1 # j + 1
    BY <1>2
  <2> QED BY <1>1, <1>2, <2>1, <2>2 DEF ToCome, InLine
<1>4. \A i \in DOMAIN left : left[i][1] <= n
  BY <1>1, <1>2 DEF ToCome
<1>5. ASSUME NEW i \in DOMAIN left, NEW j \in DOMAIN left, left[i][1] = left[j][1] PROVE i = j
  <2>1. i + 1 = j + 1
    BY <1>1, <1>2, <1>5 DEF ToCome
  <2> QED BY <1>2, <2>1
<1>6. ASSUME NEW m \in 1..n, ~Has(pieces, <<m, "begin">>) PROVE Has(left, <<m, "begin">>)
  <2>1. PICK i \in DOMAIN turns : turns[i] = <<m, "begin">>
    BY <1>6 DEF ToCome, Has
  <2>2. i # 1
    BY <1>1, <2>1
  <2>3. i - 1 \in DOMAIN left /\ (i - 1) + 1 = i
    BY <1>1, <2>2
  <2> QED BY <1>1, <2>1, <2>3 DEF Has
<1>7. NotYet(left, pieces)
  BY <1>1, <1>2 DEF ToCome, NotYet
<1> QED BY <1>3, <1>4, <1>5, <1>6, <1>7 DEF ToCome, left

\* Another request is processed, and its answer is the last in the line.
LEMMA AnotherToCome ==
  ASSUME NEW n \in Nat, NEW turns \in Seq(WriteTurn), NEW pieces \in Seq(Piece),
         Once(pieces, n), ToCome(turns, pieces, n)
  PROVE  ToCome(Append(turns, <<n + 1, "begin">>), pieces, n + 1)
<1> DEFINE p == <<n + 1, "begin">>
           left == Append(turns, p)
<1>1. p \in WriteTurn /\ p[1] = n + 1 /\ p[2] = "begin"
  BY DEF WriteTurn
<1> HIDE DEF p
<1>2. /\ DOMAIN turns = 1..Len(turns) /\ Len(turns) \in Nat
      /\ DOMAIN left = 1..(Len(turns) + 1) /\ left[Len(turns) + 1] = p
      /\ \A i \in DOMAIN turns : left[i] = turns[i]
      /\ \A i \in DOMAIN turns : turns[i] \in WriteTurn
  BY <1>1
<1>3. \A q : Has(left, q) <=> Has(turns, q) \/ q = p
  BY <1>1, HasMore
<1> HIDE DEF left
<1>4. \A i \in DOMAIN left : i \in DOMAIN turns \/ i = Len(turns) + 1
  BY <1>2
<1>5. \A i \in DOMAIN turns : turns[i][1] \in Nat /\ turns[i][1] < n + 1
  <2> TAKE i \in DOMAIN turns
  <2>1. turns[i][1] \in Nat /\ turns[i][1] <= n
    BY <1>2 DEF ToCome, WriteTurn
  <2> QED BY <2>1
<1>6. \A i \in DOMAIN left : left[i][1] <= n + 1
  BY <1>1, <1>2, <1>4, <1>5
<1>7. \A i, j \in DOMAIN left : left[i][1] = left[j][1] => i = j
  BY <1>1, <1>2, <1>4, <1>5 DEF ToCome
<1>8. InLine(left)
  <2> SUFFICES ASSUME NEW i \in DOMAIN left, NEW j \in DOMAIN left,
                      left[j][2] = "begin", i # j, left[i][2] # "begin" \/ i < j
               PROVE  left[i][1] < left[j][1]
    BY DEF InLine
  <2>1. CASE j = Len(turns) + 1
    BY <1>1, <1>2, <1>4, <1>5, <2>1
  <2>2. CASE j \in DOMAIN turns
    <3>1. i \in DOMAIN turns
      BY <1>1, <1>2, <1>4, <2>2
    <3> QED BY <1>2, <2>2, <3>1 DEF ToCome, InLine
  <2> QED BY <1>4, <2>1, <2>2
<1>9. ASSUME NEW m \in 1..(n + 1) PROVE Has(left, <<m, "begin">>) \/ Has(pieces, <<m, "begin">>)
  <2>1. CASE m = n + 1
    BY <1>3, <2>1 DEF p
  <2>2. CASE m \in 1..n
    BY <1>3, <2>2 DEF ToCome
  <2> QED BY <2>1, <2>2
<1>10. NotYet(left, pieces)
  <2> SUFFICES ASSUME NEW i \in DOMAIN left, NEW k \in DOMAIN pieces, left[i][1] = pieces[k][1]
               PROVE  left[i][2] = "done" \/ (pieces[k][2] = "begin" /\ left[i][2] # "begin")
    BY DEF NotYet
  <2>1. pieces[k][1] <= n
    BY DEF Once
  <2>2. i # Len(turns) + 1
    BY <1>1, <1>2, <2>1
  <2> QED BY <1>2, <1>4, <2>2 DEF ToCome, NotYet
<1> QED BY <1>6, <1>7, <1>8, <1>9, <1>10 DEF ToCome, left, p

\* More requests do not change what has come.
LEMMA OnceStays ==
  ASSUME NEW n \in Nat, NEW pieces \in Seq(Piece), Once(pieces, n) PROVE Once(pieces, n + 1)
<1>1. \A k \in DOMAIN pieces : pieces[k][1] \in Nat /\ pieces[k][1] <= n
  BY DEF Once, Piece
<1>2. \A k \in DOMAIN pieces : pieces[k][1] <= n + 1
  BY <1>1
<1> QED BY <1>2 DEF Once

-----------------------------------------------------------------------------

\* What has come to a peer and what is to come.
Promised(c) ==
  /\ Once(received[c], current[c])
  /\ peer[c] = "open" => ToCome(writing[c], received[c], current[c])
  /\ peer[c] = "none" => received[c] = <<>> /\ writing[c] = <<>> /\ current[c] = 0

\* The inductive invariant: TypeOK, and no read on a connection that has not arrived.
PInv == CInv /\ \A c \in Conn : Promised(c)

\* A connection that is read has arrived.
LEMMA ReadIsThere == ASSUME CInv, NEW c \in Conn, reading[c] # "none" PROVE peer[c] # "none"
BY DEF CInv, OpenIsReading, NoneYet, Open

\* What writes nothing leaves the promise as it is.
LEMMA PromiseKept ==
  ASSUME NEW c \in Conn, Promised(c), received'[c] = received[c], current'[c] = current[c],
         \/ writing'[c] = writing[c] /\ (peer'[c] \in {"open", "none"} => peer'[c] = peer[c])
         \/ peer'[c] \notin {"open", "none"}
  PROVE  Promised(c)'
BY DEF Promised

\* A step of one connection concerns no other.
LEMMA PromisesKept ==
  ASSUME CInv, NEW c \in Conn, \A q \in Conn : Promised(q), Promised(c)',
         \A q \in Conn \ {c} : /\ received'[q] = received[q] /\ current'[q] = current[q]
                               /\ writing'[q] = writing[q] /\ peer'[q] = peer[q]
  PROVE  \A q \in Conn : Promised(q)'
BY PromiseKept

\* A connection arrives, with nothing asked of it.
LEMMA AcceptPromises == ASSUME PInv, NEW c \in Conn, Accept(c) PROVE \A q \in Conn : Promised(q)'
<1>1. /\ peer[c] = "none" /\ peer' = [peer EXCEPT ![c] = "open"]
      /\ UNCHANGED <<writing, received, current>>
  BY DEF Accept
<1>2. /\ peer'[c] = "open" /\ \A q \in Conn \ {c} : peer'[q] = peer[q]
      /\ received'[c] = <<>> /\ writing'[c] = <<>> /\ current'[c] = 0
  BY <1>1 DEF PInv, CInv, TypeOK, Promised
<1>3. Once(<<>>, 0) /\ ToCome(<<>>, <<>>, 0)
  BY DEF Once, ToCome, InLine, NotYet
<1>4. Promised(c)'
  BY <1>2, <1>3 DEF Promised
<1> QED BY <1>1, <1>2, <1>4, PromisesKept DEF PInv

\* A request is processed: its answer is to come.
LEMMA ReadBodyPromises ==
  ASSUME PInv, NEW c \in Conn, ReadBody(c) PROVE \A q \in Conn : Promised(q)'
<1> DEFINE n == current[c]
<1>1. /\ reading[c] # "none"
      /\ current' = [current EXCEPT ![c] = n + 1]
      /\ writing' = [writing EXCEPT ![c] = Append(writing[c], <<current'[c], "begin">>)]
      /\ UNCHANGED <<received, peer>>
      /\ current \in [Conn -> Nat] /\ writing \in [Conn -> Seq(WriteTurn)]
      /\ received \in [Conn -> Seq(Piece)]
  BY DEF ReadBody, PInv, CInv, TypeOK
<1>2. /\ n \in Nat /\ writing[c] \in Seq(WriteTurn) /\ received[c] \in Seq(Piece)
      /\ current'[c] = n + 1
      /\ writing'[c] = Append(writing[c], <<n + 1, "begin">>)
      /\ \A q \in Conn \ {c} : current'[q] = current[q] /\ writing'[q] = writing[q]
  BY <1>1
<1>3. peer[c] # "none" /\ Promised(c)
  BY <1>1, ReadIsThere DEF PInv
<1>4. Once(received[c], n) /\ (peer[c] = "open" => ToCome(writing[c], received[c], n))
  BY <1>3 DEF Promised
<1>5. Once(received[c], n + 1)
  BY <1>2, <1>4, OnceStays
<1>6. peer[c] = "open" => ToCome(Append(writing[c], <<n + 1, "begin">>), received[c], n + 1)
  BY <1>2, <1>4, AnotherToCome
<1>7. Promised(c)'
  BY <1>1, <1>2, <1>3, <1>5, <1>6 DEF Promised
<1> QED BY <1>1, <1>2, <1>7, PromisesKept DEF PInv

\* A lost connection, and those of the same id, are written to no more.
LEMMA LosePromises == ASSUME PInv, NEW c \in Conn, Lose(c) PROVE \A q \in Conn : Promised(q)'
<1> DEFINE gone == Erased(protoId[c])
<1>1. /\ writing' = [q \in Conn |-> IF q \in gone THEN <<>> ELSE writing[q]]
      /\ peer' = [q \in Conn |-> IF q \in gone /\ peer[q] = "open" THEN "dropped" ELSE peer[q]]
      /\ UNCHANGED <<received, current>>
  BY DEF Lose
<1>2. gone \subseteq Open
  <2>1. c \in Open
    BY DEF Lose, ReadError, PInv, CInv, OpenIsReading
  <2> QED BY <2>1, ErasedAre DEF PInv
<1> HIDE DEF gone
<1>3. ASSUME NEW q \in Conn PROVE Promised(q)'
  <2>1. CASE q \in gone
    <3>1. peer[q] # "none"
      BY <1>2, <2>1 DEF PInv, CInv, NoneYet, Open
    <3>2. peer'[q] \notin {"open", "none"}
      BY <1>1, <2>1, <3>1
    <3> QED BY <1>1, <3>2, PromiseKept DEF PInv
  <2>2. CASE q \notin gone
    <3>1. writing'[q] = writing[q] /\ peer'[q] = peer[q]
      BY <1>1, <2>2
    <3> QED BY <1>1, <3>1, PromiseKept DEF PInv
  <2> QED BY <2>1, <2>2
<1> QED BY <1>3

\* A write goes on, is sent, is handled or fails.
LEMMA WritePromises ==
  ASSUME PInv, NEW c \in Conn, WriteStep(c) PROVE \A q \in Conn : Promised(q)'
<1> DEFINE w == Head(writing[c])
           a == w[1]
           n == current[c]
           got == received[c]
<1>1. /\ writing[c] # <<>> /\ UNCHANGED <<current, peer>>
      /\ n \in Nat /\ writing[c] \in Seq(WriteTurn) /\ got \in Seq(Piece)
      /\ current \in [Conn -> Nat] /\ writing \in [Conn -> Seq(WriteTurn)]
      /\ received \in [Conn -> Seq(Piece)]
  BY DEF WriteStep, WriteSome, WriteLast, WriteDone, WriteFails, Completed, netVars,
         PInv, CInv, TypeOK
<1>2. /\ Promised(c) /\ peer[c] # "none" /\ Once(got, n)
      /\ peer[c] = "open" => ToCome(writing[c], got, n)
  BY <1>1 DEF PInv, Promised
<1>3. w \in WriteTurn /\ a \in Nat \ {0} /\ w[2] \in {"begin", "end", "done"} /\ w = <<a, w[2]>>
  <2>1. w \in WriteTurn
    BY <1>1
  <2> QED BY <2>1 DEF WriteTurn
<1>4. /\ <<a, "begin">> \in Piece /\ <<a, "end">> \in Piece
      /\ <<a, "end">> \in WriteTurn /\ <<a, "done">> \in WriteTurn
  BY <1>3 DEF Piece, WriteTurn
\* What has come, and what is left, when the peer is there; and when it is not.
<1> DEFINE Fits(left, pieces) == Once(pieces, n) /\ ToCome(left, pieces, n)
           Becomes(left, pieces) ==
             /\ writing' = [writing EXCEPT ![c] = left]
             /\ received' = IF peer[c] = "open" THEN [received EXCEPT ![c] = pieces] ELSE received
<1>5. ASSUME NEW left \in Seq(WriteTurn), NEW pieces \in Seq(Piece), Becomes(left, pieces),
             peer[c] = "open" => Fits(left, pieces)
      PROVE  \A q \in Conn : Promised(q)'
  <2>1. /\ writing'[c] = left /\ \A q \in Conn \ {c} : writing'[q] = writing[q]
        /\ peer[c] = "open" => received'[c] = pieces
        /\ peer[c] # "open" => received'[c] = got
        /\ \A q \in Conn \ {c} : received'[q] = received[q]
        /\ current'[c] = n /\ peer'[c] = peer[c]
    BY <1>1, <1>5
  <2>2. Promised(c)'
    BY <1>2, <1>5, <2>1 DEF Promised
  <2> QED BY <1>1, <2>1, <2>2, PromisesKept DEF PInv
<1> HIDE DEF Fits, Becomes
<1> DEFINE begun == [writing[c] EXCEPT ![1] = <<a, "end">>]
           withBegin == Append(got, <<a, "begin">>)
<1>6. ASSUME w[2] = "begin"
      PROVE  /\ begun \in Seq(WriteTurn) /\ withBegin \in Seq(Piece)
             /\ begun # <<>> /\ Head(begun) = <<a, "end">> /\ Tail(begun) = Tail(writing[c])
             /\ peer[c] = "open" => Fits(begun, withBegin)
  <2>1. /\ begun \in Seq(WriteTurn) /\ withBegin \in Seq(Piece) /\ Len(begun) = Len(writing[c])
        /\ Len(writing[c]) \in Nat \ {0} /\ begun[1] = <<a, "end">>
        /\ \A i \in 2..Len(writing[c]) : begun[i] = writing[c][i]
    BY <1>1, <1>4
  <2>2. begun # <<>> /\ Head(begun) = <<a, "end">>
    BY <2>1
  <2>3. Tail(begun) = Tail(writing[c])
    <3> HIDE DEF begun
    <3> QED BY <1>1, <2>1
  <2>4. peer[c] = "open" => Fits(begun, withBegin)
    BY <1>1, <1>2, <1>6, BeginningComes DEF Fits
  <2> QED BY <2>1, <2>2, <2>3, <2>4
<1>7. CASE WriteSome(c)
  <2> DEFINE left == Append(Tail(writing[c]), <<a, "end">>)
  <2>1. w[2] = "begin" /\ <<w>> = <<<<a, "begin">>>>
    BY <1>3, <1>7 DEF WriteSome
  <2>2. got \o <<w>> = withBegin
    BY <1>1, <1>4, <2>1, AddOneOrTwo
  <2>3. Becomes(left, withBegin)
    BY <1>1, <1>7, <2>2 DEF WriteSome, Deliver, Becomes
  <2>4. left \in Seq(WriteTurn)
    BY <1>1, <1>4
  <2>5. peer[c] = "open" => Fits(left, withBegin)
    <3>1. /\ begun \in Seq(WriteTurn) /\ begun # <<>> /\ Head(begun) = <<a, "end">>
          /\ Tail(begun) = Tail(writing[c])
          /\ peer[c] = "open" => Fits(begun, withBegin)
      BY <1>6, <2>1
    <3> HIDE DEF begun, withBegin
    <3>2. Head(begun)[2] = "end"
      BY <3>1
    <3>3. peer[c] = "open" => ToCome(Append(Tail(begun), Head(begun)), withBegin, n)
      BY <1>1, <3>1, <3>2, OthersFirst DEF Fits
    <3> QED BY <3>1, <3>3 DEF Fits
  <2> HIDE DEF left, withBegin
  <2> QED BY <1>5, <1>6, <2>1, <2>3, <2>4, <2>5
<1>8. CASE WriteLast(c)
  <2> DEFINE left == [writing[c] EXCEPT ![1] = <<a, "done">>]
             End(pieces) == Append(pieces, <<a, "end">>)
  <2>1. left \in Seq(WriteTurn)
    BY <1>1, <1>4
  <2>2. CASE w[2] = "begin"
    <3>0. <<w, <<a, "end">>>> = <<<<a, "begin">>, <<a, "end">>>>
      BY <1>3, <2>2
    <3>1. got \o <<w, <<a, "end">>>> = End(withBegin)
      <4>1. \A p, q \in Piece : got \o <<p, q>> = Append(Append(got, p), q)
        BY <1>1, AddOneOrTwo
      <4>2. got \o <<<<a, "begin">>, <<a, "end">>>> = End(withBegin)
        BY <1>4, <4>1
      <4> QED BY <3>0, <4>2
    <3>2. Becomes(left, End(withBegin))
      BY <1>1, <1>8, <2>2, <3>1 DEF WriteLast, Deliver, Becomes
    <3>3. left = [begun EXCEPT ![1] = <<a, "done">>]
      BY <1>1
    <3>4. Head(begun)[1] = a /\ Head(begun)[2] = "end"
      BY <1>6, <2>2
    <3> HIDE DEF begun, withBegin, left
    <3>5. End(withBegin) \in Seq(Piece)
      BY <1>4, <1>6, <2>2
    <3>6. peer[c] = "open" => Fits(left, End(withBegin))
      BY <1>1, <1>6, <2>2, <3>3, <3>4, EndComes DEF Fits
    <3> HIDE DEF End
    <3> QED BY <1>5, <2>1, <3>2, <3>5, <3>6
  <2>3. CASE w[2] = "end"
    <3>1. got \o <<w>> = End(got)
      BY <1>1, <1>3, <1>4, <2>3, AddOneOrTwo
    <3>2. Becomes(left, End(got))
      BY <1>1, <1>8, <2>3, <3>1 DEF WriteLast, Deliver, Becomes
    <3>3. End(got) \in Seq(Piece)
      BY <1>1, <1>4
    <3>4. peer[c] = "open" => Fits(left, End(got))
      BY <1>1, <1>2, <2>3, EndComes DEF Fits
    <3> HIDE DEF left, End
    <3> QED BY <1>5, <2>1, <3>2, <3>3, <3>4
  <2>4. w[2] # "done"
    BY <1>8 DEF WriteLast, Completed
  <2> QED BY <1>3, <2>2, <2>3, <2>4
<1>9. CASE WriteDone(c)
  <2>1. w[2] = "done" /\ Tail(writing[c]) \in Seq(WriteTurn)
    BY <1>1, <1>9 DEF WriteDone, Completed
  <2>2. received = [received EXCEPT ![c] = got]
    BY <1>1
  <2>3. Becomes(Tail(writing[c]), got)
    BY <1>9, <2>2 DEF WriteDone, Becomes
  <2>4. peer[c] = "open" => Fits(Tail(writing[c]), got)
    BY <1>1, <1>2, <2>1, NothingElse DEF Fits
  <2> QED BY <1>1, <1>5, <2>1, <2>3, <2>4
<1>10. CASE WriteFails(c)
  <2>1. peer[c] # "open" /\ Tail(writing[c]) \in Seq(WriteTurn)
    BY <1>1, <1>10 DEF WriteFails
  <2>2. Becomes(Tail(writing[c]), got)
    BY <1>10, <2>1 DEF WriteFails, Becomes
  <2> QED BY <1>1, <1>5, <2>1, <2>2
<1> QED BY <1>7, <1>8, <1>9, <1>10 DEF WriteStep

\* The other steps write nothing, and no peer comes back by them.
LEMMA OthersPromise ==
  ASSUME PInv, NEW c \in Conn,
         \/ ReadHeader(c) \/ ReadBadHeader(c) \/ LoseThrows(c) \/ Aborted(c)
         \/ PeerStep(c) \/ AcceptFails \/ RunReturns
  PROVE  \A q \in Conn : Promised(q)'
<1>1. /\ UNCHANGED <<writing, received, current>>
      /\ \A q \in Conn : peer'[q] \in {"open", "none"} => peer'[q] = peer[q]
  <2>1. CASE PeerStep(c)
    <3>1. PICK how \in {"closed", "reset"} :
            /\ peer' = peer \/ peer' = [peer EXCEPT ![c] = how]
            /\ UNCHANGED <<writing, received, current>>
      BY <2>1, PeerAssumption DEF PeerStep, PeerSends, PeerLeaves, PeerResets
    <3> QED BY <3>1 DEF PInv, CInv, TypeOK
  <2>2. CASE ~PeerStep(c)
    BY <2>2 DEF ReadHeader, ReadBadHeader, LoseThrows, Aborted, AcceptFails, RunReturns, netVars
  <2> QED BY <2>1, <2>2
<1> QED BY <1>1, PromiseKept DEF PInv

\* The invariant holds in every reachable state.
THEOREM PromisesHold == Spec => []PInv
<1>1. Init => PInv
  <2> SUFFICES ASSUME Init, NEW c \in Conn PROVE Promised(c)
    BY InitCInv DEF PInv
  <2>1. received[c] = <<>> /\ writing[c] = <<>> /\ current[c] = 0 /\ peer[c] = "none"
    BY DEF Init
  <2>2. Once(<<>>, 0)
    BY DEF Once
  <2> QED BY <2>1, <2>2 DEF Promised
<1>2. PInv /\ [Next]_vars => PInv'
  <2> SUFFICES ASSUME PInv, [Next]_vars PROVE PInv'
    OBVIOUS
  <2>1. CInv'
    BY NextKeepsC DEF PInv
  <2>2. \A q \in Conn : Promised(q)'
    <3>1. CASE UNCHANGED vars
      BY <3>1, PromiseKept DEF vars, PInv
    <3>2. CASE AcceptFails \/ RunReturns
      <4>1. UNCHANGED <<writing, received, current, peer>>
        BY <3>2 DEF AcceptFails, RunReturns, netVars
      <4> QED BY <4>1, PromiseKept DEF PInv
    <3>3. ASSUME NEW c \in Conn, Accept(c) \/ ReadStep(c) \/ WriteStep(c) \/ Aborted(c) \/ PeerStep(c)
          PROVE  \A q \in Conn : Promised(q)'
      BY <3>3, AcceptPromises, ReadBodyPromises, LosePromises, WritePromises, OthersPromise
         DEF ReadStep
    <3> QED BY <3>1, <3>2, <3>3 DEF Next
  <2> QED BY <2>1, <2>2 DEF PInv
<1> QED BY <1>1, <1>2, PTL DEF Spec

\* However far ahead a peer sends, each piece of an answer comes once, after its
\* request has been processed and after the beginnings of all earlier answers
\* (InputConnection::write, several of which may be outstanding).
THEOREM AnswersComeOnceHolds == Spec => []AnswersComeOnce
<1>1. PInv => AnswersComeOnce
  <2> SUFFICES ASSUME PInv, NEW c \in Conn
               PROVE  /\ \A k \in DOMAIN received[c] : received[c][k][1] <= current[c] /\ BegunBefore(c, k)
                      /\ \A i, k \in DOMAIN received[c] : received[c][i] = received[c][k] => i = k
    BY DEF AnswersComeOnce
  <2> QED BY DEF PInv, Promised, Once, BegunBefore, Before
<1> QED BY <1>1, PromisesHold, PTL
=============================================================================
