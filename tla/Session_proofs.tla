---------------------------- MODULE Session_proofs ----------------------------
(***************************************************************************)
(* Proofs about the whole server, and about clients and server together.   *)
(*                                                                         *)
(* The first part is about Engine: the connections and the processers      *)
(* agree, so that what is proved of the processers alone holds in it for   *)
(* as long as it runs.  The second is about Session: whatever is lost, and *)
(* whoever ends, what a client is told is the answer to what it asked.     *)
(***************************************************************************)
EXTENDS Session, RequestProcesser_proofs

\* The parts of the connections that the processers depend on.
Owned == /\ protoId \in [Processer -> Nat]
         /\ reading \in [Processer -> {"none", "header", "body"}]
         /\ peer \in [Processer -> {"none", "open", "closed", "reset", "dropped"}]
         /\ ConnectionsAgree
         /\ \A p \in Processer : peer[p] = "none" => protoId[p] = 0

\* The inductive invariant.  What relates connections to processers holds while
\* the server runs: the exception of a reset leaves a processer half removed.
EInv == /\ Owned
        /\ NoGhosts
        /\ SeatsFit
        /\ C!Running => Inv /\ playerId = protoId

\* The empty server satisfies the invariant.
LEMMA EngineInitInv == EngineInit => EInv
<1> SUFFICES ASSUME EngineInit PROVE EInv
  OBVIOUS
<1>1. Inv
  BY InitInv DEF EngineInit
<1>2. SeatsFit
  BY DEF EngineInit, Init, RoomInit, SeatsFit
<1>3. playerId = protoId
  BY DEF EngineInit, Init, C!Init
<1>4. C!Open = {}
  BY DEF EngineInit, C!Init, C!Open
<1>5. Owned
  BY <1>4 DEF EngineInit, C!Init, Owned, ConnectionsAgree, C!PoolIsOpen, C!OpenIsReading
<1> QED BY <1>1, <1>2, <1>3, <1>5 DEF EInv, Inv

\* A step that neither makes nor destroys connections leaves them as they were.
LEMMA OwnedKept ==
  ASSUME Owned, UNCHANGED <<pool, protoId>>,
         reading' \in [Processer -> {"none", "header", "body"}],
         peer' \in [Processer -> {"none", "open", "closed", "reset", "dropped"}],
         \A p \in Processer : reading'[p] = "none" <=> reading[p] = "none",
         \A p \in Processer : peer'[p] = "none" => peer[p] = "none"
  PROVE  Owned'
<1>1. C!Open' = C!Open
  BY DEF C!Open
<1> QED BY <1>1 DEF Owned, ConnectionsAgree, C!PoolIsOpen, C!OpenIsReading

\* An accepted connection joins the pool, with its Protocol and its first read.
LEMMA AcceptOwned ==
  ASSUME Owned, NEW p \in Processer, NEW c \in Nat \ {0}, c = C!NewId, C!Accept(p)
  PROVE  Owned' /\ protoId' = [protoId EXCEPT ![p] = c]
<1> DEFINE new == [id |-> c, conn |-> p]
<1>1. /\ pool' = pool \union {new}
      /\ protoId' = [protoId EXCEPT ![p] = c]
      /\ reading' = [reading EXCEPT ![p] = "header"]
      /\ peer' = [peer EXCEPT ![p] = "open"]
      /\ protoId[p] = 0
  BY DEF C!Accept, Owned
<1>2. new.id = c /\ new.conn = p
  OBVIOUS
<1> HIDE DEF new
<1>3. /\ protoId'[p] = c /\ \A q \in Processer : q # p => protoId'[q] = protoId[q]
      /\ reading'[p] = "header" /\ \A q \in Processer : q # p => reading'[q] = reading[q]
      /\ peer'[p] = "open" /\ \A q \in Processer : q # p => peer'[q] = peer[q]
  BY <1>1 DEF Owned
<1>4. C!Open' = C!Open \union {p}
  BY <1>3 DEF C!Open
<1>5. \A e \in pool : e.conn \in C!Open /\ e.conn # p /\ e.conn \in Processer
  BY <1>1 DEF Owned, ConnectionsAgree, C!PoolIsOpen, C!Open
<1>6. C!PoolIsOpen'
  BY <1>1, <1>2, <1>3, <1>4, <1>5 DEF Owned, ConnectionsAgree, C!PoolIsOpen
<1>7. C!OpenIsReading'
  BY <1>3, <1>4 DEF Owned, ConnectionsAgree, C!OpenIsReading
<1>8. /\ protoId' \in [Processer -> Nat]
      /\ reading' \in [Processer -> {"none", "header", "body"}]
      /\ peer' \in [Processer -> {"none", "open", "closed", "reset", "dropped"}]
  BY <1>1 DEF Owned
<1> QED BY <1>1, <1>3, <1>6, <1>7, <1>8 DEF Owned, ConnectionsAgree

\* The connections that the pool erases are those whose Protocol has the id.
LEMMA ErasedIds ==
  ASSUME Owned, NEW p \in C!Open
  PROVE  C!Erased(protoId[p]) = {q \in C!Open : protoId[q] = protoId[p]}
BY DEF Owned, ConnectionsAgree, C!PoolIsOpen, C!Erased

\* A lost connection is destroyed, with all those of its id.
LEMMA LoseOwned ==
  ASSUME Owned, NEW p \in Processer, C!Lose(p)
  PROVE  /\ Owned' /\ p \in C!Open
         /\ protoId' = [q \in Processer |->
              IF q \in C!Open /\ protoId[q] = protoId[p] THEN 0 ELSE protoId[q]]
<1> DEFINE gone == C!Erased(protoId[p])
<1>1. p \in C!Open
  BY DEF C!Lose, C!ReadError, Owned, ConnectionsAgree, C!OpenIsReading
<1>2. gone = {q \in C!Open : protoId[q] = protoId[p]}
  BY <1>1, ErasedIds
<1>3. /\ pool' = {e \in pool : e.id # protoId[p]}
      /\ protoId' = [q \in Processer |-> IF q \in gone THEN 0 ELSE protoId[q]]
      /\ reading' = [q \in Processer |-> IF q \in gone THEN "none" ELSE reading[q]]
      /\ peer' = [q \in Processer |-> IF q \in gone /\ peer[q] = "open" THEN "dropped" ELSE peer[q]]
  BY DEF C!Lose
<1> HIDE DEF gone
<1>4. C!Open' = C!Open \ gone
  BY <1>2, <1>3 DEF C!Open, Owned
<1>5. \A e \in pool : e.conn \in C!Open /\ (e.conn \in gone <=> e.id = protoId[p])
  BY <1>2 DEF Owned, ConnectionsAgree, C!PoolIsOpen
<1>6. \A e \in pool' : e.id = protoId'[e.conn]
  BY <1>3, <1>5 DEF Owned, ConnectionsAgree, C!PoolIsOpen, C!Open
<1>7. C!Open' = {e.conn : e \in pool'}
  BY <1>3, <1>4, <1>5 DEF Owned, ConnectionsAgree, C!PoolIsOpen
<1>8. C!OpenIsReading' /\ \A q \in Processer : peer'[q] = "none" => protoId'[q] = 0
  BY <1>3, <1>4, <1>2 DEF Owned, ConnectionsAgree, C!OpenIsReading, C!Open
<1>9. /\ protoId' \in [Processer -> Nat]
      /\ reading' \in [Processer -> {"none", "header", "body"}]
      /\ peer' \in [Processer -> {"none", "open", "closed", "reset", "dropped"}]
  BY <1>3 DEF Owned
<1>10. Owned'
  BY <1>6, <1>7, <1>8, <1>9 DEF Owned, ConnectionsAgree, C!PoolIsOpen
<1> QED BY <1>1, <1>2, <1>3, <1>10

\* What the processers do not see, and the completion of a request, concern no
\* ownership.
LEMMA OthersOwned ==
  ASSUME Owned, OtherStep \/ \E p \in Processer : C!ReadBody(p) \/ C!LoseThrows(p)
  PROVE  Owned' /\ protoId' = protoId
<1>1. ASSUME NEW p \in Processer,
             C!ReadHeader(p) \/ C!ReadBadHeader(p) \/ C!ReadBody(p) \/ C!LoseThrows(p)
      PROVE  Owned' /\ protoId' = protoId
  <2>1. /\ UNCHANGED <<pool, protoId, peer>>
        /\ reading[p] # "none"
        /\ \/ reading' = reading
           \/ reading' = [reading EXCEPT ![p] = "body"]
           \/ reading' = [reading EXCEPT ![p] = "header"]
    BY <1>1 DEF C!ReadHeader, C!ReadBadHeader, C!ReadBody, C!LoseThrows, C!ReadError, C!netVars
  <2>2. /\ reading' \in [Processer -> {"none", "header", "body"}]
        /\ \A q \in Processer : reading'[q] = "none" <=> reading[q] = "none"
    BY <2>1 DEF Owned
  <2> QED BY <2>1, <2>2, OwnedKept DEF Owned
<1>2. ASSUME NEW p \in Processer, C!WriteStep(p) \/ C!Aborted(p)
      PROVE  Owned' /\ protoId' = protoId
  <2>1. UNCHANGED <<pool, protoId, reading, peer>>
    BY <1>2 DEF C!WriteStep, C!WriteSome, C!WriteLast, C!WriteDone, C!WriteFails, C!Aborted, C!netVars
  <2> QED BY <2>1, OwnedKept DEF Owned
<1>3. CASE C!AcceptFails \/ C!RunReturns
  <2>1. UNCHANGED <<pool, protoId, reading, peer>>
    BY <1>3 DEF C!AcceptFails, C!RunReturns, C!netVars
  <2> QED BY <2>1, OwnedKept DEF Owned
<1>4. ASSUME NEW p \in Processer, C!PeerStep(p)
      PROVE  Owned' /\ protoId' = protoId
  <2>1. /\ UNCHANGED <<pool, protoId, reading>>
        /\ \/ peer' = peer
           \/ \E how \in Leaves \union {"reset"} : peer' = [peer EXCEPT ![p] = how]
    BY <1>4 DEF C!PeerStep, C!PeerSends, C!PeerLeaves, C!PeerResets
  <2>2. Leaves \union {"reset"} \subseteq {"closed", "reset"}
    BY PeersAssumption
  <2>3. /\ peer' \in [Processer -> {"none", "open", "closed", "reset", "dropped"}]
        /\ \A q \in Processer : peer'[q] = "none" => peer[q] = "none"
    BY <2>1, <2>2 DEF Owned
  <2> QED BY <2>1, <2>3, OwnedKept DEF Owned
<1> QED BY <1>1, <1>2, <1>3, <1>4 DEF OtherStep

-----------------------------------------------------------------------------
(* Connections and processers together.                                    *)

\* Nothing happens once the process has ended.
LEMMA StepsRun == ASSUME EngineNext PROVE C!Running
BY DEF EngineNext, OnAccept, OnReadSuccess, OnReadFail, OnReadFailThrows, OtherStep,
       C!Accept, C!ReadHeader, C!ReadBadHeader, C!ReadBody, C!Lose, C!LoseThrows, C!ReadError,
       C!AcceptFails, C!RunReturns, C!WriteStep, C!WriteSome, C!WriteLast, C!WriteDone,
       C!WriteFails, C!Aborted, C!PeerStep, C!PeerSends, C!PeerLeaves, C!PeerResets

\* A step of the connections alone keeps what is true of the processers.
LEMMA NotProcessingKeeps == ASSUME Inv, NotProcessing PROVE Inv'
<1>1. /\ UNCHANGED <<general, generalChat, games, playerId, named>> /\ reply' = NoReply
  BY DEF NotProcessing, rooms
<1>2. NoReply \in [to : Processer \union {Nobody}, op : OpCode, status : Status, body : Seq(Nat)]
  BY DEF NoReply, OpCode, Status
<1>3. Live' = Live
  BY <1>1 DEF Live
<1> QED BY <1>1, <1>2, <1>3 DEF Inv, TypeOK, OneSeat, OneLobbyPlace, RoomIds, NoGhosts,
                                EnteredStay, InGeneral

\* A connection that reads is that of a live processer.
LEMMA ReaderIsLive ==
  ASSUME EInv, C!Running, NEW p \in Processer, reading[p] # "none" PROVE p \in Live
BY DEF EInv, Owned, ConnectionsAgree, C!OpenIsReading, C!Open, Live

\* Every step keeps the invariant, and is one of Membership or one that it does
\* not see.
EngineStepFits == EInv' /\ [M!MNext]_(M!mvars)

\* An accepted connection is given a processer of the same id (Protocol).
LEMMA AcceptFits == ASSUME EInv, NEW p \in Processer, OnAccept(p) PROVE EngineStepFits
<1>1. C!Running
  BY DEF OnAccept, C!Accept
<1>2. Inv /\ playerId = protoId /\ Owned /\ SeatsFit
  BY <1>1 DEF EInv
<1>3. PICK c \in PlayerId : c = C!NewId /\ C!Accept(p) /\ Construct(p, c)
  BY DEF OnAccept
<1>4. c \in Nat \ {0}
  BY PlayerIdAssumption
<1>5. Owned' /\ protoId' = [protoId EXCEPT ![p] = c]
  BY <1>2, <1>3, <1>4, AcceptOwned
<1>6. playerId' = protoId'
  BY <1>2, <1>3, <1>5 DEF Construct
<1>7. Next
  BY <1>3 DEF Next
<1>8. Inv' /\ StepFits
  BY <1>2, <1>7, NextKeeps, NextFits
<1> QED BY <1>5, <1>6, <1>8 DEF EngineStepFits, EInv, StepFits, Inv

\* A request that is processed keeps the connections as they were
\* (Protocol::on_read_success).
LEMMA ReadSuccessFits ==
  ASSUME EInv, NEW p \in Processer, NEW r \in Request, OnReadSuccess(p, r)
  PROVE  EngineStepFits
<1>1. C!Running /\ reading[p] # "none" /\ C!ReadBody(p) /\ Process(p, r)
  BY DEF OnReadSuccess, C!ReadBody
<1>2. Inv /\ playerId = protoId /\ Owned /\ SeatsFit
  BY <1>1 DEF EInv
<1>3. p \in Live
  BY <1>1, ReaderIsLive
<1>4. Owned' /\ protoId' = protoId
  BY <1>1, <1>2, OthersOwned
<1>5. Effect(p)
  BY <1>1, <1>2, <1>3, ProcessHasEffect
<1>6. playerId' = playerId
  BY <1>5 DEF Effect, Quiet, Answer, Enters, Speaks, Leave, Founds, SpeaksIn, Plays, Watches
<1>7. Next
  BY <1>1, <1>3 DEF Next
<1>8. Inv' /\ StepFits
  BY <1>2, <1>7, NextKeeps, NextFits
<1> QED BY <1>2, <1>4, <1>6, <1>8 DEF EngineStepFits, EInv, StepFits, Inv

\* A lost client leaves the rooms, and its connection, Protocol and processer are
\* destroyed with those of the same id (Protocol::on_read_fail).
LEMMA ReadFailFits == ASSUME EInv, NEW p \in Processer, OnReadFail(p) PROVE EngineStepFits
<1>1. C!Running /\ reading[p] # "none" /\ C!Lose(p) /\ RemoveFromRoom(p)
  BY DEF OnReadFail, C!Lose, C!ReadError
<1>2. Inv /\ playerId = protoId /\ Owned /\ SeatsFit
  BY <1>1 DEF EInv
<1>3. p \in Live
  BY <1>1, ReaderIsLive
<1>4. /\ Owned'
      /\ protoId' = [q \in Processer |->
           IF q \in C!Open /\ protoId[q] = protoId[p] THEN 0 ELSE protoId[q]]
  BY <1>1, <1>2, LoseOwned
<1>5. \A q \in Processer : q \in Namesakes(p) <=> q \in C!Open /\ protoId[q] = protoId[p]
  BY <1>2 DEF Namesakes, Live, C!Open
<1>6. playerId' = [q \in Processer |-> IF q \in Namesakes(p) THEN 0 ELSE playerId[q]]
  BY <1>1 DEF RemoveFromRoom
<1>7. playerId' = protoId'
  BY <1>2, <1>4, <1>5, <1>6
<1>8. Next
  BY <1>1, <1>3 DEF Next
<1>9. Inv' /\ StepFits
  BY <1>2, <1>8, NextKeeps, NextFits
<1> QED BY <1>4, <1>7, <1>9 DEF EngineStepFits, EInv, StepFits, Inv

\* A client whose connection is reset leaves the rooms before the exception of
\* close() ends the process.
LEMMA ReadFailThrowsFits ==
  ASSUME EInv, NEW p \in Processer, OnReadFailThrows(p) PROVE EngineStepFits
<1> DEFINE c == playerId[p]
<1>1. /\ C!Running /\ reading[p] # "none" /\ C!LoseThrows(p) /\ RemoveFromBoth(c)
      /\ playerId' = playerId /\ named' = named /\ server' = "stopped"
  BY DEF OnReadFailThrows, C!LoseThrows, C!ReadError
<1>2. Inv /\ Owned /\ SeatsFit
  BY <1>1 DEF EInv
<1>3. p \in Live
  BY <1>1, ReaderIsLive
<1>4. RoomInv /\ c \in PlayerId
  BY <1>2, <1>3, LiveFacts
<1>5. Owned'
  BY <1>1, <1>2, OthersOwned
<1>6. ~C!Running'
  BY <1>1 DEF C!Running
<1>7. RisesFrom(c) /\ Range(general') = Range(general) \ {c}
  <2>1. games' = WithoutSeat(c)
    BY <1>1 DEF RemoveFromBoth
  <2> QED BY <1>1, <1>4, <2>1, RemoveFromBothKeeps, WithoutSeatMoves
<1>8. SeatsFit'
  BY <1>2, <1>4, <1>7, FewerFit DEF RisesFrom
<1>9. NoGhosts'
  BY ZenonT(30), <1>1, <1>2, <1>7 DEF Inv, NoGhosts, RisesFrom, SeatedIn, Live
<1>10. M!Vanish(c)
  BY <1>7, RisesTables DEF M!Vanish
<1> QED BY <1>4, <1>5, <1>6, <1>8, <1>9, <1>10 DEF EngineStepFits, EInv, M!MNext

\* A step of the connections that no processer sees changes no room.
LEMMA OtherStepFits == ASSUME EInv, OtherStep PROVE EngineStepFits
<1>1. C!Running
  BY StepsRun DEF EngineNext
<1>2. Inv /\ playerId = protoId /\ Owned /\ SeatsFit
  BY <1>1 DEF EInv
<1>3. Owned' /\ protoId' = protoId
  BY <1>2, OthersOwned
<1>4. /\ NotProcessing /\ playerId' = playerId
      /\ general' = general /\ games' = games
  BY DEF OtherStep, NotProcessing, rooms
<1>5. Inv'
  BY <1>2, <1>4, NotProcessingKeeps
<1>6. SeatsFit' /\ UNCHANGED M!mvars
  BY <1>2, <1>4, Stutters DEF SeatsFit
<1> QED BY <1>2, <1>3, <1>4, <1>5, <1>6 DEF EngineStepFits, EInv, Inv

\* Every step of the server, or none, fits.
LEMMA EngineNextFits == EInv /\ [EngineNext]_engineVars => EngineStepFits
<1> SUFFICES ASSUME EInv, [EngineNext]_engineVars PROVE EngineStepFits
  OBVIOUS
<1>1. CASE UNCHANGED engineVars
  <2>1. UNCHANGED <<general, generalChat, games, playerId, named, reply, server, pool,
                    protoId, reading, peer>>
    BY <1>1 DEF engineVars, vars, C!vars
  <2>2. UNCHANGED M!mvars
    BY <2>1, Stutters
  <2>3. Owned'
    BY <2>1, OwnedKept DEF EInv, Owned
  <2>4. NoGhosts' /\ SeatsFit'
    BY <2>1 DEF EInv, NoGhosts, SeatsFit, Live
  <2>5. C!Running' => Inv' /\ playerId' = protoId'
    <3>1. UNCHANGED vars
      BY <2>1 DEF vars
    <3>2. Inv => Inv'
      BY <3>1, NextKeeps
    <3> QED BY <2>1, <3>2 DEF EInv, C!Running
  <2> QED BY <2>2, <2>3, <2>4, <2>5 DEF EngineStepFits, EInv
<1> QED BY <1>1, AcceptFits, ReadSuccessFits, ReadFailFits, ReadFailThrowsFits, OtherStepFits
        DEF EngineNext

-----------------------------------------------------------------------------

\* The invariant holds in every reachable state of the server.
THEOREM EInvHolds == EngineSpec => []EInv
<1>1. EInv /\ [EngineNext]_engineVars => EInv'
  BY EngineNextFits DEF EngineStepFits
<1> QED BY <1>1, EngineInitInv, PTL DEF EngineSpec

\* The pool, the Protocols and the outstanding reads agree
\* (InputConnectionPool::insert, remove).
THEOREM ConnectionsAgreeHolds == EngineSpec => []ConnectionsAgree
<1>1. EInv => ConnectionsAgree
  BY DEF EInv, Owned
<1> QED BY <1>1, EInvHolds, PTL

\* In the whole server too a lost connection leaves nobody behind in the rooms,
\* even when the loss ends the process (Protocol::on_read_fail leaves the rooms
\* before it closes).
THEOREM EngineNoGhosts == EngineSpec => []NoGhosts
<1>1. EInv => NoGhosts
  BY DEF EInv
<1> QED BY <1>1, EInvHolds, PTL

\* While the server runs, who introduced itself stays in the general room for as
\* long as it is served, although the pool gives ids twice.
THEOREM ServedStayHolds == EngineSpec => []ServedStay
<1>1. EInv => ServedStay
  BY DEF EInv, ServedStay, Inv
<1> QED BY <1>1, EInvHolds, PTL

\* The whole server implements Membership, with any number of connections.
THEOREM EngineImplementsMembership == EngineSpec => ImplementsMembership
<1>1. EngineInit => M!MInit
  <2> SUFFICES ASSUME EngineInit PROVE M!MInit
    OBVIOUS
  <2>1. Range(general) = {} /\ [i \in DOMAIN games |-> TableOf(games[i])] = <<>>
    BY DEF EngineInit, Init, RoomInit, Range
  <2> QED BY <2>1 DEF M!MInit
<1>2. EInv /\ [EngineNext]_engineVars => [M!MNext]_(M!mvars)
  BY EngineNextFits DEF EngineStepFits
<1> QED BY <1>1, <1>2, EInvHolds, PTL DEF EngineSpec, ImplementsMembership, M!MSpec

-----------------------------------------------------------------------------
CA == INSTANCE Connections_proofs WITH Conn <- Processer

\* The connections of Session are those of Connections_proofs, step for step.
LEMMA SameSteps ==
  ASSUME NEW c \in Processer
  PROVE  /\ C!Accept(c) <=> CA!Accept(c)
         /\ C!ReadHeader(c) <=> CA!ReadHeader(c)
         /\ C!ReadBody(c) <=> CA!ReadBody(c)
         /\ C!Lose(c) <=> CA!Lose(c)
         /\ C!LoseThrows(c) <=> CA!LoseThrows(c)
         /\ C!WriteStep(c) <=> CA!WriteStep(c)
         /\ C!Aborted(c) <=> CA!Aborted(c)
         /\ C!AcceptFails <=> CA!AcceptFails
         /\ C!RunReturns <=> CA!RunReturns
<1>1. C!Running <=> CA!Running
  BY DEF C!Running, CA!Running
<1>2. C!NewId = CA!NewId
  BY DEF C!NewId, CA!NewId, C!Cardinality, CA!Cardinality
<1>10. C!Completed(c) <=> CA!Completed(c)
  BY DEF C!Completed, CA!Completed
<1>3. C!ReadError(c) <=> CA!ReadError(c)
  BY <1>1, <1>10 DEF C!ReadError, CA!ReadError
<1>4. C!Accept(c) <=> CA!Accept(c)
  BY <1>1, <1>2 DEF C!Accept, CA!Accept
<1>5. /\ C!ReadHeader(c) <=> CA!ReadHeader(c)
      /\ C!ReadBody(c) <=> CA!ReadBody(c)
  BY <1>1, <1>10 DEF C!ReadHeader, CA!ReadHeader, C!ReadBody, CA!ReadBody,
              C!Arrived, CA!Arrived, C!Consume, CA!Consume
<1>6. C!Lose(c) <=> CA!Lose(c)
  BY <1>3 DEF C!Lose, CA!Lose, C!Erased, CA!Erased, C!LeftBehind, CA!LeftBehind
<1>7. C!LoseThrows(c) <=> CA!LoseThrows(c)
  BY <1>3 DEF C!LoseThrows, CA!LoseThrows, C!netVars, CA!netVars
<1>8. C!WriteStep(c) <=> CA!WriteStep(c)
  BY <1>1, <1>10 DEF C!WriteStep, CA!WriteStep, C!WriteSome, CA!WriteSome,
              C!WriteLast, CA!WriteLast, C!WriteDone, CA!WriteDone, C!WriteFails, CA!WriteFails,
              C!Deliver, CA!Deliver, C!netVars, CA!netVars
<1>9. /\ C!Aborted(c) <=> CA!Aborted(c)
      /\ C!AcceptFails <=> CA!AcceptFails
      /\ C!RunReturns <=> CA!RunReturns
  BY <1>1 DEF C!Aborted, CA!Aborted, C!AcceptFails, CA!AcceptFails,
              C!RunReturns, CA!RunReturns, C!netVars, CA!netVars
<1> QED BY <1>4, <1>5, <1>6, <1>7, <1>8, <1>9

\* The steps of the server keep its answers in order.
LEMMA ServerInOrder ==
  ASSUME CA!AInv, NEW c \in Processer,
         \/ C!Accept(c) \/ C!ReadHeader(c) \/ C!ReadBody(c) \/ C!Lose(c) \/ C!LoseThrows(c)
         \/ C!WriteStep(c) \/ C!Aborted(c) \/ C!AcceptFails \/ C!RunReturns
  PROVE  CA!AInv'
BY SameSteps, PeersAssumption, CA!AcceptInOrder, CA!ReadHeaderInOrder, CA!ReadBodyInOrder,
   CA!LoseInOrder, CA!WriteInOrder, CA!OthersInOrder
-----------------------------------------------------------------------------
(* The invariant.                                                          *)

\* What is in a stream or was told, when nothing is lost or repeated.
UpTo(n) == [k \in 1..n |-> k]

\* What an answer gives its client.
Given == [status : Status, body : Seq(Nat)]

\* The variables of the clients, and the answers to them.
ClientTypes ==
  /\ loop \in [Processer -> {"running", "stopped", "threw", "killed"}]
  /\ socket \in [Processer -> {"unresolved", "connecting", "open", "closed"}]
  /\ asked \in [Processer -> Nat]
  /\ request \in [Processer -> Nat]
  /\ outgoing \in [Processer -> Seq(C!WriteTurn)]
  /\ awaiting \in [Processer -> {"none", "header", "body"}]
  /\ told \in [Processer -> Seq(Nat)]
  /\ unconnected \in [Processer -> BOOLEAN]
  /\ posted \in [Processer -> Seq(Nat)]
  /\ heard \in [Processer -> Nat]
  /\ answer \in [Processer -> Seq(Given)]

\* The write of the last request is not begun, has not got beyond the header, or is
\* over and its handler yet to run.
Unposted(c) == outgoing[c] = <<<<asked[c], "begin">>>>
HalfPosted(c) == outgoing[c] = <<<<asked[c], "end">>>>
Posted(c) == outgoing[c] = <<<<asked[c], "done">>>>
Writes(c) == Unposted(c) \/ HalfPosted(c)

\* A client writes one request at a time, after the answers to the others: while
\* it does, nothing else of it is in the stream, nor is being answered.
Asking(c) ==
  /\ request[c] = asked[c] /\ asked[c] <= Len(Script[c])
  /\ outgoing[c] = <<>> \/ Writes(c) \/ Posted(c)
  /\ posted[c] = UpTo(sent[c]) /\ sent[c] <= asked[c]
  /\ ~ServerGone(c) => IF Unposted(c) THEN sent[c] + 1 = asked[c] ELSE sent[c] = asked[c]
  /\ Len(answer[c]) = current[c]
  /\ Writes(c) => current[c] < asked[c] /\ CA!Bodies(c) = {} /\ CA!Quiet(c)

\* A client has heard the answers it was told, and perhaps a header more; it awaits
\* the answer to its last request, and asks the next one when it has been told.
Hearing(c) ==
  /\ told[c] = UpTo(Len(told[c]))
  /\ heard[c] <= Len(received[c])
  /\ heard[c] = 2 * Len(told[c]) \/ heard[c] = 2 * Len(told[c]) + 1
  /\ awaiting[c] = "header" => heard[c] = 2 * Len(told[c])
  /\ awaiting[c] = "body" => heard[c] = 2 * Len(told[c]) + 1
  /\ asked[c] = Len(told[c]) \/ asked[c] = Len(told[c]) + 1
  /\ outgoing[c] # <<>> \/ awaiting[c] # "none" => asked[c] = Len(told[c]) + 1
  /\ c \in Closing /\ K!Running(c) =>
       /\ awaiting[c] = "none" => heard[c] = 2 * Len(told[c])
       /\ outgoing[c] # <<>> => awaiting[c] = "none"

\* Where a client stands: before it connects, while it runs, and when it has stopped.
Staying(c) ==
  /\ socket[c] \in {"unresolved", "connecting"} => asked[c] = 0 /\ peer[c] = "none"
  /\ K!Running(c) => peer[c] \notin {"closed", "reset"}
  /\ loop[c] = "stopped" =>
       Len(told[c]) = Len(Script[c]) \/ unconnected[c] \/ ServerGone(c)

InTurn(c) == Asking(c) /\ Hearing(c) /\ Staying(c)

\* The inductive invariant.
SInv == CA!AInv /\ ClientTypes /\ \A c \in Processer : InTurn(c)

\* The first n numbers, and the next one.
LEMMA Counting ==
  ASSUME NEW n \in Nat
  PROVE  /\ UpTo(n) \in Seq(Nat) /\ Len(UpTo(n)) = n
         /\ Append(UpTo(n), n + 1) = UpTo(n + 1)
         /\ UpTo(0) = <<>>
         /\ \A k \in 1..n : UpTo(n)[k] = k
<1> DEFINE s == UpTo(n)
           m == UpTo(n + 1)
<1>1. s \in Seq(Nat) /\ Len(s) = n /\ \A k \in 1..n : s[k] = k
  BY DEF UpTo
<1>2. m \in Seq(Nat) /\ Len(m) = n + 1 /\ \A k \in 1..(n + 1) : m[k] = k
  BY DEF UpTo
<1>3. UpTo(0) = <<>>
  BY DEF UpTo
<1> HIDE DEF s, m
<1> DEFINE a == Append(s, n + 1)
<1>4. /\ a \in Seq(Nat) /\ Len(a) = n + 1
      /\ \A k \in 1..n : a[k] = s[k]
      /\ a[n + 1] = n + 1
  BY <1>1
<1> HIDE DEF a
<1>5. \A k \in 1..(n + 1) : k \in 1..n \/ k = n + 1
  OBVIOUS
<1>6. a = m
  <2>1. \A k \in 1..(n + 1) : a[k] = m[k]
    BY <1>1, <1>2, <1>4, <1>5
  <2> QED BY <1>2, <1>4, <2>1
<1> QED BY <1>1, <1>3, <1>6 DEF a, s, m
-----------------------------------------------------------------------------
(* Steps of the server, and of what is between it and the clients.         *)

\* What a client can notice of a step that is not its own.
FromOutside(q) ==
  /\ sent'[q] = sent[q] /\ Len(answer'[q]) = current'[q]
  /\ Writes(q) => current'[q] = current[q] /\ CA!Bodies(q)' = {} /\ CA!Quiet(q)'
  /\ Len(received[q]) <= Len(received'[q])
  /\ ServerGone(q) => ServerGone(q)'
  /\ \/ peer'[q] = peer[q]
     \/ peer[q] = "none" /\ peer'[q] = "open" /\ socket[q] \in {"open", "closed"}
     \/ peer[q] = "open" /\ peer'[q] = "dropped"
     \/ peer[q] # "none" /\ peer'[q] \in {"closed", "reset"} /\ ~K!Running(q)

\* The order of a client's requests and answers does not depend on such a step.
LEMMA OutsideKeeps ==
  ASSUME SInv, CA!AInv', UNCHANGED clientVars, NEW q \in Processer, FromOutside(q)
  PROVE  InTurn(q)'
<1>1. UNCHANGED <<loop, socket, asked, request, outgoing, awaiting, told, unconnected,
                  posted, heard>>
  BY DEF clientVars
<1>2. InTurn(q)
  BY DEF SInv
<1>3. Asking(q)'
  BY <1>1, <1>2 DEF InTurn, Asking, FromOutside, Writes, Unposted, HalfPosted, Posted
<1>4. Hearing(q)'
  <2>1. /\ Len(received[q]) \in Nat /\ Len(received'[q]) \in Nat /\ heard[q] \in Nat
        /\ Len(received[q]) <= Len(received'[q]) /\ heard[q] <= Len(received[q])
    BY SMTT(30), <1>2 DEF FromOutside, InTurn, Hearing, SInv, CA!AInv, CA!AnswerTypes, ClientTypes
  <2>2. heard[q] <= Len(received'[q])
    BY <2>1
  <2> QED BY <1>1, <1>2, <2>2 DEF InTurn, Hearing, K!Running
<1>5. Staying(q)'
  BY <1>1, <1>2 DEF InTurn, Staying, FromOutside, K!Running
<1> QED BY <1>3, <1>4, <1>5 DEF InTurn

\* A step that none of the clients takes.
LEMMA NotTheirs ==
  ASSUME SInv, CA!AInv', UNCHANGED clientVars,
         answer' \in [Processer -> Seq(Given)],
         \A q \in Processer : FromOutside(q)
  PROVE  SInv'
<1>1. ClientTypes'
  BY DEF clientVars, SInv, ClientTypes
<1> QED BY <1>1, OutsideKeeps DEF SInv

\* A request that is answered was the last, and had been written.
LEMMA ServedInTurn ==
  ASSUME SInv, NEW c \in Processer, C!ReadBody(c), UNCHANGED clientVars,
         NEW given \in Given,
         answer' = [answer EXCEPT ![c] = Append(answer[c], given)]
  PROVE  SInv'
<1>1. /\ Head(stream[c]) = "body" /\ stream[c] # <<>> /\ stream[c] \in Seq(CA!Sendable)
      /\ current' = [current EXCEPT ![c] = current[c] + 1]
      /\ stream' = [stream EXCEPT ![c] = Tail(stream[c])]
      /\ writing' = [writing EXCEPT ![c] = Append(writing[c], <<current'[c], "begin">>)]
      /\ UNCHANGED <<sent, received, peer, server>>
  BY DEF C!ReadBody, C!Arrived, C!Consume, SInv, CA!AInv, CA!AnswerTypes
<1>2. ~Writes(c)
  <2>1. CA!Bodies(c) # {}
    BY <1>1, CA!TailBodies, PeersAssumption DEF CA!Bodies
  <2> QED BY <2>1 DEF SInv, InTurn, Asking
<1>3. answer' \in [Processer -> Seq(Given)]
  <2>1. answer \in [Processer -> Seq(Given)]
    BY DEF SInv, ClientTypes
  <2>2. Append(answer[c], given) \in Seq(Given)
    BY <2>1
  <2> QED BY <2>1, <2>2
<1>4. CA!AInv'
  BY ServerInOrder DEF SInv
<1>5. ASSUME NEW q \in Processer PROVE FromOutside(q)
  <2>0. /\ Len(received[q]) \in Nat /\ current[q] \in Nat /\ InTurn(q) /\ Len(answer[q]) = current[q]
        /\ answer \in [Processer -> Seq(Given)]
        /\ current \in [Processer -> Nat] /\ stream \in [Processer -> Seq(CA!Sendable)]
        /\ writing \in [Processer -> Seq(CA!WriteTurn)]
    <3>1. InTurn(q) /\ Len(answer[q]) = current[q]
      BY DEF SInv, InTurn, Asking
    <3>2. answer \in [Processer -> Seq(Given)]
      BY DEF SInv, ClientTypes
    <3> QED BY <3>1, <3>2 DEF SInv, CA!AInv, CA!AnswerTypes
  <2>1. sent'[q] = sent[q] /\ received'[q] = received[q] /\ peer'[q] = peer[q]
        /\ (ServerGone(q) => ServerGone(q)')
    BY <1>1 DEF ServerGone, C!Running
  <2>2. CASE q = c
    <3>1. Len(answer'[q]) = Len(answer[q]) + 1 /\ current'[q] = current[q] + 1
      BY <1>1, <2>0, <2>2
    <3> QED BY <1>2, <2>0, <2>1, <2>2, <3>1 DEF FromOutside
  <2>3. CASE q # c
    <3>1. UNCHANGED <<answer[q], current[q], stream[q], writing[q]>>
      BY <1>1, <2>0, <2>3
    <3>2. Writes(q) => CA!Bodies(q)' = {} /\ CA!Quiet(q)'
      BY <2>0, <3>1 DEF InTurn, Asking, CA!Bodies, CA!Idle, CA!Over, CA!Quiet
    <3> QED BY <2>0, <2>1, <3>1, <3>2 DEF FromOutside
  <2> QED BY <2>2, <2>3
<1> QED BY <1>3, <1>4, <1>5, NotTheirs
\* What is written to a client adds to what it has received.
LEMMA WriteGives ==
  ASSUME CA!AInv, NEW c \in Processer, C!WriteStep(c), NEW q \in Processer
  PROVE  Len(received[q]) <= Len(received'[q])
<1>1. /\ received \in [Processer -> Seq(CA!Piece)] /\ writing \in [Processer -> Seq(CA!WriteTurn)]
      /\ writing[c] # <<>>
  BY DEF CA!AInv, CA!AnswerTypes, C!WriteStep, C!WriteSome, C!WriteLast, C!WriteDone, C!WriteFails,
         C!Completed
<1>2. \/ received' = received
      \/ \E pieces \in Seq(CA!Piece) : received' = [received EXCEPT ![c] = received[c] \o pieces]
  <2> DEFINE w == Head(writing[c])
  <2>1. w \in CA!WriteTurn
    BY <1>1
  <2>2. w[2] # "done" => w \in CA!Piece
    BY <2>1 DEF CA!WriteTurn, CA!Piece
  <2>3. w[2] # "done" => <<w>> \in Seq(CA!Piece) /\ <<w, <<w[1], "end">>>> \in Seq(CA!Piece)
    <3>1. <<w[1], "end">> \in CA!Piece
      BY <2>1 DEF CA!WriteTurn, CA!Piece
    <3> QED BY <2>2, <3>1
  <2> HIDE DEF w
  <2>4. CASE C!WriteFails(c) \/ C!WriteDone(c)
    BY <2>4 DEF C!WriteFails, C!WriteDone
  <2>5. CASE C!WriteSome(c)
    BY <2>3, <2>5 DEF C!WriteSome, C!Deliver, w
  <2>6. CASE C!WriteLast(c)
    <3>1. w[2] # "done"
      BY <2>6 DEF C!WriteLast, C!Completed, w
    <3>2. CASE w[2] = "begin"
      BY <2>3, <2>6, <3>1, <3>2 DEF C!WriteLast, C!Deliver, w
    <3>3. CASE w[2] # "begin"
      BY <2>3, <2>6, <3>1, <3>3 DEF C!WriteLast, C!Deliver, w
    <3> QED BY <3>2, <3>3
  <2> QED BY <2>4, <2>5, <2>6 DEF C!WriteStep
<1>3. ASSUME NEW s \in Seq(CA!Piece), NEW more \in Seq(CA!Piece)
      PROVE  Len(s) <= Len(s \o more) /\ Len(s) <= Len(s)
  OBVIOUS
<1> QED BY <1>1, <1>2, <1>3

\* The other steps of the server answer nothing.
LEMMA ServerInTurn ==
  ASSUME SInv, NEW c \in Processer, UNCHANGED <<clientVars, answer>>,
         \/ C!Accept(c) /\ socket[c] \in {"open", "closed"}
         \/ C!ReadHeader(c) \/ C!Lose(c) \/ C!LoseThrows(c)
         \/ C!WriteStep(c) \/ C!Aborted(c) \/ C!AcceptFails \/ C!RunReturns
  PROVE  SInv'
<1>1. CA!AInv'
  BY ServerInOrder DEF SInv
<1>2. /\ C!Running
      /\ UNCHANGED <<sent, current>>
      /\ \/ UNCHANGED <<stream, writing, received, peer>>
         \/ /\ peer[c] = "none" /\ peer' = [peer EXCEPT ![c] = "open"]
            /\ socket[c] \in {"open", "closed"}
            /\ UNCHANGED <<stream, writing, received>>
         \/ /\ stream[c] # <<>> /\ stream' = [stream EXCEPT ![c] = Tail(stream[c])]
            /\ UNCHANGED <<writing, received, peer>>
         \/ C!Lose(c)
         \/ C!WriteStep(c)
  BY DEF C!Accept, C!ReadHeader, C!Arrived, C!Consume, C!Lose, C!LoseThrows, C!ReadError,
         C!WriteStep, C!WriteSome, C!WriteLast, C!WriteDone, C!WriteFails, C!Aborted,
         C!AcceptFails, C!RunReturns, C!netVars, SInv, CA!AInv, CA!AnswerTypes
<1>3. ASSUME NEW q \in Processer PROVE FromOutside(q)
  <2>1. /\ InTurn(q) /\ Len(answer[q]) = current[q]
        /\ Writes(q) => CA!Bodies(q) = {} /\ CA!Quiet(q)
    BY DEF SInv, InTurn, Asking
  <2>2. /\ stream \in [Processer -> Seq(CA!Sendable)] /\ peer \in [Processer -> CA!PeerState]
        /\ writing \in [Processer -> Seq(CA!WriteTurn)] /\ received \in [Processer -> Seq(CA!Piece)]
    BY DEF SInv, CA!AInv, CA!AnswerTypes
  <2>3. Len(received[q]) \in Nat /\ Len(received[q]) <= Len(received[q])
    BY <2>2
  <2>4. sent'[q] = sent[q] /\ Len(answer'[q]) = current'[q] /\ current'[q] = current[q]
    BY <1>2, <2>1
  <2>5. CASE UNCHANGED <<stream, writing, received, peer>>
    BY <1>2, <2>1, <2>3, <2>4, <2>5 DEF FromOutside, ServerGone, CA!Bodies, CA!Idle, CA!Over, CA!Quiet
  <2>6. CASE /\ peer[c] = "none" /\ peer' = [peer EXCEPT ![c] = "open"]
             /\ socket[c] \in {"open", "closed"}
             /\ UNCHANGED <<stream, writing, received>>
    <3>1. \/ peer'[q] = peer[q]
          \/ peer[q] = "none" /\ peer'[q] = "open" /\ socket[q] \in {"open", "closed"}
      BY <2>2, <2>6
    <3> QED BY <1>2, <2>1, <2>3, <2>4, <2>6, <3>1 DEF FromOutside, ServerGone, CA!Bodies, CA!Idle, CA!Over, CA!Quiet
  <2>7. CASE /\ stream[c] # <<>> /\ stream' = [stream EXCEPT ![c] = Tail(stream[c])]
             /\ UNCHANGED <<writing, received, peer>>
    <3>1. CA!Bodies(q) = {} => CA!Bodies(q)' = {}
      <4>1. CASE q = c
        <5>1. \A i \in CA!BodiesIn(Tail(stream[c])) : i + 1 \in CA!BodiesIn(stream[c])
          BY <2>2, <2>7, CA!TailBodies, PeersAssumption
        <5>2. stream'[c] = Tail(stream[c])
          BY <2>2, <2>7
        <5> QED BY <4>1, <5>1, <5>2 DEF CA!Bodies
      <4>2. CASE q # c
        BY <2>2, <2>7, <4>2 DEF CA!Bodies
      <4> QED BY <4>1, <4>2
    <3> QED BY <1>2, <2>1, <2>3, <2>4, <2>7, <3>1 DEF FromOutside, ServerGone, CA!Idle, CA!Over, CA!Quiet
  <2>8. CASE C!Lose(c)
    <3>1. /\ UNCHANGED <<stream, received>>
          /\ writing'[q] = <<>> \/ writing'[q] = writing[q]
          /\ peer'[q] = peer[q] \/ (peer[q] = "open" /\ peer'[q] = "dropped")
      BY <2>8 DEF C!Lose
    <3> QED BY <1>2, <2>1, <2>3, <2>4, <3>1 DEF FromOutside, ServerGone, CA!Bodies, CA!Idle, CA!Over, CA!Quiet
  <2>9. CASE C!WriteStep(c)
    <3>1. /\ writing[c] # <<>> /\ UNCHANGED <<stream, peer>>
          /\ \A d \in Processer \ {c} : writing'[d] = writing[d]
      BY <2>2, <2>9 DEF C!WriteStep, C!WriteSome, C!WriteLast, C!WriteDone, C!WriteFails,
                        C!Completed, C!netVars
    <3>2. CA!Quiet(q) => CA!Quiet(q)'
      <4>1. CASE q # c
        BY <2>4, <3>1, <4>1 DEF CA!Idle, CA!Over, CA!Quiet
      <4>2. CASE q = c /\ CA!Quiet(c)
        <5>1. CA!Over(c)
          BY <3>1, <4>2 DEF CA!Idle, CA!Quiet
        <5>2. CA!Completed(c) /\ Tail(writing[c]) = <<>>
          BY <3>1, <5>1, CA!WritingLast, PeersAssumption DEF SInv
        <5>3. C!WriteDone(c)
          BY <2>9, <5>2 DEF C!WriteStep, C!WriteSome, C!WriteLast, C!WriteFails,
                            C!Completed, CA!Completed
        <5>4. writing'[c] = <<>>
          BY <2>2, <5>2, <5>3 DEF C!WriteDone
        <5> QED BY <4>2, <5>4 DEF CA!Idle, CA!Quiet
      <4> QED BY <4>1, <4>2
    <3>3. Len(received[q]) <= Len(received'[q])
      BY <2>9, WriteGives DEF SInv
    <3> QED BY <1>2, <2>1, <2>4, <3>1, <3>2, <3>3 DEF FromOutside, ServerGone, CA!Bodies
  <2> QED BY <1>2, <2>5, <2>6, <2>7, <2>8, <2>9
<1>4. answer' \in [Processer -> Seq(Given)]
  BY DEF SInv, ClientTypes
<1> QED BY <1>1, <1>3, <1>4, NotTheirs

\* The end of a client that is gone reaches the server.
LEMMA EndInTurn == ASSUME SInv, NEW c \in Processer, EndReaches(c) PROVE SInv'
<1>1. UNCHANGED <<clientVars, answer>> /\ ~K!Running(c)
  BY DEF EndReaches
<1>2. \/ C!PeerResets(c)
      \/ \E how \in {"closed", "reset"} : C!PeerLeaves(c, how, <<>>)
  BY DEF EndReaches
<1>3. /\ peer[c] # "none" /\ peer[c] # "dropped"
      /\ \E how \in {"closed", "reset"} : peer' = [peer EXCEPT ![c] = how]
      /\ UNCHANGED <<server, sent, current, writing, received>>
      /\ stream' = stream
  <2>1. stream[c] \o <<>> = stream[c]
    BY DEF SInv, CA!AInv, CA!AnswerTypes
  <2>2. stream = [stream EXCEPT ![c] = stream[c] \o <<>>]
    BY <2>1 DEF SInv, CA!AInv, CA!AnswerTypes
  <2> QED BY <1>2, <2>2 DEF C!PeerResets, C!PeerLeaves
<1>4. CA!AInv'
  <2>1. \/ CA!PeerResets(c)
        \/ \E how \in {"closed", "reset"} : CA!PeerLeaves(c, how, <<>>)
    BY <1>2 DEF C!PeerResets, C!PeerLeaves, CA!PeerResets, CA!PeerLeaves, C!Running, CA!Running,
                C!Answered, CA!Answered, C!Cardinality, CA!Cardinality
  <2> QED BY <2>1, CA!LeavingInOrder, PeersAssumption DEF SInv
<1>5. ASSUME NEW q \in Processer PROVE FromOutside(q)
  <2>1. /\ InTurn(q) /\ Len(answer[q]) = current[q]
        /\ Writes(q) => CA!Bodies(q) = {} /\ CA!Quiet(q)
    BY DEF SInv, InTurn, Asking
  <2>2. Len(received[q]) \in Nat /\ Len(received[q]) <= Len(received[q])
    BY DEF SInv, CA!AInv, CA!AnswerTypes
  <2>3. \/ peer'[q] = peer[q]
        \/ /\ q = c /\ peer[q] # "none" /\ peer[q] # "dropped" /\ peer'[q] \in {"closed", "reset"}
    BY <1>3 DEF SInv, CA!AInv, CA!AnswerTypes
  <2> QED BY <1>1, <1>3, <2>1, <2>2, <2>3
          DEF FromOutside, ServerGone, C!Running, CA!Bodies, CA!Idle, CA!Over, CA!Quiet
<1>6. answer' \in [Processer -> Seq(Given)]
  BY <1>1 DEF SInv, ClientTypes
<1> QED BY <1>1, <1>4, <1>5, <1>6, NotTheirs
-----------------------------------------------------------------------------
(* Steps of the clients.                                                   *)

\* A step of client c concerns no other, and of the server only the stream.
OnlyOf(c) ==
  /\ UNCHANGED <<server, reading, writing, current, peer, received, answer>>
  /\ \A q \in Processer \ {c} :
       UNCHANGED <<loop[q], socket[q], asked[q], request[q], outgoing[q], awaiting[q], told[q],
                   unconnected[q], posted[q], heard[q], stream[q], sent[q]>>

\* It is enough to look at that client.
LEMMA ClientKeeps ==
  ASSUME SInv, CA!AInv', ClientTypes', NEW c \in Processer, OnlyOf(c), InTurn(c)'
  PROVE  SInv'
<1>1. ASSUME NEW q \in Processer \ {c} PROVE InTurn(q)'
  <2>1. /\ UNCHANGED <<loop[q], socket[q], asked[q], request[q], outgoing[q], awaiting[q],
                       told[q], unconnected[q], posted[q], heard[q], stream[q], sent[q]>>
        /\ UNCHANGED <<server, reading, writing, current, peer, received, answer>>
        /\ InTurn(q)
    BY DEF OnlyOf, SInv
  <2>2. Asking(q)'
    BY <2>1 DEF InTurn, Asking, Writes, Unposted, HalfPosted, Posted, ServerGone, C!Running,
                CA!Bodies, CA!Idle, CA!Over, CA!Quiet
  <2>3. Hearing(q)'
    BY <2>1 DEF InTurn, Hearing, K!Running
  <2>4. Staying(q)'
    BY <2>1 DEF InTurn, Staying, K!Running, ServerGone, C!Running
  <2> QED BY <2>2, <2>3, <2>4 DEF InTurn
<1> QED BY <1>1 DEF SInv

\* The server's answers are in order for as long as nothing is sent to it.
LEMMA NothingSent ==
  ASSUME CA!AInv, UNCHANGED <<writing, reading, received, current, sent, stream, peer>>
  PROVE  CA!AInv'
<1>1. \A q \in Processer : CA!OneByOne(q)'
  BY CA!Untouched, PeersAssumption DEF CA!AInv
<1> QED BY <1>1 DEF CA!AInv, CA!AnswerTypes

\* A client that gives up, or has not begun, asks nothing and is told nothing.
GivesUp(c) ==
  /\ UNCHANGED <<server, reading, writing, current, peer, received, answer, stream, sent>>
  /\ UNCHANGED <<asked, request, told, posted, heard>>
  /\ \A q \in Processer \ {c} :
       UNCHANGED <<loop[q], socket[q], outgoing[q], awaiting[q], unconnected[q]>>
  /\ \/ outgoing'[c] = outgoing[c]
     \/ outgoing'[c] = <<>> /\ ServerGone(c)
  /\ \/ awaiting'[c] = awaiting[c]
     \/ awaiting'[c] = "none" /\ ~(c \in Closing /\ K!Running(c)')
  /\ K!Running(c)
  /\ socket'[c] \in {"unresolved", "connecting"} => socket[c] \in {"unresolved", "connecting"}
  /\ loop'[c] = "stopped" => unconnected'[c] \/ ServerGone(c)

\* What was asked and told remains in turn.
LEMMA GivenUpInTurn ==
  ASSUME SInv, NEW c \in Processer, GivesUp(c), ClientTypes' PROVE SInv'
<1>1. InTurn(c)
  BY DEF SInv
<1>2. ServerGone(c)' <=> ServerGone(c)
  BY DEF GivesUp, ServerGone, C!Running
<1>3. Asking(c)'
  <2>1. CA!Bodies(c)' = CA!Bodies(c) /\ (CA!Quiet(c)' <=> CA!Quiet(c))
    BY DEF GivesUp, CA!Bodies, CA!Idle, CA!Over, CA!Quiet
  <2> QED BY <1>1, <1>2, <2>1 DEF InTurn, Asking, GivesUp, Writes, Unposted, HalfPosted, Posted
<1>4. Hearing(c)'
  BY <1>1 DEF InTurn, Hearing, GivesUp, K!Running
<1>5. Staying(c)'
  BY <1>1, <1>2 DEF InTurn, Staying, GivesUp, K!Running
<1>6. CA!AInv'
  BY NothingSent DEF SInv, GivesUp
<1>7. OnlyOf(c)
  BY DEF OnlyOf, GivesUp
<1> QED BY <1>3, <1>4, <1>5, <1>6, <1>7, ClientKeeps DEF InTurn

\* Before the connection is made, and when the program is killed.
LEMMA DialInTurn ==
  ASSUME SInv, NEW c \in Processer,
         \/ Killed(c)
         \/ /\ K!Resolve(c) \/ K!ResolveThrows(c) \/ K!ConnectFails(c)
            /\ ServerStays /\ UNCHANGED <<stream, sent, posted, heard>>
  PROVE  SInv'
<1>1. /\ UNCHANGED <<server, reading, writing, current, peer, received, answer, stream, sent>>
      /\ UNCHANGED <<asked, request, told, posted, heard, outgoing, awaiting>>
      /\ K!Running(c)
      /\ \/ /\ socket[c] = "unresolved" /\ socket' = [socket EXCEPT ![c] = "connecting"]
            /\ UNCHANGED <<loop, unconnected>>
         \/ /\ \E l \in {"threw", "killed"} : loop' = [loop EXCEPT ![c] = l]
            /\ UNCHANGED <<socket, unconnected>>
         \/ /\ loop' = [loop EXCEPT ![c] = "stopped"]
            /\ unconnected' = [unconnected EXCEPT ![c] = TRUE]
            /\ UNCHANGED socket
  BY DEF Killed, K!Kill, K!Resolve, K!ResolveThrows, K!ConnectFails, K!writeVars, ServerStays
<1>2. /\ loop \in [Processer -> {"running", "stopped", "threw", "killed"}]
      /\ socket \in [Processer -> {"unresolved", "connecting", "open", "closed"}]
      /\ unconnected \in [Processer -> BOOLEAN]
  BY DEF SInv, ClientTypes
<1>3. ClientTypes'
  <2>1. /\ loop' \in [Processer -> {"running", "stopped", "threw", "killed"}]
        /\ socket' \in [Processer -> {"unresolved", "connecting", "open", "closed"}]
    BY <1>1, <1>2
  <2>2. unconnected' \in [Processer -> BOOLEAN]
    BY <1>1, <1>2
  <2> QED BY <1>1, <2>1, <2>2 DEF SInv, ClientTypes
<1>4. GivesUp(c)
  <2>1. /\ \A q \in Processer \ {c} : UNCHANGED <<loop[q], socket[q], unconnected[q]>>
        /\ socket'[c] \in {"unresolved", "connecting"} => socket[c] \in {"unresolved", "connecting"}
        /\ loop'[c] = "stopped" => unconnected'[c]
    BY <1>1, <1>2 DEF K!Running
  <2> QED BY <1>1, <2>1 DEF GivesUp
<1> QED BY <1>3, <1>4, GivenUpInTurn

\* The outstanding write is that of the last request.
LEMMA WritesLast ==
  ASSUME SInv, NEW c \in Processer, outgoing[c] # <<>>
  PROVE  /\ Tail(outgoing[c]) = <<>> /\ Tail(outgoing[c]) \in Seq(C!WriteTurn)
         /\ Head(outgoing[c])[1] = asked[c] /\ asked[c] = request[c]
         /\ Unposted(c) <=> Head(outgoing[c])[2] = "begin"
         /\ Posted(c) <=> K!Completed(c)
         /\ Writes(c) <=> ~Posted(c)
         /\ \A p : [outgoing[c] EXCEPT ![1] = p] = <<p>>
<1>1. PICK turn \in {"begin", "end", "done"} : outgoing[c] = <<<<asked[c], turn>>>>
  BY DEF SInv, InTurn, Asking, Writes, Unposted, HalfPosted, Posted
<1>2. asked[c] = request[c]
  BY DEF SInv, InTurn, Asking
<1>3. Head(outgoing[c]) = <<asked[c], turn>> /\ Tail(outgoing[c]) = <<>>
  BY <1>1
<1>4. <<>> \in Seq(C!WriteTurn)
  OBVIOUS
<1>5. ASSUME NEW other \in {"begin", "end", "done"}
      PROVE  outgoing[c] = <<<<asked[c], other>>>> <=> other = turn
  BY <1>1
<1>6. /\ Unposted(c) <=> turn = "begin"
      /\ HalfPosted(c) <=> turn = "end"
      /\ Posted(c) <=> turn = "done"
  BY <1>5 DEF Unposted, HalfPosted, Posted
<1>7. K!Completed(c) <=> turn = "done"
  BY <1>3 DEF K!Completed
<1>8. \A p : [outgoing[c] EXCEPT ![1] = p] = <<p>>
  <2>1. \A w, p : [<<w>> EXCEPT ![1] = p] = <<p>>
    OBVIOUS
  <2> QED BY <1>1, <2>1
<1>9. Head(outgoing[c])[1] = asked[c] /\ (Unposted(c) <=> Head(outgoing[c])[2] = "begin")
  BY <1>3, <1>6
<1>10. Writes(c) <=> ~Posted(c)
  BY <1>6 DEF Writes
<1> QED BY <1>2, <1>3, <1>4, <1>6, <1>7, <1>8, <1>9, <1>10

\* A read or a write that fails, when the server has gone.
LEMMA FailureInTurn ==
  ASSUME SInv, NEW c \in Processer, ServerGone(c), NEW reset \in BOOLEAN,
         K!ReadFails(c, reset) \/ K!WriteFails(c, reset),
         ServerStays, UNCHANGED <<stream, sent, posted, heard>>
  PROVE  SInv'
<1>1. /\ UNCHANGED <<server, reading, writing, current, peer, received, answer, stream, sent>>
      /\ UNCHANGED <<asked, request, told, posted, heard, unconnected>>
      /\ K!Running(c)
      /\ \/ awaiting' = [awaiting EXCEPT ![c] = "none"] /\ outgoing' = outgoing
         \/ /\ outgoing[c] # <<>> /\ outgoing' = [outgoing EXCEPT ![c] = Tail(outgoing[c])]
            /\ awaiting' = awaiting
      /\ K!OnFailure(c, reset)
  BY DEF K!ReadFails, K!WriteFails, K!writeVars, ServerStays, SInv, ClientTypes
<1>2. /\ loop \in [Processer -> {"running", "stopped", "threw", "killed"}]
      /\ socket \in [Processer -> {"unresolved", "connecting", "open", "closed"}]
      /\ awaiting \in [Processer -> {"none", "header", "body"}]
      /\ outgoing \in [Processer -> Seq(C!WriteTurn)]
  BY DEF SInv, ClientTypes
<1>3. /\ \/ c \in Closing /\ \E l \in {"stopped", "threw"} : loop' = [loop EXCEPT ![c] = l]
         \/ c \notin Closing /\ loop' = loop
      /\ socket' = [socket EXCEPT ![c] = "closed"] \/ socket' = socket
  BY <1>1 DEF K!OnFailure, K!Close
<1>4. outgoing'[c] = outgoing[c] \/ outgoing'[c] = <<>>
  <2>1. outgoing[c] # <<>> => Tail(outgoing[c]) = <<>>
    BY WritesLast
  <2> QED BY <1>1, <1>2, <2>1
<1>5. ClientTypes'
  <2>1. outgoing' \in [Processer -> Seq(C!WriteTurn)]
    BY <1>1, <1>2, WritesLast
  <2>2. /\ loop' \in [Processer -> {"running", "stopped", "threw", "killed"}]
        /\ socket' \in [Processer -> {"unresolved", "connecting", "open", "closed"}]
        /\ awaiting' \in [Processer -> {"none", "header", "body"}]
    BY <1>1, <1>2, <1>3
  <2> QED BY <1>1, <2>1, <2>2 DEF SInv, ClientTypes
<1>6. GivesUp(c)
  <2>1. \A q \in Processer \ {c} :
          UNCHANGED <<loop[q], socket[q], outgoing[q], awaiting[q], unconnected[q]>>
    BY <1>1, <1>2, <1>3
  <2>2. /\ c \in Closing => ~K!Running(c)'
        /\ socket'[c] = "closed" \/ socket'[c] = socket[c]
        /\ awaiting'[c] = "none" \/ awaiting'[c] = awaiting[c]
    BY <1>1, <1>2, <1>3 DEF K!Running
  <2> QED BY <1>1, <1>4, <2>1, <2>2 DEF GivesUp
<1> QED BY <1>5, <1>6, GivenUpInTurn
\* A client that connects begins to write its first request.
LEMMA ConnectInTurn ==
  ASSUME SInv, NEW c \in Processer, K!Connect(c),
         ServerStays, UNCHANGED <<stream, sent, posted, heard>>
  PROVE  SInv'
<1> USE DEF K!Running
<1>1. /\ UNCHANGED <<server, reading, writing, current, peer, received, answer, stream, sent>>
      /\ UNCHANGED <<loop, told, unconnected, posted, heard>>
      /\ loop[c] = "running" /\ socket[c] = "connecting"
      /\ socket' = [socket EXCEPT ![c] = "open"]
      /\ asked' = [asked EXCEPT ![c] = asked[c] + 1]
      /\ request' = [request EXCEPT ![c] = asked'[c]]
      /\ outgoing' = [outgoing EXCEPT ![c] = Append(outgoing[c], <<asked'[c], "begin">>)]
      /\ awaiting' = [awaiting EXCEPT ![c] = IF c \in Closing THEN "none" ELSE "header"]
  BY DEF K!Connect, K!Write, K!Ahead, ServerStays, SInv, ClientTypes
<1>2. ClientTypes /\ InTurn(c) /\ CA!AInv /\ CA!OneByOne(c)
  BY DEF SInv, CA!AInv
<1>3. /\ received \in [Processer -> Seq(C!Piece)] /\ current[c] \in Nat /\ sent[c] \in Nat
      /\ told[c] \in Seq(Nat) /\ heard[c] \in Nat /\ asked[c] \in Nat
  BY <1>2 DEF CA!AInv, CA!AnswerTypes, ClientTypes, CA!Piece, C!Piece
<1>4. asked[c] = 0 /\ peer[c] = "none" /\ received[c] = <<>> /\ CA!Quiet(c)
  BY <1>1, <1>2 DEF InTurn, Staying, CA!OneByOne, CA!Quiet
<1>5. sent[c] = 0 /\ current[c] = 0 /\ CA!Bodies(c) = {}
  <2>1. sent[c] <= asked[c] /\ current[c] <= sent[c] /\ (CA!Bodies(c) # {} => current[c] < sent[c])
    BY <1>2 DEF InTurn, Asking, CA!OneByOne
  <2> QED BY <1>3, <1>4, <2>1
<1>6. Len(told[c]) = 0 /\ heard[c] = 0
  <2>1. Len(told[c]) <= asked[c] /\ heard[c] <= Len(received[c])
    BY <1>2, <1>3 DEF InTurn, Hearing
  <2> QED BY <1>3, <1>4, <2>1
<1>7. outgoing[c] = <<>>
  BY <1>2, <1>3, <1>4, <1>6 DEF InTurn, Hearing
<1>8. /\ asked'[c] = 1 /\ request'[c] = 1 /\ outgoing'[c] = <<<<1, "begin">>>>
      /\ awaiting'[c] = (IF c \in Closing THEN "none" ELSE "header") /\ socket'[c] = "open"
      /\ \A q \in Processer \ {c} :
           UNCHANGED <<socket[q], asked[q], request[q], outgoing[q], awaiting[q]>>
  <2>1. Append(outgoing[c], <<1, "begin">>) = <<<<1, "begin">>>>
    <3>1. \A p : Append(<<>>, p) = <<p>>
      OBVIOUS
    <3> QED BY <1>7, <3>1
  <2>2. asked'[c] = 1
    BY <1>1, <1>2, <1>4 DEF ClientTypes
  <2> QED BY <1>1, <1>2, <2>1, <2>2 DEF ClientTypes
<1>9. ClientTypes'
  <2>1. <<<<1, "begin">>>> \in Seq(C!WriteTurn)
    BY DEF C!WriteTurn
  <2>2. outgoing' \in [Processer -> Seq(C!WriteTurn)]
    BY <1>1, <1>2, <1>8, <2>1 DEF ClientTypes
  <2>3. /\ socket' \in [Processer -> {"unresolved", "connecting", "open", "closed"}]
        /\ awaiting' \in [Processer -> {"none", "header", "body"}]
        /\ asked' \in [Processer -> Nat] /\ request' \in [Processer -> Nat]
    BY <1>1, <1>2, <1>8 DEF ClientTypes
  <2> QED BY <1>1, <1>2, <2>2, <2>3 DEF ClientTypes
<1>10. InTurn(c)'
  <2>1. Asking(c)'
    <3>1. 1 <= Len(Script[c])
      BY ScriptAssumption
    <3>2. UNCHANGED <<CA!Bodies(c), CA!Quiet(c), ServerGone(c)>>
      BY <1>1 DEF CA!Bodies, CA!Idle, CA!Over, CA!Quiet, ServerGone, C!Running
    <3>3. Unposted(c)' /\ Writes(c)'
      BY <1>8 DEF Unposted, Writes
    <3> QED BY <1>1, <1>2, <1>4, <1>5, <1>8, <3>1, <3>2, <3>3 DEF Asking, InTurn
  <2>2. Hearing(c)'
    BY <1>1, <1>2, <1>4, <1>6, <1>8 DEF InTurn, Hearing
  <2>3. Staying(c)'
    BY <1>1, <1>4, <1>8 DEF Staying
  <2> QED BY <2>1, <2>2, <2>3 DEF InTurn
<1>11. CA!AInv'
  BY <1>1, <1>2, NothingSent
<1> QED BY <1>1, <1>8, <1>9, <1>10, <1>11, ClientKeeps DEF OnlyOf

\* A client reads the header that it awaits.
LEMMA HeaderInTurn ==
  ASSUME SInv, NEW c \in Processer, Unheard(c), K!ReadHeader(c), Hear(c),
         ServerStays, UNCHANGED <<stream, sent, posted>>
  PROVE  SInv'
<1> USE DEF K!Running
<1>1. /\ UNCHANGED <<server, reading, writing, current, peer, received, answer, stream, sent>>
      /\ UNCHANGED <<loop, socket, asked, request, outgoing, told, unconnected, posted>>
      /\ loop[c] = "running" /\ awaiting[c] = "header" /\ heard[c] < Len(received[c])
      /\ awaiting' = [awaiting EXCEPT ![c] = "body"]
      /\ heard' = [heard EXCEPT ![c] = heard[c] + 1]
  BY DEF K!ReadHeader, K!writeVars, Hear, Unheard, ServerStays, SInv, ClientTypes
<1>2. ClientTypes /\ InTurn(c) /\ CA!AInv
  BY DEF SInv
<1>3. /\ awaiting'[c] = "body" /\ heard'[c] = heard[c] + 1 /\ heard[c] \in Nat
      /\ \A q \in Processer \ {c} : UNCHANGED <<awaiting[q], heard[q]>>
      /\ ClientTypes'
  <2>1. /\ awaiting \in [Processer -> {"none", "header", "body"}]
        /\ heard \in [Processer -> Nat]
    BY <1>2 DEF ClientTypes
  <2>2. /\ awaiting' \in [Processer -> {"none", "header", "body"}]
        /\ heard' \in [Processer -> Nat]
    BY <1>1, <2>1
  <2>3. ClientTypes'
    BY <1>1, <1>2, <2>2 DEF ClientTypes
  <2> QED BY <1>1, <2>1, <2>3
<1>4. heard'[c] <= Len(received'[c])
  <2>1. Len(received[c]) \in Nat
    BY <1>2 DEF CA!AInv, CA!AnswerTypes
  <2> QED BY <1>1, <1>3, <2>1
<1>5. Asking(c)'
  BY <1>1, <1>2 DEF InTurn, Asking, Writes, Unposted, HalfPosted, Posted, ServerGone, C!Running,
                    CA!Bodies, CA!Idle, CA!Over, CA!Quiet
<1>6. Hearing(c)'
  <2>1. c \in Closing => outgoing[c] = <<>>
    BY <1>1, <1>2 DEF InTurn, Hearing
  <2>2. heard[c] = 2 * Len(told[c])
    BY <1>1, <1>2 DEF InTurn, Hearing
  <2> QED BY <1>1, <1>2, <1>3, <1>4, <2>1, <2>2 DEF InTurn, Hearing
<1>7. Staying(c)'
  BY <1>1, <1>2 DEF InTurn, Staying, ServerGone, C!Running
<1>8. CA!AInv'
  BY <1>1, <1>2, NothingSent
<1> QED BY <1>1, <1>3, <1>5, <1>6, <1>7, <1>8, ClientKeeps DEF OnlyOf, InTurn
\* An answer that a client reads whole is that to its last request, which it has
\* written, and nothing else of it is under way.
LEMMA WholeAnswer ==
  ASSUME SInv, NEW c \in Processer, Unheard(c), NextPiece(c)[2] = "end",
         K!Running(c), awaiting[c] = "body", ~K!Completed(c)
  PROVE  LET t == Len(told[c]) IN
         /\ NextPiece(c)[1] = t + 1 /\ asked[c] = t + 1 /\ heard[c] = 2 * t + 1
         /\ sent[c] = t + 1 /\ current[c] = t + 1 /\ outgoing[c] = <<>>
         /\ CA!Bodies(c) = {} /\ CA!Quiet(c)
<1> DEFINE t == Len(told[c])
<1>1. /\ received[c] \in Seq(CA!Piece) /\ current[c] \in Nat /\ sent[c] \in Nat
      /\ asked[c] \in Nat /\ t \in Nat /\ heard[c] \in Nat /\ peer[c] \in CA!PeerState
  BY DEF SInv, CA!AInv, CA!AnswerTypes, ClientTypes
<1>2. InTurn(c) /\ CA!OneByOne(c)
  BY DEF SInv, CA!AInv
<1>3. asked[c] = t + 1 /\ heard[c] = 2 * t + 1
  BY <1>2 DEF InTurn, Hearing
<1>4. Len(received[c]) \in Nat /\ Len(received[c]) >= 2 * t + 2
  BY <1>1, <1>3 DEF Unheard
<1>5. NextPiece(c)[1] = t + 1
  <2>1. 2 * t + 2 \in DOMAIN received[c] /\ heard[c] + 1 = 2 * t + 2
    BY <1>1, <1>3, <1>4
  <2>2. NextPiece(c) = CA!PieceOf(2 * t + 2)
    BY <1>2, <2>1 DEF NextPiece, CA!OneByOne
  <2>3. CA!PieceOf(2 * t + 2) = <<t + 1, "end">>
    BY <1>1, CA!PiecesAt, PeersAssumption
  <2> QED BY <2>2, <2>3
<1>6. current[c] = t + 1 /\ sent[c] = t + 1 /\ Len(received[c]) = 2 * current[c]
  <2>1. /\ Len(received[c]) <= 2 * current[c] /\ current[c] <= sent[c] /\ sent[c] <= asked[c]
    BY <1>2 DEF CA!OneByOne, InTurn, Asking
  <2> HIDE DEF t
  <2>2. current[c] = t + 1 /\ sent[c] = t + 1
    BY <1>1, <1>3, <1>4, <2>1
  <2>3. 2 * current[c] = 2 * t + 2
    BY <1>1, <2>2
  <2> DEFINE l == Len(received[c])
             m == 2 * current[c]
  <2>4. l \in Nat /\ m \in Nat /\ t \in Nat /\ l >= 2 * t + 2 /\ l <= m /\ m = 2 * t + 2
    BY <1>1, <1>4, <2>1, <2>3
  <2> HIDE DEF l, m
  <2>5. l = m
    BY <2>4
  <2> QED BY <2>2, <2>5 DEF l, m
<1>7. outgoing[c] = <<>>
  <2>1. ~(current[c] < asked[c])
    BY <1>1, <1>3, <1>6
  <2>2. ~Writes(c)
    BY <1>2, <2>1 DEF InTurn, Asking
  <2> QED BY <2>2, WritesLast
<1>8. CA!Bodies(c) = {}
  <2>1. ~(current[c] < sent[c])
    BY <1>1, <1>6
  <2> QED BY <1>2, <2>1 DEF CA!OneByOne
<1>9. CA!Quiet(c)
  <2>1. CASE peer[c] = "open"
    <3>1. CA!UpToDate(c) /\ CA!Answered(c) \in Nat
      BY <1>2, <2>1, CA!AnsweredNat, PeersAssumption DEF CA!OneByOne, SInv
    <3>2. ~(CA!Answered(c) + 1 = current[c] /\ Len(received[c]) = 2 * CA!Answered(c))
      BY <1>1, <1>6, <3>1
    <3>3. ~(CA!Answered(c) + 1 = current[c] /\ Len(received[c]) = 2 * CA!Answered(c) + 1)
      BY <1>1, <1>6, <3>1
    <3> QED BY <3>1, <3>2, <3>3 DEF CA!UpToDate
  <2>2. CASE peer[c] \in {"none", "dropped"}
    BY <1>2, <2>2 DEF CA!OneByOne, CA!Quiet
  <2>3. peer[c] \notin {"closed", "reset"}
    BY <1>2 DEF InTurn, Staying
  <2> QED BY <1>1, <2>1, <2>2, <2>3 DEF CA!PeerState
<1> QED BY <1>3, <1>5, <1>6, <1>7, <1>8, <1>9

\* A client reads the answer, and asks the next request, or nothing more.
LEMMA BodyInTurn ==
  ASSUME SInv, NEW c \in Processer, Unheard(c), NextPiece(c)[2] = "end",
         K!ReadBody(c, NextPiece(c)[1], AsksMore(c, NextPiece(c)[1])), Hear(c),
         ServerStays, UNCHANGED <<stream, sent, posted>>
  PROVE  SInv'
<1> DEFINE t == Len(told[c])
           more == AsksMore(c, NextPiece(c)[1])
<1>1. /\ loop[c] = "running" /\ awaiting[c] = "body" /\ ~K!Completed(c)
      /\ UNCHANGED <<server, reading, writing, current, peer, received, answer, stream, sent>>
      /\ UNCHANGED <<unconnected, posted>>
      /\ told' = [told EXCEPT ![c] = Append(told[c], NextPiece(c)[1])]
      /\ heard' = [heard EXCEPT ![c] = heard[c] + 1]
      /\ IF more THEN K!GoOn(c) ELSE K!Finish(c)
  BY DEF K!ReadBody, K!Running, Hear, ServerStays, SInv, ClientTypes
<1>2. /\ NextPiece(c)[1] = t + 1 /\ asked[c] = t + 1 /\ heard[c] = 2 * t + 1
      /\ sent[c] = t + 1 /\ current[c] = t + 1 /\ outgoing[c] = <<>>
      /\ CA!Bodies(c) = {} /\ CA!Quiet(c)
  BY <1>1, WholeAnswer DEF K!Running
<1>3. /\ ClientTypes /\ InTurn(c) /\ CA!AInv
      /\ t \in Nat /\ told[c] = UpTo(t) /\ Len(received[c]) \in Nat
  <2>1. ClientTypes /\ InTurn(c) /\ CA!AInv
    BY DEF SInv
  <2>2. told[c] \in Seq(Nat) /\ told[c] = UpTo(t)
    BY <2>1 DEF InTurn, Hearing, ClientTypes
  <2>3. received[c] \in Seq(CA!Piece)
    BY <2>1 DEF CA!AInv, CA!AnswerTypes
  <2> QED BY <2>1, <2>2, <2>3
<1>4. /\ told'[c] = UpTo(t + 1) /\ Len(told'[c]) = t + 1 /\ heard'[c] = 2 * (t + 1)
      /\ told' \in [Processer -> Seq(Nat)] /\ heard' \in [Processer -> Nat]
      /\ \A q \in Processer \ {c} : UNCHANGED <<told[q], heard[q]>>
  <2>1. t + 1 \in Nat
    BY <1>3
  <2>2. told'[c] = Append(told[c], t + 1) /\ heard'[c] = 2 * t + 1 + 1
    BY <1>1, <1>2, <1>3 DEF ClientTypes
  <2>3. told'[c] = UpTo(t + 1) /\ UpTo(t + 1) \in Seq(Nat) /\ Len(UpTo(t + 1)) = t + 1
    BY <1>3, <2>1, <2>2, Counting
  <2>4. told' \in [Processer -> Seq(Nat)]
    BY <1>1, <1>3, <2>3 DEF ClientTypes
  <2>5. heard' \in [Processer -> Nat]
    BY <1>1, <1>3 DEF ClientTypes
  <2>6. \A q \in Processer \ {c} : UNCHANGED <<told[q], heard[q]>>
    BY <1>1, <1>3 DEF ClientTypes
  <2> QED BY <1>3, <2>2, <2>3, <2>4, <2>5, <2>6
<1>5. heard'[c] <= Len(received'[c])
  <2>1. heard[c] < Len(received[c])
    BY DEF Unheard
  <2> QED BY <1>1, <1>2, <1>3, <1>4, <2>1
<1>6. UNCHANGED <<CA!Bodies(c), CA!Quiet(c), ServerGone(c)>>
  BY <1>1 DEF CA!Bodies, CA!Idle, CA!Over, CA!Quiet, ServerGone, C!Running
<1>7. CA!AInv'
  BY <1>1, <1>3, NothingSent
<1> HIDE DEF t
<1>8. CASE more
  <2>1. /\ asked' = [asked EXCEPT ![c] = asked[c] + 1]
        /\ request' = [request EXCEPT ![c] = asked'[c]]
        /\ outgoing' = [outgoing EXCEPT ![c] = Append(outgoing[c], <<asked'[c], "begin">>)]
        /\ awaiting' = [awaiting EXCEPT ![c] = IF c \in Closing THEN "none" ELSE "header"]
        /\ UNCHANGED <<loop, socket>> /\ asked[c] < Len(Script[c])
    BY <1>1, <1>3, <1>8 DEF K!GoOn, K!Write, K!Ahead, AsksMore, ClientTypes
  <2>2. /\ asked'[c] = t + 2 /\ request'[c] = t + 2 /\ t + 2 \in Nat /\ t + 2 # 0
        /\ awaiting'[c] = (IF c \in Closing THEN "none" ELSE "header")
        /\ \A q \in Processer \ {c} : UNCHANGED <<asked[q], request[q], outgoing[q], awaiting[q]>>
    BY SMTT(30), <1>2, <1>3, <2>1 DEF ClientTypes
  <2>3. outgoing'[c] = <<<<t + 2, "begin">>>>
    <3>1. \A p : Append(<<>>, p) = <<p>>
      OBVIOUS
    <3> QED BY <1>2, <1>3, <2>1, <2>2, <3>1 DEF ClientTypes
  <2>4. ClientTypes'
    <3>1. <<<<t + 2, "begin">>>> \in Seq(C!WriteTurn)
      BY <2>2 DEF C!WriteTurn
    <3>2. outgoing' \in [Processer -> Seq(C!WriteTurn)]
      BY ZenonT(30), <1>3, <2>1, <2>3, <3>1 DEF ClientTypes
    <3>3. awaiting' \in [Processer -> {"none", "header", "body"}]
      BY <1>3, <2>1 DEF ClientTypes
    <3>4. asked' \in [Processer -> Nat] /\ request' \in [Processer -> Nat]
      BY <1>3, <2>1, <2>2 DEF ClientTypes
    <3> QED BY <1>1, <1>3, <1>4, <2>1, <3>2, <3>3, <3>4 DEF ClientTypes
  <2>5. Asking(c)'
    <3>1. Len(Script[c]) \in Nat
      BY ScriptAssumption
    <3>2. asked'[c] <= Len(Script[c])
      BY <1>2, <1>3, <2>1, <2>2, <3>1
    <3>3. Unposted(c)' /\ Writes(c)'
      BY <2>2, <2>3 DEF Unposted, Writes
    <3>4. posted'[c] = UpTo(sent'[c]) /\ Len(answer'[c]) = current'[c]
      BY <1>1, <1>3 DEF InTurn, Asking
    <3>5. sent'[c] + 1 = asked'[c] /\ sent'[c] <= asked'[c] /\ current'[c] < asked'[c]
      BY <1>1, <1>2, <1>3, <2>2
    <3> QED BY <1>2, <1>6, <2>2, <3>2, <3>3, <3>4, <3>5 DEF Asking
  <2>6. Hearing(c)'
    <3>1. /\ heard'[c] = 2 * Len(told'[c]) /\ asked'[c] = Len(told'[c]) + 1
          /\ told'[c] = UpTo(Len(told'[c]))
      <4>1. t \in Nat
        BY <1>3
      <4>2. t + 2 = (t + 1) + 1
        BY <4>1
      <4> QED BY <1>4, <2>2, <4>2
    <3>2. awaiting'[c] # "body" /\ (c \in Closing => awaiting'[c] = "none")
      BY <2>2
    <3> QED BY <1>5, <3>1, <3>2 DEF Hearing
  <2>7. Staying(c)'
    <3>1. socket[c] \notin {"unresolved", "connecting"}
      BY <1>2, <1>3 DEF InTurn, Staying
    <3> QED BY <1>1, <1>3, <2>1, <3>1 DEF InTurn, Staying, K!Running
  <2> QED BY <1>1, <1>4, <1>7, <2>1, <2>2, <2>4, <2>5, <2>6, <2>7, ClientKeeps DEF OnlyOf, InTurn
<1>9. CASE ~more
  <2>1. /\ awaiting' = [awaiting EXCEPT ![c] = "none"]
        /\ UNCHANGED <<asked, request, outgoing>>
        /\ IF c \in Closing THEN K!Close(c) ELSE UNCHANGED <<loop, socket>>
    BY <1>1, <1>9 DEF K!Finish, K!writeVars
  <2>2. /\ loop \in [Processer -> {"running", "stopped", "threw", "killed"}]
        /\ socket \in [Processer -> {"unresolved", "connecting", "open", "closed"}]
        /\ awaiting \in [Processer -> {"none", "header", "body"}]
    BY <1>3 DEF ClientTypes
  <2>3. \/ c \in Closing /\ loop' = [loop EXCEPT ![c] = "stopped"]
           /\ socket' = [socket EXCEPT ![c] = "closed"]
        \/ c \notin Closing /\ loop' = loop /\ socket' = socket
    BY <2>1 DEF K!Close
  <2>4. /\ \A q \in Processer \ {c} : UNCHANGED <<loop[q], socket[q], awaiting[q]>>
        /\ awaiting'[c] = "none"
        /\ loop' \in [Processer -> {"running", "stopped", "threw", "killed"}]
        /\ socket' \in [Processer -> {"unresolved", "connecting", "open", "closed"}]
        /\ awaiting' \in [Processer -> {"none", "header", "body"}]
    BY <2>1, <2>2, <2>3
  <2>5. ClientTypes'
    BY <1>1, <1>3, <1>4, <2>1, <2>4 DEF ClientTypes
  <2>6. Asking(c)'
    BY <1>1, <1>2, <1>3, <1>6, <2>1 DEF InTurn, Asking, Writes, Unposted, HalfPosted, Posted
  <2>7. Hearing(c)'
    <3>1. asked'[c] = t + 1 /\ outgoing'[c] = <<>> /\ awaiting'[c] = "none"
      BY <1>2, <2>1, <2>4
    <3>2. heard'[c] = 2 * Len(told'[c]) /\ asked'[c] = Len(told'[c]) /\ told'[c] = UpTo(Len(told'[c]))
      BY <1>3, <1>4, <3>1
    <3> QED BY <1>5, <3>1, <3>2 DEF Hearing
  <2>8. Staying(c)'
    <3>1. socket[c] \notin {"unresolved", "connecting"} /\ peer[c] \notin {"closed", "reset"}
      BY <1>1, <1>2, <1>3 DEF InTurn, Staying, K!Running
    <3>2. socket'[c] \notin {"unresolved", "connecting"} /\ peer'[c] \notin {"closed", "reset"}
      BY <1>1, <2>2, <2>3, <3>1
    <3>3. c \in Closing => Len(told'[c]) = Len(Script[c])
      <4>1. c \in Closing => ~(asked[c] < Len(Script[c]))
        BY <1>9 DEF AsksMore
      <4>2. asked[c] <= Len(Script[c]) /\ Len(Script[c]) \in Nat
        BY <1>3, ScriptAssumption DEF InTurn, Asking
      <4> QED BY <1>2, <1>3, <1>4, <4>1, <4>2
    <3>4. c \notin Closing => loop'[c] = "running"
      BY <1>1, <2>3
    <3> QED BY <3>2, <3>3, <3>4 DEF Staying
  <2> QED BY <1>1, <1>4, <1>7, <2>1, <2>4, <2>5, <2>6, <2>7, <2>8, ClientKeeps
          DEF OnlyOf, InTurn
<1> QED BY <1>8, <1>9
\* What can be sent of a request: its header, its body, or both.
Parts == {<<"header">>, <<"body">>, <<"header", "body">>}

\* What Post does, when the header is in the parts, and when it is not.
LEMMA PostIs ==
  ASSUME NEW c \in Processer, NEW n, NEW parts \in Parts, Post(c, n, parts), ~ServerGone(c)
  PROVE  /\ stream' = [stream EXCEPT ![c] = stream[c] \o parts]
         /\ parts # <<"body">> => /\ posted' = [posted EXCEPT ![c] = Append(posted[c], n)]
                                  /\ sent' = [sent EXCEPT ![c] = sent[c] + 1]
         /\ parts = <<"body">> => UNCHANGED <<posted, sent>>
<1>1. /\ "header" \in Range(<<"header">>) /\ "header" \notin Range(<<"body">>)
      /\ "header" \in Range(<<"header", "body">>)
  <2>1. <<"header">>[1] = "header" /\ <<"header", "body">>[1] = "header"
    OBVIOUS
  <2>2. \A k \in DOMAIN <<"body">> : <<"body">>[k] # "header"
    OBVIOUS
  <2>3. 1 \in DOMAIN <<"header">> /\ 1 \in DOMAIN <<"header", "body">>
    OBVIOUS
  <2> QED BY <2>1, <2>2, <2>3 DEF Range
<1>2. <<"header">> # <<"body">> /\ <<"header", "body">> # <<"body">>
  OBVIOUS
<1> QED BY <1>1, <1>2 DEF Post, Parts

\* A part of the last request is posted after the answers to the others: the
\* server's answers stay in order, and the requests are numbered as they were asked.
LEMMA PostInOrder ==
  ASSUME SInv, NEW c \in Processer, Writes(c), NEW parts \in Parts,
         Post(c, asked[c], parts), parts = <<"body">> <=> ~Unposted(c),
         UNCHANGED <<server, reading, writing, current, peer, received>>
  PROVE  /\ CA!AInv' /\ posted' \in [Processer -> Seq(Nat)]
         /\ posted'[c] = UpTo(sent'[c]) /\ sent'[c] <= asked[c] /\ (ServerGone(c)' <=> ServerGone(c))
         /\ ~ServerGone(c) => sent'[c] = asked[c]
         /\ parts = <<"header">> => CA!Bodies(c)' = {}
         /\ \A q \in Processer \ {c} : UNCHANGED <<posted[q], sent[q], stream[q]>>
<1>1. /\ InTurn(c) /\ CA!AInv /\ CA!OneByOne(c) /\ ClientTypes
      /\ current[c] < asked[c] /\ CA!Bodies(c) = {} /\ CA!Quiet(c)
  BY DEF SInv, CA!AInv, InTurn, Asking
<1>2. /\ stream \in [Processer -> Seq(CA!Sendable)] /\ sent \in [Processer -> Nat]
      /\ sent[c] \in Nat /\ asked[c] \in Nat /\ current[c] \in Nat /\ posted[c] = UpTo(sent[c])
      /\ sent[c] <= asked[c]
  BY <1>1 DEF CA!AInv, CA!AnswerTypes, ClientTypes, InTurn, Asking
<1>3. ServerGone(c)' <=> ServerGone(c)
  BY DEF ServerGone, C!Running
<1>4. CASE ServerGone(c)
  <2>1. UNCHANGED <<stream, sent, posted>>
    BY <1>4 DEF Post
  <2>2. CA!AInv'
    BY <1>1, <2>1, NothingSent
  <2>3. CA!Bodies(c)' = {}
    BY <1>1, <2>1 DEF CA!Bodies
  <2> QED BY <1>1, <1>2, <1>3, <1>4, <2>1, <2>2, <2>3 DEF ClientTypes
<1>5. CASE ~ServerGone(c)
  <2>1. IF Unposted(c) THEN sent[c] + 1 = asked[c] ELSE sent[c] = asked[c]
    BY <1>1, <1>5 DEF InTurn, Asking
  <2>2. stream' = [stream EXCEPT ![c] = stream[c] \o parts]
    BY <1>5, PostIs
  <2>3. /\ posted' \in [Processer -> Seq(Nat)] /\ posted'[c] = UpTo(sent'[c])
        /\ sent' \in [Processer -> Nat] /\ sent'[c] = asked[c]
        /\ \A q \in Processer \ {c} : UNCHANGED <<posted[q], sent[q]>>
    <3>1. CASE Unposted(c)
      <4>1. /\ posted' = [posted EXCEPT ![c] = Append(posted[c], asked[c])]
            /\ sent' = [sent EXCEPT ![c] = sent[c] + 1]
        BY <1>5, <3>1, PostIs
      <4>2. Append(posted[c], asked[c]) = UpTo(asked[c]) /\ UpTo(asked[c]) \in Seq(Nat)
        BY <1>2, <2>1, <3>1, Counting
      <4>3. /\ posted' \in [Processer -> Seq(Nat)] /\ posted'[c] = UpTo(asked[c])
            /\ \A q \in Processer \ {c} : posted'[q] = posted[q]
        BY <1>1, <4>1, <4>2 DEF ClientTypes
      <4>4. /\ sent' \in [Processer -> Nat] /\ sent'[c] = asked[c]
            /\ \A q \in Processer \ {c} : sent'[q] = sent[q]
        BY <1>2, <2>1, <3>1, <4>1
      <4> QED BY <4>3, <4>4
    <3>2. CASE ~Unposted(c)
      BY <1>1, <1>2, <1>5, <2>1, <3>2, PostIs DEF ClientTypes
    <3> QED BY <3>1, <3>2
  <2>4. /\ stream[c] \o parts \in Seq(CA!Sendable)
        /\ \/ CA!BodiesIn(stream[c] \o parts) = {}
           \/ parts # <<"header">> /\ \E i : CA!BodiesIn(stream[c] \o parts) = {i}
    <3>1. "header" \in CA!Sendable \ {"body"}
      BY DEF CA!Sendable
    <3>2. CA!BodiesIn(stream[c]) = {}
      BY <1>1 DEF CA!Bodies
    <3>3. CASE parts = <<"header">>
      BY <1>2, <3>1, <3>2, <3>3, CA!MoreBodies, PeersAssumption
    <3>4. CASE parts = <<"body">>
      <4>1. parts # <<"header">>
        BY <3>4
      <4>2. /\ stream[c] \o parts \in Seq(CA!Sendable)
            /\ CA!BodiesIn(stream[c] \o parts) = CA!BodiesIn(stream[c]) \union {Len(stream[c]) + 1}
        BY <1>2, <3>1, <3>4, CA!MoreBodies, PeersAssumption
      <4> QED BY <3>2, <4>1, <4>2
    <3>5. CASE parts = <<"header", "body">>
      <4>1. parts # <<"header">>
        BY <3>5
      <4>2. /\ stream[c] \o parts \in Seq(CA!Sendable)
            /\ CA!BodiesIn(stream[c] \o parts) = CA!BodiesIn(stream[c]) \union {Len(stream[c]) + 2}
        BY <1>2, <3>1, <3>5, CA!MoreBodies, PeersAssumption
      <4> QED BY <3>2, <4>1, <4>2
    <3> QED BY <3>3, <3>4, <3>5 DEF Parts
  <2>5. /\ stream' \in [Processer -> Seq(CA!Sendable)] /\ stream'[c] = stream[c] \o parts
        /\ \A q \in Processer \ {c} : stream'[q] = stream[q]
    BY <1>2, <2>2, <2>4
  <2>6. CA!AnswerTypes'
    BY <1>1, <2>3, <2>5 DEF CA!AInv, CA!AnswerTypes
  <2>7. \/ CA!Bodies(c)' = {}
        \/ parts # <<"header">> /\ \E i : CA!Bodies(c)' = {i}
    BY <2>4, <2>5 DEF CA!Bodies
  <2>8. CA!OneByOne(c)'
    <3>1. UNCHANGED <<CA!Idle(c), CA!Quiet(c), CA!UpToDate(c)>>
      BY DEF CA!Idle, CA!Over, CA!Quiet, CA!Begun, CA!Ending, CA!UpToDate, CA!Answered
    <3>2. \A i, j \in CA!Bodies(c)' : i = j
      BY <2>7
    <3>3. current'[c] <= sent'[c] /\ current'[c] < sent'[c]
      BY <1>1, <1>2, <2>3
    <3> QED BY <1>1, <3>1, <3>2, <3>3 DEF CA!OneByOne
  <2>9. \A q \in Processer \ {c} : CA!OneByOne(q)'
    BY <1>1, <2>3, <2>5, CA!Untouched, PeersAssumption DEF CA!AInv
  <2>10. CA!AInv'
    BY <2>6, <2>8, <2>9 DEF CA!AInv
  <2>11. sent'[c] <= asked[c]
    BY <1>2, <2>3
  <2> QED BY <1>3, <1>5, <2>3, <2>5, <2>7, <2>10, <2>11
<1> QED BY <1>4, <1>5

\* A client writes a part of its request, or all that is left of it.
LEMMA WritesInTurn ==
  ASSUME SInv, NEW c \in Processer, ServerStays, UNCHANGED heard, Writes(c),
         \/ K!WriteSome(c) /\ Post(c, asked[c], <<"header">>) /\ Unposted(c)
         \/ /\ K!WriteLast(c)
            /\ Post(c, asked[c], IF Unposted(c) THEN <<"header", "body">> ELSE <<"body">>)
  PROVE  SInv'
<1> USE DEF K!Running
<1>1. /\ UNCHANGED <<server, reading, writing, current, peer, received, answer>>
      /\ UNCHANGED <<loop, socket, asked, request, awaiting, told, unconnected, heard>>
      /\ loop[c] = "running" /\ outgoing[c] # <<>>
  BY DEF K!WriteSome, K!WriteLast, ServerStays
<1>2. ClientTypes /\ InTurn(c)
  BY DEF SInv
<1>3. /\ Tail(outgoing[c]) = <<>> /\ Head(outgoing[c])[1] = asked[c]
      /\ outgoing \in [Processer -> Seq(C!WriteTurn)] /\ asked[c] \in Nat
      /\ \A p : [outgoing[c] EXCEPT ![1] = p] = <<p>>
  BY <1>1, <1>2, WritesLast DEF ClientTypes
<1>4. PICK parts \in Parts, turn \in {"end", "done"} :
        /\ Post(c, asked[c], parts) /\ (parts = <<"body">> <=> ~Unposted(c))
        /\ turn = "end" => parts = <<"header">>
        /\ outgoing' = [outgoing EXCEPT ![c] = <<<<asked[c], turn>>>>]
  <2>1. CASE K!WriteSome(c) /\ Post(c, asked[c], <<"header">>) /\ Unposted(c)
    <3>1. Append(Tail(outgoing[c]), <<Head(outgoing[c])[1], "end">>) = <<<<asked[c], "end">>>>
      <4>1. \A p : Append(<<>>, p) = <<p>>
        OBVIOUS
      <4> QED BY <1>3, <4>1
    <3>2. outgoing' = [outgoing EXCEPT ![c] = <<<<asked[c], "end">>>>]
      BY <1>3, <2>1, <3>1 DEF K!WriteSome
    <3>3. <<"header">> \in Parts /\ <<"header">> # <<"body">>
      BY DEF Parts
    <3> QED BY <2>1, <3>2, <3>3
  <2>2. CASE /\ K!WriteLast(c)
             /\ Post(c, asked[c], IF Unposted(c) THEN <<"header", "body">> ELSE <<"body">>)
    <3> DEFINE all == IF Unposted(c) THEN <<"header", "body">> ELSE <<"body">>
    <3>1. [outgoing[c] EXCEPT ![1] = <<Head(outgoing[c])[1], "done">>] = <<<<asked[c], "done">>>>
      BY <1>3
    <3>2. outgoing' = [outgoing EXCEPT ![c] = <<<<asked[c], "done">>>>]
      BY <1>3, <2>2, <3>1 DEF K!WriteLast
    <3>3. all \in Parts /\ (all = <<"body">> <=> ~Unposted(c))
      <4>1. <<"header", "body">> # <<"body">>
        OBVIOUS
      <4> QED BY <4>1 DEF Parts
    <3> HIDE DEF all
    <3>4. Post(c, asked[c], all)
      BY <2>2 DEF all
    <3> QED BY <3>2, <3>3, <3>4
  <2> QED BY <2>1, <2>2
<1>5. /\ outgoing'[c] = <<<<asked[c], turn>>>>
      /\ \A q \in Processer \ {c} : outgoing'[q] = outgoing[q]
      /\ outgoing' \in [Processer -> Seq(C!WriteTurn)]
  <2>1. <<<<asked[c], turn>>>> \in Seq(C!WriteTurn)
    <3>1. asked[c] # 0
      <4>1. current[c] < asked[c] /\ current[c] \in Nat
        BY <1>2 DEF InTurn, Asking, SInv, CA!AInv, CA!AnswerTypes
      <4> QED BY <1>3, <4>1
    <3>2. <<asked[c], turn>> \in C!WriteTurn
      BY <1>3, <3>1 DEF C!WriteTurn
    <3> QED BY <3>2
  <2> QED BY <1>3, <1>4, <2>1
<1>6. /\ CA!AInv' /\ posted' \in [Processer -> Seq(Nat)]
      /\ posted'[c] = UpTo(sent'[c]) /\ sent'[c] <= asked[c] /\ (ServerGone(c)' <=> ServerGone(c))
      /\ ~ServerGone(c) => sent'[c] = asked[c]
      /\ parts = <<"header">> => CA!Bodies(c)' = {}
      /\ \A q \in Processer \ {c} : UNCHANGED <<posted[q], sent[q], stream[q]>>
  BY <1>1, <1>4, PostInOrder
<1>7. ClientTypes'
  BY <1>1, <1>2, <1>5, <1>6 DEF ClientTypes
<1>8. /\ ~Unposted(c)' /\ outgoing'[c] # <<>> /\ (CA!Quiet(c)' <=> CA!Quiet(c))
      /\ (HalfPosted(c)' /\ turn = "end") \/ (Posted(c)' /\ ~HalfPosted(c)')
  BY <1>1, <1>5 DEF HalfPosted, Unposted, Posted, CA!Idle, CA!Over, CA!Quiet
<1>9. Asking(c)'
  BY <1>1, <1>2, <1>4, <1>6, <1>8 DEF InTurn, Asking, Writes
<1>10. Hearing(c)'
  BY <1>1, <1>2 DEF InTurn, Hearing
<1>11. Staying(c)'
  BY <1>1, <1>2 DEF InTurn, Staying
<1> QED BY <1>1, <1>5, <1>6, <1>7, <1>9, <1>10, <1>11, ClientKeeps DEF OnlyOf, InTurn

\* The handler of a write: a closing program reads now.
LEMMA WriteDoneInTurn ==
  ASSUME SInv, NEW c \in Processer, ServerStays, K!WriteDone(c),
         UNCHANGED <<stream, sent, posted, heard>>
  PROVE  SInv'
<1> USE DEF K!Running
<1>1. /\ UNCHANGED <<server, reading, writing, current, peer, received, answer>>
      /\ UNCHANGED <<loop, socket, asked, request, told, unconnected, heard>>
      /\ loop[c] = "running" /\ outgoing[c] # <<>> /\ K!Completed(c)
  BY DEF K!WriteDone, K!Completed, ServerStays
<1>2. ClientTypes /\ InTurn(c) /\ CA!AInv
  BY DEF SInv
<1>3. Tail(outgoing[c]) = <<>> /\ ~Writes(c) /\ ~Unposted(c)
  BY <1>1, WritesLast DEF Writes
<1>4. /\ outgoing \in [Processer -> Seq(C!WriteTurn)]
      /\ awaiting \in [Processer -> {"none", "header", "body"}]
  BY <1>2 DEF ClientTypes
<1>5. /\ outgoing'[c] = <<>> /\ awaiting'[c] = (IF c \in Closing THEN "header" ELSE awaiting[c])
      /\ \A q \in Processer \ {c} : UNCHANGED <<outgoing[q], awaiting[q]>>
      /\ outgoing' \in [Processer -> Seq(C!WriteTurn)]
      /\ awaiting' \in [Processer -> {"none", "header", "body"}]
  <2>1. /\ outgoing' = [outgoing EXCEPT ![c] = <<>>]
        /\ awaiting' = [awaiting EXCEPT ![c] = IF c \in Closing THEN "header" ELSE awaiting[c]]
    BY <1>3, <1>4 DEF K!WriteDone
  <2>2. <<>> \in Seq(C!WriteTurn)
    OBVIOUS
  <2> QED BY <1>4, <2>1, <2>2
<1>6. ClientTypes'
  BY <1>1, <1>2, <1>5 DEF ClientTypes
<1>7. CA!AInv'
  BY <1>1, <1>2, NothingSent
<1>8. Asking(c)'
  <2>1. ~Writes(c)' /\ ~Unposted(c)'
    BY <1>5 DEF Writes, Unposted, HalfPosted
  <2>2. ServerGone(c)' <=> ServerGone(c)
    BY <1>1 DEF ServerGone, C!Running
  <2> QED BY <1>1, <1>2, <1>3, <1>5, <2>1, <2>2 DEF InTurn, Asking
<1>9. Hearing(c)'
  <2>1. c \in Closing => awaiting[c] = "none" /\ heard[c] = 2 * Len(told[c])
    BY <1>1, <1>2 DEF InTurn, Hearing
  <2>2. asked[c] = Len(told[c]) + 1
    BY <1>1, <1>2 DEF InTurn, Hearing
  <2> QED BY <1>1, <1>2, <1>5, <2>1, <2>2 DEF InTurn, Hearing
<1>10. Staying(c)'
  BY <1>1, <1>2 DEF InTurn, Staying, ServerGone, C!Running
<1> QED BY <1>1, <1>5, <1>6, <1>7, <1>8, <1>9, <1>10, ClientKeeps DEF OnlyOf, InTurn
-----------------------------------------------------------------------------
(* Clients, connections and processers together.                           *)

\* A step that concerns no processer changes no room, also when the process has
\* ended.
LEMMA QuietFits ==
  ASSUME EInv, NotProcessing, UNCHANGED <<server, pool, protoId, reading>>,
         peer' \in [Processer -> {"none", "open", "closed", "reset", "dropped"}],
         \A p \in Processer : peer'[p] = "none" => peer[p] = "none"
  PROVE  EngineStepFits
<1>1. /\ UNCHANGED <<general, generalChat, games, playerId, named>>
  BY DEF NotProcessing, rooms
<1>2. Owned'
  BY OwnedKept DEF EInv, Owned
<1>3. NoGhosts' /\ SeatsFit'
  BY <1>1 DEF EInv, NoGhosts, SeatsFit, Live
<1>4. C!Running' => Inv' /\ playerId' = protoId'
  BY <1>1, NotProcessingKeeps DEF EInv, C!Running
<1>5. UNCHANGED M!mvars
  BY <1>1, Stutters
<1> QED BY <1>2, <1>3, <1>4, <1>5 DEF EngineStepFits, EInv

\* The request that is served is one of the script.
LEMMA ServedIsAsked ==
  ASSUME SInv, NEW c \in Processer, Len(posted[c]) > current[c]
  PROVE  Script[c][posted[c][current[c] + 1]].ask \in Request
<1>1. /\ posted[c] = UpTo(sent[c]) /\ sent[c] <= asked[c] /\ asked[c] <= Len(Script[c])
      /\ sent[c] \in Nat /\ asked[c] \in Nat /\ current[c] \in Nat
  BY DEF SInv, InTurn, Asking, CA!AInv, CA!AnswerTypes, ClientTypes
<1>2. Len(posted[c]) = sent[c] /\ \A k \in 1..sent[c] : posted[c][k] = k
  BY <1>1, Counting
<1>3. Len(Script[c]) \in Nat
  BY ScriptAssumption
<1>4. current[c] + 1 \in 1..sent[c] /\ current[c] + 1 \in 1..Len(Script[c])
  BY <1>1, <1>2, <1>3
<1>5. posted[c][current[c] + 1] = current[c] + 1
  BY <1>2, <1>4
<1> QED BY <1>4, <1>5, ScriptAssumption

\* Every step of clients and server fits the processers.
LEMMA SessionFits == ASSUME EInv, SInv, SessionNext PROVE EngineStepFits
<1>0. peer \in [Processer -> {"none", "open", "closed", "reset", "dropped"}]
  BY DEF EInv, Owned
<1>1. ASSUME NEW c \in Processer, ClientStep(c) \/ Killed(c) PROVE EngineStepFits
  <2>1. ServerStays
    BY <1>1 DEF ClientStep, Dial, ClientReads, ClientWrites, Killed
  <2>2. NotProcessing /\ UNCHANGED <<server, pool, protoId, reading, peer>>
    BY <2>1 DEF ServerStays
  <2> QED BY <1>0, <2>2, QuietFits
<1>2. ASSUME NEW c \in Processer, EndReaches(c) PROVE EngineStepFits
  <2>1. /\ NotProcessing /\ UNCHANGED <<server, pool, protoId, reading>>
        /\ \E how \in {"closed", "reset"} : peer' = [peer EXCEPT ![c] = how]
    BY <1>2 DEF EndReaches, C!PeerLeaves, C!PeerResets
  <2>2. /\ peer' \in [Processer -> {"none", "open", "closed", "reset", "dropped"}]
        /\ \A p \in Processer : peer'[p] = "none" => peer[p] = "none"
    BY <1>0, <2>1
  <2> QED BY <2>1, <2>2, QuietFits
<1>3. ASSUME NEW c \in Processer, ServerStep(c) PROVE EngineStepFits
  <2>1. CASE Serves(c)
    <3>1. OnReadSuccess(c, Script[c][posted[c][current[c] + 1]].ask)
      BY <2>1 DEF Serves
    <3>2. Script[c][posted[c][current[c] + 1]].ask \in Request
      BY <2>1, ServedIsAsked DEF Serves
    <3> QED BY <3>1, <3>2, ReadSuccessFits
  <2>2. CASE OnAccept(c) \/ OnReadFail(c) \/ OnReadFailThrows(c)
    BY <2>2, AcceptFits, ReadFailFits, ReadFailThrowsFits
  <2>3. CASE (C!ReadHeader(c) \/ C!WriteStep(c) \/ C!Aborted(c)) /\ NotProcessing
    BY <2>3, OtherStepFits DEF OtherStep
  <2> QED BY <1>3, <2>1, <2>2, <2>3 DEF ServerStep, Accepts, ServerReads, ServerWrites, Discards
<1>4. CASE LoopEnds
  BY <1>4, OtherStepFits DEF LoopEnds, OtherStep
<1> QED BY <1>1, <1>2, <1>3, <1>4 DEF SessionNext

\* Every step of clients and server keeps requests and answers in turn.
LEMMA SessionInTurn == ASSUME EInv, EInv', SInv, SessionNext PROVE SInv'
<1>1. ASSUME NEW c \in Processer, ClientStep(c) \/ Killed(c) PROVE SInv'
  <2>1. CASE Dial(c) \/ Killed(c)
    BY <2>1, DialInTurn, ConnectInTurn DEF Dial
  <2>2. CASE ClientReads(c)
    <3>1. Unserved(c) \in BOOLEAN
      BY DEF Unserved
    <3> QED BY <2>2, <3>1, HeaderInTurn, BodyInTurn, FailureInTurn DEF ClientReads
  <2>3. CASE ClientWrites(c)
    <3>1. CASE ServerGone(c) /\ K!WriteFails(c, TRUE) /\ UNCHANGED <<stream, sent, posted>>
      BY <2>3, <3>1, FailureInTurn DEF ClientWrites
    <3>2. CASE K!WriteDone(c) /\ UNCHANGED <<stream, sent, posted>>
      BY <2>3, <3>2, WriteDoneInTurn DEF ClientWrites
    <3>3. CASE K!WriteSome(c) \/ K!WriteLast(c)
      <4>1. outgoing[c] # <<>> /\ ~K!Completed(c)
        BY <3>3 DEF K!WriteSome, K!WriteLast, K!Completed
      <4>2. /\ Head(outgoing[c])[1] = asked[c] /\ (Unposted(c) <=> Head(outgoing[c])[2] = "begin")
            /\ Writes(c)
        BY <4>1, WritesLast
      <4>3. CASE K!WriteSome(c) /\ Post(c, Head(outgoing[c])[1], <<"header">>)
        BY <2>3, <4>2, <4>3, WritesInTurn DEF ClientWrites, K!WriteSome
      <4>4. CASE /\ K!WriteLast(c)
                 /\ Post(c, Head(outgoing[c])[1], IF Head(outgoing[c])[2] = "begin"
                                                 THEN <<"header", "body">> ELSE <<"body">>)
        BY <2>3, <4>2, <4>4, WritesInTurn DEF ClientWrites
      <4> QED BY <2>3, <3>1, <3>2, <4>3, <4>4 DEF ClientWrites
    <3> QED BY <2>3, <3>1, <3>2, <3>3 DEF ClientWrites
  <2> QED BY <1>1, <2>1, <2>2, <2>3 DEF ClientStep
<1>2. ASSUME NEW c \in Processer, EndReaches(c) PROVE SInv'
  BY <1>2, EndInTurn
<1>3. ASSUME NEW c \in Processer, ServerStep(c) PROVE SInv'
  <2>1. CASE Serves(c)
    <3>1. /\ C!ReadBody(c) /\ UNCHANGED clientVars
          /\ answer' = [answer EXCEPT ![c] =
                          Append(answer[c], [status |-> reply'.status, body |-> reply'.body])]
      BY <2>1 DEF Serves, OnReadSuccess, SInv, ClientTypes
    <3>2. C!Running'
      BY <3>1 DEF C!ReadBody, C!Running
    <3>3. reply' \in [to : Processer \union {Nobody}, op : OpCode, status : Status, body : Seq(Nat)]
      BY <3>2 DEF EInv, Inv, TypeOK
    <3>4. [status |-> reply'.status, body |-> reply'.body] \in Given
      BY <3>3 DEF Given
    <3> QED BY <3>1, <3>4, ServedInTurn
  <2>2. CASE ~Serves(c)
    <3>1. /\ UNCHANGED <<clientVars, answer>>
          /\ \/ C!Accept(c) /\ socket[c] \in {"open", "closed"}
             \/ C!ReadHeader(c) \/ C!Lose(c) \/ C!LoseThrows(c)
             \/ C!WriteStep(c) \/ C!Aborted(c)
      BY <1>3, <2>2 DEF ServerStep, Accepts, ServerReads, ServerWrites, Discards,
                        OnAccept, OnReadFail, OnReadFailThrows
    <3> QED BY <3>1, ServerInTurn
  <2> QED BY <2>1, <2>2
<1>4. CASE LoopEnds
  <2>1. CASE Processer # {}
    BY <1>4, <2>1, ServerInTurn DEF LoopEnds
  <2>2. CASE Processer = {}
    <3>1. UNCHANGED <<clientVars, answer, writing, reading, received, current, sent, stream, peer>>
      BY <1>4 DEF LoopEnds, C!AcceptFails, C!RunReturns, C!netVars
    <3>2. CA!AInv'
      BY <3>1, NothingSent DEF SInv
    <3>3. ClientTypes'
      BY <3>1 DEF SInv, ClientTypes, clientVars
    <3> QED BY <2>2, <3>2, <3>3 DEF SInv
  <2> QED BY <2>1, <2>2
<1> QED BY <1>1, <1>2, <1>3, <1>4 DEF SessionNext
\* Before anything happens, all is in turn.
LEMMA SessionInitInTurn == SessionInit => EInv /\ SInv
<1> SUFFICES ASSUME SessionInit PROVE EInv /\ SInv
  OBVIOUS
<1>1. EInv
  BY EngineInitInv DEF SessionInit
<1>2. CA!AInv
  <2>1. CA!Init
    BY DEF SessionInit, EngineInit, C!Init, CA!Init
  <2> QED BY <2>1, CA!InitInOrder, PeersAssumption
<1>3. ClientTypes
  BY DEF SessionInit, K!Init, ClientTypes
<1>4. ASSUME NEW c \in Processer PROVE InTurn(c)
  <2>1. /\ asked[c] = 0 /\ request[c] = 0 /\ outgoing[c] = <<>> /\ awaiting[c] = "none"
        /\ told[c] = <<>> /\ posted[c] = <<>> /\ heard[c] = 0 /\ answer[c] = <<>>
        /\ loop[c] = "running"
    BY DEF SessionInit, K!Init
  <2>2. sent[c] = 0 /\ current[c] = 0 /\ received[c] = <<>> /\ peer[c] = "none"
    BY DEF SessionInit, EngineInit, C!Init
  <2>3. UpTo(0) = <<>> /\ Len(<<>>) = 0 /\ 0 <= Len(Script[c])
    BY Counting, ScriptAssumption
  <2>4. ~Unposted(c) /\ ~Writes(c)
    BY <2>1 DEF Writes, Unposted, HalfPosted
  <2>5. Asking(c)
    BY <2>1, <2>2, <2>3, <2>4 DEF Asking
  <2>6. Hearing(c)
    BY <2>1, <2>2, <2>3 DEF Hearing
  <2>7. Staying(c)
    BY <2>1, <2>2 DEF Staying, K!Running
  <2> QED BY <2>5, <2>6, <2>7 DEF InTurn
<1> QED BY <1>1, <1>2, <1>3, <1>4 DEF SInv

\* The invariants are inductive together: what the server answers has the types of
\* the processers, and what it is asked is in the scripts.
LEMMA SessionKeeps ==
  EInv /\ SInv /\ [SessionNext]_sessionVars => EInv' /\ SInv' /\ [M!MNext]_(M!mvars)
<1> SUFFICES ASSUME EInv, SInv, [SessionNext]_sessionVars
             PROVE  EInv' /\ SInv' /\ [M!MNext]_(M!mvars)
  OBVIOUS
<1>1. CASE SessionNext
  BY <1>1, SessionFits, SessionInTurn DEF EngineStepFits
<1>2. CASE UNCHANGED sessionVars
  <2>1. UNCHANGED engineVars
    BY <1>2 DEF sessionVars
  <2>2. EInv' /\ [M!MNext]_(M!mvars)
    BY <2>1, EngineNextFits DEF EngineStepFits
  <2>3. /\ UNCHANGED <<server, reading, writing, received, current, sent, stream, peer>>
        /\ UNCHANGED clientVars /\ UNCHANGED answer
    BY <1>2 DEF sessionVars, engineVars, C!vars
  <2>4. CA!AInv'
    BY <2>3, NothingSent DEF SInv
  <2>5. ASSUME NEW q \in Processer PROVE FromOutside(q)
    <3>1. /\ Len(answer[q]) = current[q]
          /\ Writes(q) => CA!Bodies(q) = {} /\ CA!Quiet(q)
      BY DEF SInv, InTurn, Asking
    <3>2. Len(received[q]) \in Nat /\ Len(received[q]) <= Len(received[q])
      BY DEF SInv, CA!AInv, CA!AnswerTypes
    <3> QED BY <2>3, <3>1, <3>2 DEF FromOutside, ServerGone, C!Running, CA!Bodies, CA!Idle, CA!Over, CA!Quiet
  <2>6. answer' \in [Processer -> Seq(Given)]
    BY <2>3 DEF SInv, ClientTypes
  <2> QED BY <2>2, <2>3, <2>4, <2>5, <2>6, NotTheirs
<1> QED BY <1>1, <1>2

-----------------------------------------------------------------------------

\* The invariants hold in every reachable state of clients and server.
THEOREM SessionInvHolds == SessionSpec => [](EInv /\ SInv)
<1>1. (EInv /\ SInv) /\ [SessionNext]_sessionVars => (EInv /\ SInv)'
  BY SessionKeeps
<1> QED BY <1>1, SessionInitInTurn, PTL DEF SessionSpec

\* From end to end, a client's k-th answer is the one the server gave to its k-th
\* request, whatever is lost and whoever ends (write() and read() of the client
\* library, InputConnection::write): no message says which request it answers.
THEOREM PairedHolds == SessionSpec => []Paired
<1>1. SInv => Paired
  <2> SUFFICES ASSUME SInv, NEW c \in Processer
               PROVE  /\ posted[c] = [k \in DOMAIN posted[c] |-> k]
                      /\ told[c]   = [k \in DOMAIN told[c] |-> k]
                      /\ Len(told[c]) <= Len(answer[c]) /\ Len(answer[c]) <= asked[c]
    BY DEF Paired
  <2>1. /\ InTurn(c) /\ CA!OneByOne(c)
        /\ told[c] \in Seq(Nat) /\ Len(told[c]) \in Nat /\ Len(received[c]) \in Nat
        /\ sent[c] \in Nat /\ current[c] \in Nat /\ asked[c] \in Nat /\ heard[c] \in Nat
    BY DEF SInv, CA!AInv, CA!AnswerTypes, ClientTypes
  <2>2. posted[c] = UpTo(sent[c]) /\ told[c] = UpTo(Len(told[c]))
    BY <2>1 DEF InTurn, Asking, Hearing
  <2>3. /\ Len(answer[c]) = current[c] /\ current[c] <= sent[c] /\ sent[c] <= asked[c]
        /\ heard[c] <= Len(received[c]) /\ Len(received[c]) <= 2 * current[c]
        /\ heard[c] = 2 * Len(told[c]) \/ heard[c] = 2 * Len(told[c]) + 1
    BY <2>1 DEF InTurn, Asking, Hearing, CA!OneByOne
  <2>4. Len(told[c]) <= current[c] /\ current[c] <= asked[c]
    BY SMTT(30), <2>1, <2>3
  <2>5. \A n \in Nat : UpTo(n) = [k \in DOMAIN UpTo(n) |-> k]
    BY DEF UpTo
  <2> QED BY <2>1, <2>2, <2>3, <2>4, <2>5
<1> QED BY <1>1, SessionInvHolds, PTL

\* A program that stops by itself has been told everything it asked, unless it could
\* not connect, or the server ended or dropped it (on_read_success and the failure
\* callbacks of protocol/test/client.cpp).
THEOREM StopsWhenToldHolds == SessionSpec => []StopsWhenTold
<1>1. SInv => StopsWhenTold
  BY DEF SInv, InTurn, Staying, StopsWhenTold
<1> QED BY <1>1, SessionInvHolds, PTL

\* The request passed to on_write_success is the one that was written
\* (OutputConnection keeps it in m_current_request).
THEOREM ClientCallbackIsTrue == SessionSpec => CallbackIsTrue
<1>1. SInv /\ [SessionNext]_sessionVars =>
        [\A c \in Processer : K!WriteDone(c) => Head(outgoing[c])[1] = request[c]]_sessionVars
  BY WritesLast DEF K!WriteDone, K!Completed
<1> QED BY <1>1, SessionInvHolds, PTL DEF SessionSpec, CallbackIsTrue

\* What does not hold of every peer holds of the clients of the repository, for they
\* await each answer: the answers come whole, one after the other, and on_write_succeed
\* is told the one that was written (write() and read() of the client library).
THEOREM ClientsAreAnswered ==
  SessionSpec => []C!AnswersInOrder /\ C!CallbackIsTrue
<1>1. SInv => C!AnswersInOrder
  <2> SUFFICES ASSUME SInv, NEW c \in Processer
               PROVE  /\ received[c] = [k \in DOMAIN received[c] |-> C!PieceOf(k)]
                      /\ Len(received[c]) <= 2 * sent[c]
    BY DEF C!AnswersInOrder
  <2>1. /\ received[c] \in Seq(CA!Piece) /\ CA!OneByOne(c) /\ Len(received[c]) \in Nat
        /\ current[c] \in Nat /\ sent[c] \in Nat
    BY DEF SInv, CA!AInv, CA!AnswerTypes
  <2>2. \A k \in DOMAIN received[c] : received[c][k] = C!PieceOf(k)
    BY <2>1 DEF CA!OneByOne, CA!PieceOf, C!PieceOf
  <2>3. Len(received[c]) <= 2 * sent[c]
    BY <2>1 DEF CA!OneByOne
  <2> QED BY <2>1, <2>2, <2>3
<1>2. SInv /\ [SessionNext]_sessionVars =>
        [\A c \in Processer : C!WriteDone(c) => Head(writing[c])[1] = current[c]]_(C!vars)
  BY CA!WritingLast, PeersAssumption DEF C!WriteDone, C!Completed, SInv
<1> QED BY <1>1, <1>2, SessionInvHolds, PTL DEF SessionSpec, C!CallbackIsTrue

\* With the clients of the repository too, the server leaves no ghosts in the rooms,
\* keeps those it serves, and its pool, Protocols and reads agree.
THEOREM ServerHolds ==
  SessionSpec => [](NoGhosts /\ ServedStay /\ ConnectionsAgree)
<1>1. EInv => NoGhosts /\ ServedStay /\ ConnectionsAgree
  BY DEF EInv, Owned, Inv, ServedStay
<1> QED BY <1>1, SessionInvHolds, PTL

\* Clients and server together implement Membership.
THEOREM SessionImplementsMembership == SessionSpec => ImplementsMembership
<1>1. SessionInit => M!MInit
  <2> SUFFICES ASSUME SessionInit PROVE M!MInit
    OBVIOUS
  <2>1. Range(general) = {} /\ [i \in DOMAIN games |-> TableOf(games[i])] = <<>>
    BY DEF SessionInit, EngineInit, Init, RoomInit, Range
  <2> QED BY <2>1 DEF M!MInit
<1>2. (EInv /\ SInv) /\ [SessionNext]_sessionVars => [M!MNext]_(M!mvars)
  BY SessionKeeps
<1> QED BY <1>1, <1>2, SessionInvHolds, PTL DEF SessionSpec, ImplementsMembership, M!MSpec
=============================================================================
