-------------------------------- MODULE Engine --------------------------------
(***************************************************************************)
(* The whole server (server/src/server_engine.cpp): the connections of     *)
(* Connections, each with the request processer its Protocol owns, over the*)
(* rooms they share.  A step of the connections that calls the processer   *)
(* is one step with what the call does.                                    *)
(***************************************************************************)
EXTENDS RequestProcesser

CONSTANTS MaxSent, Sends, Leaves      \* see Connections

ASSUME PeersAssumption == /\ MaxSent \in Nat
                          /\ Sends  \subseteq {"header", "bad header", "torn"}
                          /\ Leaves \subseteq {"closed", "reset"}

VARIABLES server, accepting, pool, protoId, reading, writing, current,
          orphans, peer, stream, sent, received

C == INSTANCE Connections WITH Conn <- Processer

engineVars == <<vars, C!vars>>

-----------------------------------------------------------------------------

EngineInit == Init /\ C!Init

\* on_accept: the pool makes a Protocol, which makes a RequestProcesser of that id.
\* PlayerId is a bound here: with an id for each processer it excludes nothing.
OnAccept(p) == C!Accept(p) /\ \E c \in PlayerId : c = C!NewId /\ Construct(p, c)

\* Protocol::on_read_success.
OnReadSuccess(p, r) == C!ReadBody(p) /\ Process(p, r)

\* Protocol::on_read_fail: out of the rooms first, then close.
OnReadFail(p) == C!Lose(p) /\ RemoveFromRoom(p)

OnReadFailThrows(p) == /\ C!LoseThrows(p)
                       /\ RemoveFromBoth(playerId[p])
                       /\ reply' = NoReply
                       /\ UNCHANGED <<playerId, named>>

\* Nothing of the processers changes, and none of them returns anything.
NotProcessing == reply' = NoReply /\ UNCHANGED <<rooms, playerId, named>>

\* What the processers do not see.
OtherStep == /\ \/ C!AcceptFails
                \/ C!RunReturns
                \/ \E p \in Processer : \/ C!ReadHeader(p)
                                        \/ C!ReadBadHeader(p)
                                        \/ C!WriteStep(p)
                                        \/ C!Aborted(p)
                                        \/ C!PeerStep(p)
             /\ NotProcessing

EngineNext == \/ \E p \in Processer : \/ OnAccept(p)
                                      \/ \E r \in Request : OnReadSuccess(p, r)
                                      \/ OnReadFail(p)
                                      \/ OnReadFailThrows(p)
              \/ OtherStep

EngineSpec == EngineInit /\ [][EngineNext]_engineVars

-----------------------------------------------------------------------------

\* The pool, the Protocols and the outstanding reads agree, also when the pool
\* has given an id to two connections, and the loss of one destroys both.
ConnectionsAgree == C!PoolIsOpen /\ C!OpenIsReading

\* While the server runs, a client that introduced itself stays in the general
\* room for as long as its connection is served, also when the pool has given
\* its id to another connection, which may be the first of the two to be lost.
ServedStay == C!Running => EnteredStay
=============================================================================
