------------------------------ MODULE MCEngine ------------------------------
(* Instances of Engine for TLC: the .cfg files choose them.                *)
EXTENDS Engine

\* Connections are interchangeable until they are accepted.  For safety only.
EngineSymmetry == Permutations(Processer)

\* One reset is enough, of the last connection: the server ends when it reads it.
LastReset == \A p, q \in Processer :
  peer[p] = "reset" /\ peer[q] \in {"none", "open", "reset"} => p = q

\* An answer is sent in one piece: what a piece of it changes, no processer sees.
WholeAnswers == \A p \in Processer : "end" \notin {w[2] : w \in Range(writing[p])}

\* Requests that move a client between the rooms.
MovingRequest == {[op |-> "CLIENT_CONNECT", body |-> <<Word>>],
                  [op |-> "CREATE_GAME",    body |-> <<Word, 1, 1, 30>>],
                  [op |-> "JOIN_AS_PLAYER", body |-> <<1>>],
                  [op |-> "LEAVE",          body |-> <<>>]}
=============================================================================
