------------------------------ MODULE MCSession ------------------------------
(* Instances of Session for TLC: the .cfg files choose them.               *)
EXTENDS Session

CONSTANTS closer, stayer

Step(op, body, statuses) ==
  [ask |-> [op |-> op, body |-> body],
   asserted |-> [status : statuses, body : BoundedSeq(0..2, 3)]]

\* The closing program of protocol/test/client.cpp, and the beginning, the game
\* and the end of a program of server/test/client.
ShortScript ==
  [c \in Processer |->
     IF c = closer
     THEN <<Step("LEAVE", <<Word, Word, Word, Word, Word, Word>>, {})>>
     ELSE <<Step("CLIENT_CONNECT", <<Word>>, {"CLIENT_CONNECTED"}),
            Step("CREATE_GAME", <<Word, 1, 1, 0>>, {"GAME_CREATED"})>>]

ShortRequest == {ShortScript[c][k].ask : <<c, k>> \in {<<closer, 1>>, <<stayer, 1>>, <<stayer, 2>>}}

\* The closing program and its server send each message in one piece: the pieces
\* are for the program that asks again.
ClosersWhole == "end" \notin {w[2] : w \in Range(writing[closer] \o outgoing[closer])}
=============================================================================
