------------------------------ MODULE Scenario ------------------------------
(***************************************************************************)
(* The two test programs of server/test/client, against the server: one    *)
(* introduces itself, tries every wrong way to create a game, creates one  *)
(* and asks about it; the other looks for that game, tries every wrong way *)
(* to join it, joins it, leaves it and watches it.  Nothing makes one wait *)
(* for the other.                                                          *)
(***************************************************************************)
EXTENDS Session

CONSTANTS founder,      \* client.cpp
          visitor       \* client_simple_join.cpp

\* The answers that a step of a script expects, all EXPECT_EQ and ASSERT_EQ
\* taken together, and those it asserts: after any other, it does not go on.
Asserts(op, body, status, bodies) ==
  LET good == [status : {status}, body : bodies] IN
  [ask |-> [op |-> op, body |-> body], expect |-> good, asserted |-> good]

Expects(op, body, status, bodies) ==
  [ask |-> [op |-> op, body |-> body], expect |-> [status : {status}, body : bodies],
   asserted |-> [status : Status, body : bodies]]

\* "game01" and the other texts are Words; the game is the first to be created.
Founding == <<
  Asserts("CLIENT_CONNECT", <<Word>>, "CLIENT_CONNECTED", PlayerId \X {GeneralId}),
  Asserts("SEND_MESSAGE", <<GeneralId, Word>>, "OK", {<<>>}),
  Expects("CREATE_GAME", <<Word, 1>>, "FORMAT_ERROR", {<<1>>}),
  Expects("CREATE_GAME", <<Word, 1, Word, 0>>, "FORMAT_ERROR", {<<2>>}),
  Expects("CREATE_GAME", <<Word, 2, 300, 0>>, "FORMAT_ERROR", {<<3>>}),
  Expects("CREATE_GAME", <<Word, 1, 300, 300>>, "FORMAT_ERROR", {<<4>>}),
  Expects("CREATE_GAME", <<Word, 1, 300, Word>>, "FORMAT_ERROR", {<<4>>}),
  Expects("CREATE_GAME", <<Word, Word, 300, 0>>, "FORMAT_ERROR", {<<3>>}),
  Asserts("CREATE_GAME", <<Word, 1, 1, 0>>, "GAME_CREATED", {<<1>>}),
  Expects("GET_GAME_INFO", <<>>, "LIST_GAME", {<<1>>}),
  Expects("NBR_PEOPLE_LOGGED_IN", <<>>, "NUMBER_CLIENT_CONNECTED", {<<1>>}),
  Expects("PLAYER_LOGGED_IN", <<1>>, "PLAYER_NUMBER", {<<1>>}),
  Expects("CREATE_GAME", <<Word, 1, 3, 0>>, "PERMISSION_DENIED", {<<>>}),
  Expects("GET_NBR_GAME_CREATED", <<>>, "NUMBER_OF_GAME", {<<1>>}) >>

AnyJoinInfo == {0, 1} \X (1..MaxPlayers) \X TimeLimit

Visiting == <<
  Expects("GET_GAME_INFO", <<1>>, "LIST_GAME", {<<1>>}),
  Expects("JOIN_AS_VIEWER", <<Word>>, "FORMAT_ERROR", {<<1>>}),
  Expects("JOIN_AS_VIEWER", <<3000>>, "ROOM_NOT_FOUND", {<<>>}),
  Expects("JOIN_AS_PLAYER", <<Word>>, "FORMAT_ERROR", {<<1>>}),
  Expects("JOIN_AS_PLAYER", <<3000>>, "ROOM_NOT_FOUND", {<<>>}),
  Asserts("JOIN_AS_PLAYER", <<1>>, "CLIENT_JOIN_GAME", AnyJoinInfo),
  Asserts("JOIN_AS_VIEWER", <<1>>, "PERMISSION_DENIED", {<<>>}),
  Asserts("JOIN_AS_PLAYER", <<1>>, "PERMISSION_DENIED", {<<>>}),
  Asserts("LEAVE", <<>>, "LEAVE_SUCCESS", {<<>>}),
  Asserts("JOIN_AS_VIEWER", <<1>>, "CLIENT_JOIN_GAME", AnyJoinInfo),
  Expects("GET_GAME_STATUS", <<1>>, "GAME_STATUS", {<<0>>}),
  Expects("GET_GAME_STATUS", <<Word>>, "FORMAT_ERROR", {<<1>>}),
  Expects("GET_GAME_STATUS", <<33>>, "ROOM_NOT_FOUND", {<<>>}) >>

TestScript  == [c \in Processer |-> IF c = founder THEN Founding ELSE Visiting]
TestRequest == UNION {{TestScript[c][k].ask : k \in DOMAIN TestScript[c]} : c \in Processer}

-----------------------------------------------------------------------------

\* The visitor may be lost at any time; the founder stays, and the server goes on
\* accepting.
ScenarioNext ==
  \/ \E c \in Processer : ClientStep(c) \/ ServerStep(c)
  \/ Killed(visitor)
  \/ EndReaches(visitor)

\* Fairness is that of a session.
ScenarioSpec ==
  /\ SessionInit /\ [][ScenarioNext]_sessionVars
  /\ \A c \in Processer : WF_sessionVars(ClientStep(c)) /\ WF_sessionVars(ServerStep(c))
  /\ WF_sessionVars(EndReaches(visitor))

\* A bound: each message is sent in one piece.  Pieces are for other instances of
\* Session, and no program sees them.
WholeMessages == \A c \in Processer : "end" \notin {w[2] : w \in Range(writing[c] \o outgoing[c])}

-----------------------------------------------------------------------------
(* Properties.                                                             *)

\* The visitor is early: it looks for a game before there is one.  Or the founder
\* is late: it counts the players while the visitor is one of them.
Early(c, step) == c = visitor /\ step.ask.op = "GET_GAME_INFO" /\ games = <<>>
Late(c, step)  == /\ c = founder /\ step.ask.op = "PLAYER_LOGGED_IN"
                  /\ playerId[visitor] \in Range(games[1].players)

\* Whatever the order in which the two programs are served, and whoever of them is
\* lost, every answer is the one that the test expects, save for these two races,
\* in which it never is.
AsExpected ==
  [][\A c \in Processer :
       answer'[c] # answer[c] =>
         LET step == Script[c][Len(answer'[c])] IN
         Last(answer'[c]) \in step.expect <=> ~Early(c, step) /\ ~Late(c, step)]_sessionVars

\* A test program that is not killed and can connect comes to the end of its
\* script, or to one of the races, unless the other's being killed ends the server.
Refused(c) == /\ told[c] # <<>>
              /\ answer[c][Len(told[c])] \notin Script[c][Len(told[c])].asserted

ScriptsEnd == \A c \in Processer :
  <>[](~K!Running(c) \/ Len(told[c]) = Len(Script[c]) \/ Refused(c) \/ ~C!Running)
=============================================================================
