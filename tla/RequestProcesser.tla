-------------------------- MODULE RequestProcesser --------------------------
(***************************************************************************)
(* The request processers of the server, one per connection                *)
(* (server/src/request_processer.cpp): process() answers a request of its  *)
(* client from the shared rooms, and remove_from_room() takes the client   *)
(* out of them when its connection is lost.  The server runs every handler *)
(* on the thread of its io_service, so a handler is one step.              *)
(*                                                                         *)
(* A processer only knows its client by the player id it is constructed    *)
(* with.  Nothing here makes two live processers' ids different: that is   *)
(* the business of the connection pool.                                    *)
(***************************************************************************)
EXTENDS RoomInterface

CONSTANTS Processer,    \* the processer objects
          PlayerId,     \* the player ids they are constructed with
          Nobody,       \* not a processer
          Word,         \* a text that std::stoi does not convert
          Request,      \* the requests that clients make
          MaxGames,     \* bound: games created
          MaxChat       \* bound: messages kept by a room

ASSUME ProcesserAssumption == Nobody \notin Processer
ASSUME PlayerIdAssumption  == PlayerId \subseteq Nat \ {0}
ASSUME WordAssumption == Word \notin Nat
ASSUME RequestAssumption ==
  Request \subseteq [op : {"CLIENT_CONNECT", "SEND_MESSAGE", "LEAVE", "CREATE_GAME",
                          "GET_GAME_INFO", "NBR_PEOPLE_LOGGED_IN", "JOIN_AS_PLAYER",
                          "JOIN_AS_VIEWER", "PLAYER_LOGGED_IN", "GET_NBR_GAME_CREATED",
                          "GET_GAME_STATUS", "OTHER"},
                   body : Seq(Nat \union {Word})]
ASSUME BoundAssumption == MaxGames \in Nat /\ MaxChat \in Nat

VARIABLES playerId,     \* m_player_id of each processer; 0: not constructed
          named,        \* the processers whose m_nickname has been assigned
          reply         \* what the last handler returned, and to which processer

vars == <<general, generalChat, games, playerId, named, reply>>

TimeLimit == {0, 30, 90}
Live == {p \in Processer : playerId[p] # 0}

NoReply == [to |-> Nobody, op |-> "NONE", status |-> "NONE", body |-> <<>>]
Return(p, op, status, body) ==
  reply' = [to |-> p, op |-> op, status |-> status, body |-> body]

\* An answer that reports something and changes nothing else.
Answer(p, op, status, body) ==
  Return(p, op, status, body) /\ UNCHANGED <<rooms, playerId, named>>

-----------------------------------------------------------------------------
(* Life of a processer.                                                    *)

Construct(p, c) ==
  /\ p \notin Live
  /\ playerId' = [playerId EXCEPT ![p] = c]
  /\ reply' = NoReply
  /\ UNCHANGED <<rooms, named>>

\* Mutant: removal destroys one processer, not all those of the id.
Itself(p) == {p}

\* The processers that act for the same player as p.
Namesakes(p) == {q \in Live : playerId[q] = playerId[p]}

\* remove_from_room(), run on a read failure: the handler then closes the
\* connection, and the pool destroys every processer stored under its id.
RemoveFromRoom(p) ==
  /\ RemoveFromBoth(playerId[p])
  /\ playerId' = [q \in Processer |-> IF q \in Namesakes(p) THEN 0 ELSE playerId[q]]
  /\ named' = named \ Namesakes(p)
  /\ reply' = NoReply

-----------------------------------------------------------------------------
(* The requests that process() dispatches, one action per operation code.  *)
(* A handler checks the body it is given, then the rooms, in the order of  *)
(* the code: the body is a vector of texts, each a number or a Word.       *)

\* Mutant: entered without being looked for.
ConnectUserAgain(p, body) ==
  /\ InsertOnGeneral(playerId[p])
  /\ named' = named \union {p}
  /\ Return(p, "CLIENT_CONNECT", "CLIENT_CONNECTED", <<playerId[p], GeneralId>>)
  /\ UNCHANGED playerId

\* CLIENT_CONNECT: a nickname is kept only by the request that enters.
ConnectUser(p, body) ==
  LET c == playerId[p] IN
  \/ /\ Len(body) # 1
     /\ Answer(p, "CLIENT_CONNECT", "FORMAT_ERROR", <<1>>)
  \/ /\ Len(body) = 1
     /\ InGeneral(c)
     /\ Answer(p, "CLIENT_CONNECT", "CLIENT_ALREADY_IN_ROOM", <<>>)
  \/ /\ Len(body) = 1
     /\ ~InGeneral(c)
     /\ InsertOnGeneral(c)
     /\ named' = named \union {p}
     /\ Return(p, "CLIENT_CONNECT", "CLIENT_CONNECTED", <<c, GeneralId>>)
     /\ UNCHANGED playerId

\* SEND_MESSAGE: the general room asks for membership, a game room does not.
SendMessage(p, body) ==
  LET c    == playerId[p]
      room == body[1]
      Sent == Return(p, "SEND_MESSAGE", "OK", <<>>) /\ UNCHANGED <<playerId, named>>
  IN
  \/ /\ Len(body) # 2
     /\ Answer(p, "SEND_MESSAGE", "FORMAT_ERROR", <<1>>)
  \/ /\ Len(body) = 2 /\ room = Word
     /\ Answer(p, "SEND_MESSAGE", "FORMAT_ERROR", <<2>>)
  \/ /\ Len(body) = 2 /\ room = GeneralId
     /\ ~InGeneral(c)
     /\ Answer(p, "SEND_MESSAGE", "PERMISSION_DENIED", <<>>)
  \/ /\ Len(body) = 2 /\ room = GeneralId
     /\ InGeneral(c)
     /\ Len(generalChat) < MaxChat
     /\ PostToGeneral(c)
     /\ Sent
  \/ /\ Len(body) = 2 /\ room \notin {Word, GeneralId}
     /\ GetGame(room) = 0
     /\ Answer(p, "SEND_MESSAGE", "ROOM_NOT_FOUND", <<>>)
  \/ /\ Len(body) = 2 /\ room \notin {Word, GeneralId}
     /\ GetGame(room) # 0
     /\ Len(games[GetGame(room)].chat) < MaxChat
     /\ PostToGame(GetGame(room), c)
     /\ Sent

\* LEAVE: out of the game, not out of the general room; always a success.
Leave(p) ==
  /\ RemoveFromGame(playerId[p])
  /\ Return(p, "LEAVE", "LEAVE_SUCCESS", <<>>)
  /\ UNCHANGED <<playerId, named>>

\* The first field of CREATE_GAME that is wrong, in the order of the checks,
\* which is not the order of the fields; 0: none.
WrongField(body) ==
  IF Len(body) # 4                  THEN 1
  ELSE IF body[3] = Word            THEN 2
  ELSE IF body[4] \notin TimeLimit  THEN 4
  ELSE IF body[2] \notin {0, 1}     THEN 3
  ELSE 0

\* CREATE_GAME {name, hasViewer, viewers, time}: the viewers are those asked for,
\* whatever hasViewer says, for '0' and '1' are both true as characters.
CreateGame(p, body) ==
  LET c == playerId[p] IN
  \/ /\ IsInRoom(c)
     /\ Answer(p, "CREATE_GAME", "PERMISSION_DENIED", <<>>)
  \/ /\ ~IsInRoom(c)
     /\ WrongField(body) # 0
     /\ Answer(p, "CREATE_GAME", "FORMAT_ERROR", <<WrongField(body)>>)
  \/ /\ ~IsInRoom(c)
     /\ WrongField(body) = 0
     /\ Len(games) < MaxGames
     /\ CreateRoom(c, body[3], body[4])
     /\ Return(p, "CREATE_GAME", "GAME_CREATED", <<Len(games) + 1>>)
     /\ UNCHANGED <<playerId, named>>

\* A body that is one number, as the requests about a game ask for.
IsNumber(body) == Len(body) = 1 /\ body[1] # Word

\* The information of a joined game: viewer limit, players, limit of time.
JoinInfo(g) == <<g.viewerLimit, Len(g.players), g.timeLimit>>

\* JOIN_AS_PLAYER and JOIN_AS_VIEWER share the checks of join_game_room.
JoinAs(p, body, op, Full(_), Insert(_, _)) ==
  LET c == playerId[p]
      i == GetGame(body[1])
  IN
  \/ /\ IsInRoom(c)
     /\ Answer(p, op, "PERMISSION_DENIED", <<>>)
  \/ /\ ~IsInRoom(c) /\ ~IsNumber(body)
     /\ Answer(p, op, "FORMAT_ERROR", <<1>>)
  \/ /\ ~IsInRoom(c) /\ IsNumber(body)
     /\ i = 0
     /\ Answer(p, op, "ROOM_NOT_FOUND", <<>>)
  \/ /\ ~IsInRoom(c) /\ IsNumber(body)
     /\ i # 0 /\ Full(games[i])
     /\ Answer(p, op, "TOO_MANY_CLIENTS", <<>>)
  \/ /\ ~IsInRoom(c) /\ IsNumber(body)
     /\ i # 0 /\ ~Full(games[i])
     /\ Insert(i, c)
     /\ Return(p, op, "CLIENT_JOIN_GAME", JoinInfo(games'[i]))
     /\ UNCHANGED <<playerId, named>>

\* Mutant: one player too many.
PlayersOverfull(g) == Len(g.players) > MaxPlayers

PlayersFull(g) == Len(g.players) = MaxPlayers
NoViewers(g)   == g.viewerLimit = 0

JoinAsPlayer(p, body) == JoinAs(p, body, "JOIN_AS_PLAYER", PlayersFull, InsertPlayer)
JoinAsViewer(p, body) == JoinAs(p, body, "JOIN_AS_VIEWER", NoViewers, InsertViewer)

\* LIST_GAME: the ids of the games, oldest first.
GetGameInfo(p) ==
  Answer(p, "GET_GAME_INFO", "LIST_GAME", [i \in DOMAIN games |-> games[i].id])

GetNbrClientConnected(p) ==
  Answer(p, "NBR_PEOPLE_LOGGED_IN", "NUMBER_CLIENT_CONNECTED", <<Len(general)>>)

GetPlayerNbr(p, body) ==
  LET i == GetGame(body[1]) IN
  \/ /\ ~IsNumber(body)
     /\ Answer(p, "PLAYER_LOGGED_IN", "FORMAT_ERROR", <<1>>)
  \/ /\ IsNumber(body) /\ i = 0
     /\ Answer(p, "PLAYER_LOGGED_IN", "ROOM_NOT_FOUND", <<>>)
  \/ /\ IsNumber(body) /\ i # 0
     /\ Answer(p, "PLAYER_LOGGED_IN", "PLAYER_NUMBER", <<Len(games[i].players)>>)

GetGameCreated(p) ==
  Answer(p, "GET_NBR_GAME_CREATED", "NUMBER_OF_GAME", <<Len(games)>>)

\* GET_GAME_STATUS: no code changes the status a game is created with, NEW = 0.
GetGameStatus(p, body) ==
  \/ /\ ~IsNumber(body)
     /\ Answer(p, "GET_GAME_STATUS", "FORMAT_ERROR", <<1>>)
  \/ /\ IsNumber(body) /\ GetGame(body[1]) = 0
     /\ Answer(p, "GET_GAME_STATUS", "ROOM_NOT_FOUND", <<>>)
  \/ /\ IsNumber(body) /\ GetGame(body[1]) # 0
     /\ Answer(p, "GET_GAME_STATUS", "GAME_STATUS", <<0>>)

\* Every other operation code, CLIENT_DISCONNECT included; the four words of the
\* answer are left out.
Unhandled(p) == Answer(p, "OTHER", "PERMISSION_DENIED", <<>>)

Process(p, r) ==
  \/ r.op = "CLIENT_CONNECT"       /\ ConnectUser(p, r.body)
  \/ r.op = "SEND_MESSAGE"         /\ SendMessage(p, r.body)
  \/ r.op = "LEAVE"                /\ Leave(p)
  \/ r.op = "CREATE_GAME"          /\ CreateGame(p, r.body)
  \/ r.op = "GET_GAME_INFO"        /\ GetGameInfo(p)
  \/ r.op = "NBR_PEOPLE_LOGGED_IN" /\ GetNbrClientConnected(p)
  \/ r.op = "JOIN_AS_PLAYER"       /\ JoinAsPlayer(p, r.body)
  \/ r.op = "JOIN_AS_VIEWER"       /\ JoinAsViewer(p, r.body)
  \/ r.op = "PLAYER_LOGGED_IN"     /\ GetPlayerNbr(p, r.body)
  \/ r.op = "GET_NBR_GAME_CREATED" /\ GetGameCreated(p)
  \/ r.op = "GET_GAME_STATUS"      /\ GetGameStatus(p, r.body)
  \/ r.op = "OTHER"                /\ Unhandled(p)

-----------------------------------------------------------------------------

Init == /\ RoomInit
        /\ playerId = [p \in Processer |-> 0]
        /\ named = {}
        /\ reply = NoReply

Next == \/ \E p \in Processer, c \in PlayerId : Construct(p, c)
        \/ \E p \in Live : RemoveFromRoom(p) \/ \E r \in Request : Process(p, r)

Spec == Init /\ [][Next]_vars

-----------------------------------------------------------------------------
(* Types.                                                                  *)

Status == {"NONE", "OK", "PERMISSION_DENIED", "CLIENT_CONNECTED",
           "FORMAT_ERROR", "LIST_GAME", "NUMBER_CLIENT_CONNECTED",
           "ROOM_NOT_FOUND", "LEAVE_SUCCESS", "NUMBER_OF_GAME", "GAME_CREATED",
           "TOO_MANY_CLIENTS", "CLIENT_JOIN_GAME", "PLAYER_NUMBER",
           "CLIENT_ALREADY_IN_ROOM", "GAME_STATUS"}

OpCode == {"NONE", "CLIENT_CONNECT", "SEND_MESSAGE", "LEAVE", "CREATE_GAME",
           "GET_GAME_INFO", "NBR_PEOPLE_LOGGED_IN", "JOIN_AS_PLAYER",
           "JOIN_AS_VIEWER", "PLAYER_LOGGED_IN", "GET_NBR_GAME_CREATED",
           "GET_GAME_STATUS", "OTHER"}

Game == [id : Nat \ {0}, viewerLimit : Nat, timeLimit : TimeLimit,
         players : Seq(PlayerId), viewers : Seq(PlayerId), chat : Seq(PlayerId)]

\* The types of the rooms, the processers and their answers.
TypeOK == /\ general \in Seq(PlayerId)
          /\ generalChat \in Seq(PlayerId)
          /\ games \in Seq(Game)
          /\ playerId \in [Processer -> PlayerId \union {0}]
          /\ named \subseteq Live
          /\ reply \in [to : Processer \union {Nobody}, op : OpCode,
                        status : Status, body : Seq(Nat)]

-----------------------------------------------------------------------------
(* What must be true of the rooms.                                         *)

SeatedIn(g) == Range(g.players) \union Range(g.viewers)

\* No client is stored twice in one game, in either vector or across the two.
SeatedOnce(g) == /\ IsInjective(g.players)
                 /\ IsInjective(g.viewers)
                 /\ Range(g.players) \intersect Range(g.viewers) = {}

\* A client holds at most one seat over all the games, so that the single erase
\* of GameRoom::remove_client, in the first game found, empties all it holds.
OneSeat == /\ \A i \in DOMAIN games : SeatedOnce(games[i])
           /\ \A i, j \in DOMAIN games :
                i # j => SeatedIn(games[i]) \intersect SeatedIn(games[j]) = {}

\* No client is stored twice in the general room: remove_client erases one.
OneLobbyPlace == IsInjective(general)

\* A room id names one room: the games carry their own place, which is never
\* the general room's id, whatever has been joined and left since.
RoomIds == \A i \in DOMAIN games : games[i].id = i /\ games[i].id # GeneralId

\* Nobody is left behind in the rooms: a client in the general room has a live
\* processer that introduced itself, a client in a game has a live processer.
NoGhosts == /\ \A c \in Range(general) : \E p \in named : playerId[p] = c
            /\ \A i \in DOMAIN games : \A c \in SeatedIn(games[i]) :
                 \E p \in Live : playerId[p] = c

\* A client that introduced itself stays in the general room for as long as its
\* connection is served: no other client's leaving puts it out, unless it shares
\* the id, and then its own processer is destroyed too.
EnteredStay == \A p \in named : InGeneral(playerId[p])

\* An answer is true of the rooms the moment it is given.
ReplyIsTrue ==
  reply.to # Nobody =>
    LET c == playerId[reply.to] IN
    CASE reply.status = "LEAVE_SUCCESS" -> ~IsInRoom(c)
      [] reply.status = "CLIENT_ALREADY_IN_ROOM" -> \E p \in named : playerId[p] = c
      [] reply.status = "NUMBER_CLIENT_CONNECTED" ->
           reply.body = <<Cardinality({d \in PlayerId : InGeneral(d)})>>
      [] reply.status = "GAME_CREATED" ->
           \A i \in DOMAIN games : InGame(games[i], c) <=> games[i].id = reply.body[1]
      [] reply.status = "CLIENT_JOIN_GAME" ->
           \E i \in DOMAIN games :
             /\ reply.body = JoinInfo(games[i])
             /\ c \in Range(IF reply.op = "JOIN_AS_PLAYER" THEN games[i].players
                                                          ELSE games[i].viewers)
      [] OTHER -> TRUE

\* The rooms of a client change only by a handler that runs for that client.
Place(c) == <<InGeneral(c), {i \in DOMAIN games : c \in Range(games[i].players)},
              {i \in DOMAIN games : c \in Range(games[i].viewers)}>>

MovesOnlyOwn ==
  \A c \in PlayerId : Place(c)' # Place(c) =>
    \E p \in Live : playerId[p] = c /\ (reply'.to = p \/ playerId'[p] = 0)

OnlyOwnPlace == [][MovesOnlyOwn]_vars

\* A chat is only ever added to, one message of one chat at a time, on behalf of
\* the client that is answered OK, who is a member if the chat is the general
\* room's; joining, leaving and creating games lose no message.
Chats == <<generalChat>> \o [i \in DOMAIN games |-> games[i].chat]

ChatStep ==
  /\ Len(Chats) <= Len(Chats')
  /\ \A k \in DOMAIN Chats :
       \/ Chats'[k] = Chats[k]
       \/ /\ reply'.status = "OK"
          /\ Chats'[k] = Append(Chats[k], playerId[reply'.to])
          /\ k = 1 => InGeneral(playerId[reply'.to])
          /\ \A j \in DOMAIN Chats : j # k => Chats'[j] = Chats[j]

ChatsOnlyGrow == [][ChatStep]_vars

\* The number of viewers a game was created with is "the number of viewer we
\* can add" (server/include/room_interface.hpp:65).
ViewerLimit == \A i \in DOMAIN games : Len(games[i].viewers) <= games[i].viewerLimit

-----------------------------------------------------------------------------
(* The rooms implement Membership.                                         *)

TableOf(g) == [players |-> Range(g.players), viewers |-> Range(g.viewers)]

M == INSTANCE Membership WITH
       Client <- PlayerId,
       lobby  <- Range(general),
       tables <- [i \in DOMAIN games |-> TableOf(games[i])]

\* Whatever the handlers do, each client enters, sits, rises and vanishes as
\* Membership says, one client at a time, and two players at most share a game.
ImplementsMembership == M!MSpec
=============================================================================
