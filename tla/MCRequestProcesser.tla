------------------------ MODULE MCRequestProcesser ------------------------
(* Instances of RequestProcesser for TLC: the .cfg files choose them.      *)
EXTENDS RequestProcesser

CONSTANTS RoomArg,      \* room and game ids that requests name
          ViewerArg,    \* numbers of viewers that CREATE_GAME asks for
          TimeArg       \* limits of time that CREATE_GAME asks for

\* Processers are interchangeable; player ids, being numbers, are not.
ProcesserSymmetry == Permutations(Processer)

\* With a second game, nobody has written to a chat: chats are for one game.
ChatsOrGames ==
  Len(games) > 1 => generalChat = <<>> /\ \A k \in DOMAIN games : games[k].chat = <<>>

Ask(ops, bodies) == [op : ops, body : bodies]

\* Every operation code, with bodies that its handler takes and bodies that each
\* of its checks refuses.
EveryRequest == UNION {
  Ask({"CLIENT_CONNECT"}, {<<Word>>, <<>>}),
  Ask({"SEND_MESSAGE"}, {<<room, Word>> : room \in RoomArg} \union {<<>>, <<Word, Word>>}),
  Ask({"CREATE_GAME"},
      {<<Word, flag, viewers, time>> : flag \in {0, 1}, viewers \in ViewerArg, time \in TimeArg}
        \union {<<>>, <<Word, 1, Word, 30>>, <<Word, 1, 1, Word>>, <<Word, 2, 1, 30>>}),
  Ask({"JOIN_AS_PLAYER", "JOIN_AS_VIEWER", "PLAYER_LOGGED_IN", "GET_GAME_STATUS"},
      {<<room>> : room \in RoomArg} \union {<<>>, <<Word>>}),
  Ask({"LEAVE", "GET_GAME_INFO", "NBR_PEOPLE_LOGGED_IN", "GET_NBR_GAME_CREATED", "OTHER"},
      {<<>>})}
=============================================================================
