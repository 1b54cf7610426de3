---------------------------- MODULE RoomInterface ----------------------------
(***************************************************************************)
(* The rooms of the server: the general room every connected client enters *)
(* first, and the game rooms, kept by RoomInterface                        *)
(* (server/src/room_interface.cpp) on behalf of all the connections.       *)
(*                                                                         *)
(* The vectors of client ids are sequences, searched from the front and    *)
(* erased one element at a time as std::find and vector::erase do, so that *)
(* an id stored twice is stored twice here too.  Room names are left out   *)
(* (nothing reads them but the two listings), and a chat entry is reduced  *)
(* to its author.                                                          *)
(***************************************************************************)
EXTENDS Naturals, Sequences, SequencesExt

VARIABLES general,      \* m_general.m_client: ids in the general room
          generalChat,  \* m_general.m_chat_room: authors of its messages
          games         \* m_game_room: the game rooms, oldest first

rooms == <<general, generalChat, games>>

GeneralId  == 0         \* GeneralRoom's default room id
MaxPlayers == 2         \* the literal in GameRoom::insert_player

RoomInit == /\ general = <<>>
            /\ generalChat = <<>>
            /\ games = <<>>

-----------------------------------------------------------------------------
(* Questions the handlers ask of the rooms.                                *)

InGeneral(c) == c \in Range(general)

\* Mutant: the viewers are forgotten.
InGamePlayersOnly(g, c) == c \in Range(g.players)

\* GameRoom::is_in_room looks among the players, then among the viewers.
InGame(g, c) == c \in Range(g.players) \/ c \in Range(g.viewers)

\* RoomInterface::is_in_room: whether the client sits in some game.
IsInRoom(c) == \E i \in DOMAIN games : InGame(games[i], c)

\* RoomInterface::get_game: the place of the first game of that id; 0 is end().
GetGame(id) == SelectInSeq(games, LAMBDA g : g.id = id)

-----------------------------------------------------------------------------
(* Room contents after an operation.                                       *)

\* Mutant: numbered from zero, the general room's id.
NewGameFromZero(c, viewers, time) ==
  [id |-> Len(games), viewerLimit |-> viewers, timeLimit |-> time,
   players |-> <<c>>, viewers |-> <<>>, chat |-> <<>>]

\* A game as create_game leaves it, its creator inserted as a player.
NewGame(c, viewers, time) ==
  [id |-> Len(games) + 1, viewerLimit |-> viewers, timeLimit |-> time,
   players |-> <<c>>, viewers |-> <<>>, chat |-> <<>>]

\* Mutant: a viewer is not looked for.
WithoutPlayerOnly(g, c) ==
  IF c \in Range(g.players) THEN [g EXCEPT !.players = RemoveFirst(@, c)] ELSE g

\* Mutant: the first player goes, whoever leaves.
WithoutFirstPlayer(g, c) ==
  IF c \in Range(g.players)
  THEN [g EXCEPT !.players = Tail(@)]
  ELSE [g EXCEPT !.viewers = RemoveFirst(@, c)]

\* GameRoom::remove_client erases one occurrence: a player's, else a viewer's.
WithoutClient(g, c) ==
  IF c \in Range(g.players)
  THEN [g EXCEPT !.players = RemoveFirst(@, c)]
  ELSE [g EXCEPT !.viewers = RemoveFirst(@, c)]

\* RoomInterface::remove_from_game touches the first game the client sits in.
WithoutSeat(c) ==
  LET i == SelectInSeq(games, LAMBDA g : InGame(g, c))
  IN  IF i = 0 THEN games ELSE [games EXCEPT ![i] = WithoutClient(@, c)]

-----------------------------------------------------------------------------
(* The operations that change the rooms.                                   *)

InsertOnGeneral(c) == /\ general' = Append(general, c)
                      /\ UNCHANGED <<generalChat, games>>

PostToGeneral(c) == /\ generalChat' = Append(generalChat, c)
                    /\ UNCHANGED <<general, games>>

PostToGame(i, c) == /\ games' = [games EXCEPT ![i].chat = Append(@, c)]
                    /\ UNCHANGED <<general, generalChat>>

\* Mutant: the newest game first.
CreateRoomInFront(c, viewers, time) ==
  /\ games' = <<NewGame(c, viewers, time)>> \o games
  /\ UNCHANGED <<general, generalChat>>

CreateRoom(c, viewers, time) ==
  /\ games' = Append(games, NewGame(c, viewers, time))
  /\ UNCHANGED <<general, generalChat>>

InsertPlayer(i, c) == /\ games' = [games EXCEPT ![i].players = Append(@, c)]
                      /\ UNCHANGED <<general, generalChat>>

InsertViewer(i, c) == /\ games' = [games EXCEPT ![i].viewers = Append(@, c)]
                      /\ UNCHANGED <<general, generalChat>>

RemoveFromGame(c) == /\ games' = WithoutSeat(c)
                     /\ UNCHANGED <<general, generalChat>>

\* Mutant: the client's messages go with it.
RemoveWithMessages(c) == /\ general' = RemoveFirst(general, c)
                         /\ games' = WithoutSeat(c)
                         /\ generalChat' = SelectSeq(generalChat, LAMBDA d : d # c)

\* remove_from_general, then remove_from_game.
RemoveFromBoth(c) == /\ general' = RemoveFirst(general, c)
                     /\ games' = WithoutSeat(c)
                     /\ UNCHANGED generalChat
=============================================================================
