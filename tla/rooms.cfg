\* Two processers, which may share an id, and two games, or one and the
\* chats.
CONSTANTS
  Nobody = Nobody
  Word = Word
  Request <- EveryRequest
  Processer = {p1, p2}
  PlayerId = {1, 2}
  RoomArg = {0, 1, 2, 3}
  ViewerArg = {0, 1}
  TimeArg = {30, 45}
  MaxGames = 2
  MaxChat = 1
CONSTRAINT ChatsOrGames
SYMMETRY ProcesserSymmetry
SPECIFICATION Spec
INVARIANTS
  TypeOK
  OneSeat
  OneLobbyPlace
  RoomIds
  NoGhosts
  EnteredStay
  ReplyIsTrue
PROPERTIES
  OnlyOwnPlace
  ChatsOnlyGrow
  ImplementsMembership
