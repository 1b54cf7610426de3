\* Viewers of one game that asks for one viewer.
CONSTANTS
  Nobody = Nobody
  Word = Word
  Request <- EveryRequest
  Processer = {p1, p2, p3}
  PlayerId = {1, 2, 3}
  RoomArg = {1}
  ViewerArg = {1}
  TimeArg = {30}
  MaxGames = 1
  MaxChat = 0
SYMMETRY ProcesserSymmetry
SPECIFICATION Spec
INVARIANTS
  ViewerLimit
