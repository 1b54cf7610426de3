\* Three connections, enough for two to share an id, and a game.
CONSTANTS
  Nobody = Nobody
  Word = Word
  Request <- MovingRequest
  Processer = {p1, p2, p3}
  PlayerId = {1, 2, 3}
  MaxGames = 1
  MaxChat = 0
  MaxSent = 1
  Sends = {"header"}
  Leaves = {"closed", "reset"}
CONSTRAINTS
  LastReset
  WholeAnswers
SYMMETRY EngineSymmetry
SPECIFICATION EngineSpec
INVARIANTS
  ConnectionsAgree
  NoGhosts
  ServedStay
PROPERTIES
  ImplementsMembership
\* The server ends: by an exception, or when nothing is left to wait for.
CHECK_DEADLOCK FALSE
