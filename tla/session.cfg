\* A closing program with one request and one that stays with two, either of
\* which may be killed at any time; the server may fail to accept, or end.
CONSTANTS
  Nobody = Nobody
  Word = Word
  closer = closer
  stayer = stayer
  Processer = {closer, stayer}
  PlayerId = {1, 2}
  Closing = {closer}
  Script <- ShortScript
  Request <- ShortRequest
  MaxGames = 1
  MaxChat = 0
  MaxSent = 2
  Sends = {"header"}
  Leaves = {"closed", "reset"}
CONSTRAINT ClosersWhole
SPECIFICATION SessionFairSpec
INVARIANTS
  Paired
  StopsWhenTold
PROPERTIES
  CallbackIsTrue
  SessionEnds
  GoneAreCleared
\* The programs and the server end.
CHECK_DEADLOCK FALSE
