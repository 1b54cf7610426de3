\* The two test programs.  The bounds let every request of theirs through.
CONSTANTS
  Nobody = Nobody
  Word = Word
  founder = founder
  visitor = visitor
  Processer = {founder, visitor}
  PlayerId = {1, 2}
  Closing = {}
  Script <- TestScript
  Request <- TestRequest
  MaxGames = 2
  MaxChat = 1
  MaxSent = 14
  Sends = {"header"}
  Leaves = {"closed"}
CONSTRAINT WholeMessages
SPECIFICATION ScenarioSpec
PROPERTIES
  AsExpected
  ScriptsEnd
\* The programs and the server end.
CHECK_DEADLOCK FALSE
