\* Two connections and two requests: one each, or two of the same peer, which may
\* send the second one at any time.
CONSTANTS
  Conn = {c1, c2}
  MaxSent = 2
  Sends = {"header", "bad header", "torn"}
  Leaves = {"closed", "reset"}
CONSTRAINT FewRequests
SPECIFICATION FairSpec
INVARIANTS
  TypeOK
  OpenIsReading
  AnswersComeOnce
PROPERTIES
  LostIsReleased
  
\* The server ends: by an exception, or when nothing is left to wait for.
CHECK_DEADLOCK FALSE
