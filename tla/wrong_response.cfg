\* One connection, whose peer asks twice without waiting for the first answer.
CONSTANTS
  Conn = {c1}
  MaxSent = 2
  Sends = {"header"}
  Leaves = {}
SPECIFICATION Spec
PROPERTIES
  CallbackIsTrue
\* The server ends when it can accept no more and its connections are gone.
CHECK_DEADLOCK FALSE
