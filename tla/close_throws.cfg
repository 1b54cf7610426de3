\* A peer that resets its connection.
CONSTANTS
  Conn = {c1}
  MaxSent = 1
  Sends = {"header", "bad header", "torn"}
  Leaves = {"closed", "reset"}
SPECIFICATION Spec
PROPERTIES
  CloseCompletes
\* The server ends: by an exception, or when nothing is left to wait for.
CHECK_DEADLOCK FALSE
