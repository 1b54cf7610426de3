\* Three connections, one of which leaves before the last arrives.
CONSTANTS
  Conn = {c1, c2, c3}
  MaxSent = 0
  Sends = {"header", "bad header", "torn"}
  Leaves = {"closed", "reset"}
SYMMETRY ConnSymmetry
SPECIFICATION Spec
INVARIANTS
  OnlyOwnRemoved
\* The server ends: by an exception, or when nothing is left to wait for.
CHECK_DEADLOCK FALSE
