--------------------------- MODULE MCConnections ---------------------------
(* Instances of Connections for TLC: the .cfg files choose them.           *)
EXTENDS Connections, TLC, FiniteSetsExt

\* Connections are interchangeable until they are accepted.  For safety only.
ConnSymmetry == Permutations(Conn)

\* MaxSent bounds the requests of all peers together: they are owed no request.
FewRequests == MapThenSumSet(LAMBDA c : sent[c], Conn) <= MaxSent
=============================================================================
