------------------------------- MODULE MCWire -------------------------------
(* Instances of Wire for TLC.                                              *)
EXTENDS Wire

CONSTANT Codes          \* of the messages

\* Bodies without texts, with empty ones, and with texts made of the digits that
\* headers are made of.
SmallBodies == BoundedSeq({<<>>, <<Zero + 1>>, <<Zero, Zero>>}, 2)

SmallMessages == {MakeMessage(code, content) : code \in Codes, content \in SmallBodies}
=============================================================================
