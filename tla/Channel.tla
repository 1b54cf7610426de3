------------------------------ MODULE Channel ------------------------------
(***************************************************************************)
(* What one direction of a connection promises: the messages that were     *)
(* sent are received whole, once, in order, and in the end all of them.    *)
(***************************************************************************)
EXTENDS Naturals, Sequences

CONSTANT Message

VARIABLES sent, got

vars == <<sent, got>>

Init == sent = <<>> /\ got = <<>>

Send(m) == sent' = Append(sent, m) /\ UNCHANGED got

Receive ==
  /\ Len(got) < Len(sent)
  /\ got' = Append(got, sent[Len(got) + 1])
  /\ UNCHANGED sent

Next == Receive \/ \E m \in Message : Send(m)

Spec == Init /\ [][Next]_vars

FairSpec == Spec /\ WF_vars(Receive)
=============================================================================
