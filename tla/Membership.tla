----------------------------- MODULE Membership -----------------------------
(***************************************************************************)
(* What the rooms promise their clients, whatever vectors they are kept    *)
(* in: a client is in the lobby or not, and independently of that it holds *)
(* one seat or none, as a player or as a viewer of one game.  Each step    *)
(* concerns one client.  A game seats two players.                         *)
(***************************************************************************)
EXTENDS Naturals, Sequences

CONSTANT Client

VARIABLES lobby,    \* the clients in the general room
          tables    \* per game, oldest first, its players and its viewers

mvars == <<lobby, tables>>

Table == [players : SUBSET Client, viewers : SUBSET Client]

MembershipTypeOK == lobby \subseteq Client /\ tables \in Seq(Table)

MInit == lobby = {} /\ tables = <<>>

AtTable(t, c) == c \in t.players \/ c \in t.viewers
Standing(c)   == \A i \in DOMAIN tables : ~AtTable(tables[i], c)

\* The tables once c has risen from wherever it sat.
Cleared(c) == [i \in DOMAIN tables |-> [players |-> tables[i].players \ {c},
                                        viewers |-> tables[i].viewers \ {c}]]

Enter(c) == /\ c \notin lobby
            /\ lobby' = lobby \union {c}
            /\ UNCHANGED tables

\* A client founds a game and plays in it.
Found(c) == /\ Standing(c)
            /\ tables' = Append(tables, [players |-> {c}, viewers |-> {}])
            /\ UNCHANGED lobby

\* At most one client plays there so far.
Play(c, i) == /\ Standing(c)
              /\ \A d, e \in tables[i].players : d = e
              /\ tables' = [tables EXCEPT ![i].players = @ \union {c}]
              /\ UNCHANGED lobby

Watch(c, i) == /\ Standing(c)
               /\ tables' = [tables EXCEPT ![i].viewers = @ \union {c}]
               /\ UNCHANGED lobby

Rise(c) == tables' = Cleared(c) /\ UNCHANGED lobby

\* A client whose connection is lost is nowhere any more.
Vanish(c) == lobby' = lobby \ {c} /\ tables' = Cleared(c)

MNext == \E c \in Client :
           \/ Enter(c)
           \/ Found(c)
           \/ \E i \in DOMAIN tables : Play(c, i) \/ Watch(c, i)
           \/ Rise(c)
           \/ Vanish(c)

MSpec == MInit /\ [][MNext]_mvars
=============================================================================
