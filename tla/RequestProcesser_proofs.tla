---------------------- MODULE RequestProcesser_proofs ----------------------
(***************************************************************************)
(* Proofs about the rooms and their request processers, for any processers,*)
(* ids, arguments and bounds.                                              *)
(*                                                                         *)
(* The first part is about states: the inductive invariant Inv.  The second*)
(* is about steps: that they implement Membership, that a client's places  *)
(* are its own, that chats only grow, and that answers are true.  Each step*)
(* is one of a few effects, and each effect is described once, by who sits *)
(* where after it.                                                         *)
(***************************************************************************)
EXTENDS RequestProcesser, SequenceTheorems, FunctionTheorems, FiniteSetTheorems, TLAPS

(* Facts on the sequence helpers.                                          *)

\* The least element of a singleton.
LEMMA MinSingleton == ASSUME NEW i \in Nat PROVE Min({i}) = i
BY DEF Min

\* std::find on a vector without duplicates: the place of the element, if any.
LEMMA FindUnique ==
  ASSUME NEW S, NEW s \in Seq(S), IsInjective(s), NEW e
  PROVE  /\ e \notin Range(s) => RemoveFirst(s, e) = s
         /\ \A i \in DOMAIN s : s[i] = e => RemoveFirst(s, e) = RemoveAt(s, i)
<1>1. ASSUME e \notin Range(s) PROVE RemoveFirst(s, e) = s
  BY <1>1 DEF RemoveFirst, Range
<1>2. ASSUME NEW i \in DOMAIN s, s[i] = e PROVE RemoveFirst(s, e) = RemoveAt(s, i)
  <2>1. {j \in 1..Len(s) : s[j] = e} = {i}
    BY <1>2 DEF IsInjective
  <2>2. SelectInSeq(s, LAMBDA v : v = e) = i
    BY <1>2, <2>1, MinSingleton DEF SelectInSeq
  <2> QED BY <1>2, <2>2 DEF RemoveFirst
<1> QED BY <1>1, <1>2

\* Erasing from a vector without duplicates takes out that element and no other.
LEMMA RemoveFirstUnique ==
  ASSUME NEW S, NEW s \in Seq(S), IsInjective(s), NEW e
  PROVE  /\ RemoveFirst(s, e) \in Seq(S)
         /\ IsInjective(RemoveFirst(s, e))
         /\ Range(RemoveFirst(s, e)) = Range(s) \ {e}
         /\ Len(RemoveFirst(s, e)) <= Len(s)
<1>1. CASE e \notin Range(s)
  BY <1>1, FindUnique
<1>2. CASE e \in Range(s)
  <2>1. PICK i \in 1..Len(s) : s[i] = e
    BY <1>2 DEF Range
  <2> DEFINE r == [j \in 1..(Len(s) - 1) |-> IF j < i THEN s[j] ELSE s[j + 1]]
  <2>2. RemoveFirst(s, e) = RemoveAt(s, i)
    BY <2>1, FindUnique
  <2>3. RemoveAt(s, i) = r
    <3> DEFINE a == SubSeq(s, 1, i - 1)
               b == SubSeq(s, i + 1, Len(s))
    <3>1. /\ a \in Seq(S) /\ Len(a) = i - 1
          /\ \A j \in 1..(i - 1) : a[j] = s[j]
      BY <2>1, SubSeqProperties
    <3>2. /\ b \in Seq(S) /\ Len(b) = Len(s) - i
          /\ \A j \in 1..(Len(s) - i) : b[j] = s[j + i]
      BY <2>1, SubSeqProperties
    <3> HIDE DEF a, b
    <3>3. /\ a \o b \in Seq(S) /\ Len(a \o b) = Len(s) - 1
          /\ \A j \in 1..(Len(s) - 1) : (a \o b)[j] = r[j]
      <4>1. /\ a \o b \in Seq(S) /\ Len(a \o b) = Len(a) + Len(b)
            /\ \A j \in 1..(Len(a) + Len(b)) :
                 (a \o b)[j] = IF j <= Len(a) THEN a[j] ELSE b[j - Len(a)]
        BY <3>1, <3>2, ConcatProperties
      <4>2. Len(a) + Len(b) = Len(s) - 1
        BY <3>1, <3>2, <2>1
      <4>3. ASSUME NEW j \in 1..(Len(s) - 1) PROVE (a \o b)[j] = r[j]
        <5>1. CASE j < i
          BY <5>1, <4>1, <4>2, <3>1, <2>1
        <5>2. CASE j >= i
          <6>1. j - (i - 1) \in 1..(Len(s) - i) /\ (j - (i - 1)) + i = j + 1
            BY <5>2, <2>1
          <6>2. b[j - (i - 1)] = s[j + 1]
            BY <6>1, <3>2
          <6>3. (a \o b)[j] = b[j - (i - 1)]
            BY <5>2, <4>1, <4>2, <3>1, <2>1
          <6>4. r[j] = s[j + 1]
            BY <5>2, <2>1
          <6> QED BY <6>2, <6>3, <6>4
        <5>3. j < i \/ j >= i
          BY <2>1
        <5> HIDE DEF r
        <5> QED BY <5>1, <5>2, <5>3
      <4> QED BY <4>1, <4>2, <4>3
    <3>4. r \in Seq(S) /\ Len(r) = Len(s) - 1
      BY <2>1
    <3>5. a \o b = r
      BY <3>3, <3>4, SeqEqual
    <3> QED BY <3>5 DEF RemoveAt, a, b
  <2>4. r \in Seq(S) /\ Len(r) = Len(s) - 1
    BY <2>1
  <2>5. IsInjective(r)
    BY <2>1, <2>4 DEF IsInjective
  <2>6. Range(r) = Range(s) \ {e}
    <3>1. \A j \in 1..Len(r) : r[j] \in Range(s) \ {e}
      BY <2>1, <2>4 DEF IsInjective, Range
    <3>2. \A v \in Range(s) \ {e} : \E j \in 1..Len(r) : r[j] = v
      <4> TAKE v \in Range(s) \ {e}
      <4>1. PICK j \in 1..Len(s) : s[j] = v
        BY DEF Range
      <4>2. CASE j < i
        BY <4>1, <4>2, <2>1, <2>4
      <4>3. CASE j > i
        <5>1. j - 1 \in 1..Len(r) /\ r[j - 1] = s[j]
          BY <4>3, <2>1, <2>4
        <5> QED BY <4>1, <5>1
      <4>4. j # i
        BY <4>1, <2>1
      <4> HIDE DEF r
      <4> QED BY <4>2, <4>3, <4>4
    <3>3. DOMAIN r = 1..Len(r)
      BY <2>4
    <3> QED BY <3>1, <3>2, <3>3 DEF Range
  <2> QED BY <2>2, <2>3, <2>4, <2>5, <2>6
<1> QED BY <1>1, <1>2

\* push_back of an element that is not there yet.
LEMMA AppendNew ==
  ASSUME NEW S, NEW s \in Seq(S), NEW e \in S
  PROVE  /\ Append(s, e) \in Seq(S)
         /\ Range(Append(s, e)) = Range(s) \union {e}
         /\ IsInjective(s) /\ e \notin Range(s) => IsInjective(Append(s, e))
<1> DEFINE t == Append(s, e)
<1>1. /\ t \in Seq(S) /\ DOMAIN t = 1..(Len(s) + 1) /\ DOMAIN s = 1..Len(s)
      /\ \A i \in 1..Len(s) : t[i] = s[i]
      /\ t[Len(s) + 1] = e
  OBVIOUS
<1> HIDE DEF t
<1>2. Range(t) = Range(s) \union {e}
  <2>1. Range(t) \subseteq Range(s) \union {e}
    BY <1>1 DEF Range
  <2>2. Range(s) \subseteq Range(t) /\ e \in Range(t)
    BY <1>1 DEF Range
  <2> QED BY <2>1, <2>2
<1>3. IsInjective(s) /\ e \notin Range(s) => IsInjective(t)
  BY <1>1 DEF IsInjective, Range
<1> QED BY <1>1, <1>2, <1>3 DEF t

-----------------------------------------------------------------------------
(* The rooms on their own.                                                 *)

RoomInv == /\ general \in Seq(PlayerId)
           /\ generalChat \in Seq(PlayerId)
           /\ games \in Seq(Game)
           /\ OneSeat
           /\ OneLobbyPlace
           /\ RoomIds

\* get_game finds the game at the place its id tells, or none.
LEMMA GetGameIs ==
  ASSUME RoomInv, NEW id \in Nat
  PROVE  GetGame(id) = IF id \in DOMAIN games THEN id ELSE 0
<1>1. DOMAIN games = 1..Len(games)
  BY DEF RoomInv
<1>2. CASE id \in DOMAIN games
  <2>1. {j \in 1..Len(games) : games[j].id = id} = {id}
    BY <1>1, <1>2 DEF RoomInv, RoomIds
  <2> QED BY <1>2, <2>1, MinSingleton DEF GetGame, SelectInSeq
<1>3. CASE id \notin DOMAIN games
  <2>1. {j \in 1..Len(games) : games[j].id = id} = {}
    BY <1>1, <1>3 DEF RoomInv, RoomIds
  <2> QED BY <1>3, <2>1 DEF GetGame, SelectInSeq
<1> QED BY <1>2, <1>3

\* remove_client leaves the rest of the game as it was.
LEMMA WithoutClientIs ==
  ASSUME NEW g \in Game, SeatedOnce(g), NEW c
  PROVE  LET h == WithoutClient(g, c) IN
         /\ h \in Game /\ SeatedOnce(h) /\ h.id = g.id /\ h.chat = g.chat
         /\ Range(h.players) = Range(g.players) \ {c} /\ Len(h.players) <= Len(g.players)
         /\ Range(h.viewers) = Range(g.viewers) \ {c}
<1>1. /\ g.players \in Seq(PlayerId) /\ IsInjective(g.players)
      /\ g.viewers \in Seq(PlayerId) /\ IsInjective(g.viewers)
      /\ Range(g.players) \intersect Range(g.viewers) = {}
  BY DEF Game, SeatedOnce
<1>2. /\ RemoveFirst(g.players, c) \in Seq(PlayerId)
      /\ IsInjective(RemoveFirst(g.players, c))
      /\ Range(RemoveFirst(g.players, c)) = Range(g.players) \ {c}
      /\ Len(RemoveFirst(g.players, c)) <= Len(g.players) /\ Len(g.players) \in Nat
  BY <1>1, RemoveFirstUnique
<1>3. /\ RemoveFirst(g.viewers, c) \in Seq(PlayerId)
      /\ IsInjective(RemoveFirst(g.viewers, c))
      /\ Range(RemoveFirst(g.viewers, c)) = Range(g.viewers) \ {c}
  BY <1>1, RemoveFirstUnique
<1>4. CASE c \in Range(g.players)
  <2>1. WithoutClient(g, c) = [g EXCEPT !.players = RemoveFirst(g.players, c)]
    BY <1>4 DEF WithoutClient
  <2>2. /\ WithoutClient(g, c) \in Game
        /\ WithoutClient(g, c).players = RemoveFirst(g.players, c)
        /\ WithoutClient(g, c).viewers = g.viewers
        /\ WithoutClient(g, c).id = g.id /\ WithoutClient(g, c).chat = g.chat
    BY <2>1, <1>2 DEF Game
  <2> QED BY <2>2, <1>1, <1>2, <1>4 DEF SeatedOnce
<1>5. CASE c \notin Range(g.players)
  <2>1. WithoutClient(g, c) = [g EXCEPT !.viewers = RemoveFirst(g.viewers, c)]
    BY <1>5 DEF WithoutClient
  <2>2. /\ WithoutClient(g, c) \in Game
        /\ WithoutClient(g, c).viewers = RemoveFirst(g.viewers, c)
        /\ WithoutClient(g, c).players = g.players
        /\ WithoutClient(g, c).id = g.id /\ WithoutClient(g, c).chat = g.chat
    BY <2>1, <1>3 DEF Game
  <2> QED BY <2>2, <1>1, <1>3, <1>5 DEF SeatedOnce
<1> QED BY <1>4, <1>5

\* remove_from_game empties the one seat of the client and nothing else.
LEMMA WithoutSeatIs ==
  ASSUME RoomInv, NEW c
  PROVE  LET w == WithoutSeat(c) IN
         /\ w \in Seq(Game) /\ Len(w) = Len(games)
         /\ \A i \in DOMAIN games :
              /\ SeatedOnce(w[i]) /\ w[i].id = games[i].id /\ w[i].chat = games[i].chat
              /\ Range(w[i].players) = Range(games[i].players) \ {c}
              /\ Len(w[i].players) <= Len(games[i].players)
              /\ Range(w[i].viewers) = Range(games[i].viewers) \ {c}
<1>1. /\ games \in Seq(Game) /\ DOMAIN games = 1..Len(games)
      /\ \A i \in DOMAIN games : games[i] \in Game /\ SeatedOnce(games[i])
  BY DEF RoomInv, OneSeat
<1>0. \A g \in Game : Len(g.players) <= Len(g.players)
  BY DEF Game
<1> DEFINE I == {j \in 1..Len(games) : InGame(games[j], c)}
<1>2. CASE I = {}
  <2>1. WithoutSeat(c) = games
    BY <1>2 DEF WithoutSeat, SelectInSeq
  <2>2. \A i \in DOMAIN games : c \notin Range(games[i].players) /\ c \notin Range(games[i].viewers)
    BY <1>1, <1>2 DEF InGame
  <2> QED BY <2>1, <2>2, <1>0, <1>1
<1>3. ASSUME NEW k \in I
      PROVE  LET w == WithoutSeat(c) IN
         /\ w \in Seq(Game) /\ Len(w) = Len(games)
         /\ \A i \in DOMAIN games :
              /\ SeatedOnce(w[i]) /\ w[i].id = games[i].id /\ w[i].chat = games[i].chat
              /\ Range(w[i].players) = Range(games[i].players) \ {c}
              /\ Len(w[i].players) <= Len(games[i].players)
              /\ Range(w[i].viewers) = Range(games[i].viewers) \ {c}
  <2>1. \A i \in DOMAIN games : i # k =>
          c \notin Range(games[i].players) /\ c \notin Range(games[i].viewers)
    BY <1>1 DEF RoomInv, OneSeat, SeatedIn, InGame
  <2>2. I = {k}
    BY <2>1, <1>1 DEF InGame
  <2>3. k \in DOMAIN games /\ k \in Nat /\ k # 0
    BY <1>1
  <2>4. WithoutSeat(c) = [games EXCEPT ![k] = WithoutClient(games[k], c)]
    <3>1. SelectInSeq(games, LAMBDA g : InGame(g, c)) = k
      BY <2>2, <2>3, MinSingleton DEF SelectInSeq
    <3> QED BY <3>1, <2>3 DEF WithoutSeat
  <2> DEFINE h == WithoutClient(games[k], c)
  <2>5. /\ h \in Game /\ SeatedOnce(h) /\ h.id = games[k].id /\ h.chat = games[k].chat
        /\ Range(h.players) = Range(games[k].players) \ {c}
        /\ Len(h.players) <= Len(games[k].players)
        /\ Range(h.viewers) = Range(games[k].viewers) \ {c}
    BY <1>1, <2>3, WithoutClientIs
  <2> HIDE DEF h
  <2>6. WithoutSeat(c) = [games EXCEPT ![k] = h]
    BY <2>4 DEF h
  <2> QED BY <2>6, <2>5, <2>3, <2>1, <1>0, <1>1
<1> QED BY <1>2, <1>3

-----------------------------------------------------------------------------
(* Every operation keeps the rooms in order and only lets its client in.   *)

\* Those the operation may have let in: nobody but c is anywhere new.
OnlyLetsIn(c) == /\ \A d : InGeneral(d)' => InGeneral(d) \/ d = c
                 /\ \A d : IsInRoom(d)' => IsInRoom(d) \/ d = c

\* One game is replaced by one in which c, seated nowhere, may have sat down.
LEMMA OneGameChanges ==
  ASSUME RoomInv, NEW c, NEW i \in DOMAIN games, NEW g \in Game,
         SeatedOnce(g), g.id = games[i].id,
         SeatedIn(g) \subseteq SeatedIn(games[i]) \union {c},
         SeatedIn(g) = SeatedIn(games[i]) \/ ~IsInRoom(c),
         games' = [games EXCEPT ![i] = g],
         UNCHANGED <<general, generalChat>>
  PROVE  RoomInv' /\ OnlyLetsIn(c)
<1>1. /\ games \in Seq(Game) /\ games' \in Seq(Game)
      /\ DOMAIN games' = DOMAIN games
      /\ games'[i] = g
      /\ \A j \in DOMAIN games : j # i => games'[j] = games[j]
  BY DEF RoomInv
<1>2. OneSeat'
  <2>1. \A j \in DOMAIN games' : SeatedOnce(games'[j])
    BY <1>1 DEF RoomInv, OneSeat
  <2>2. ASSUME NEW j \in DOMAIN games, j # i
        PROVE  SeatedIn(games[j]) \intersect SeatedIn(g) = {}
    <3>1. SeatedIn(games[j]) \intersect SeatedIn(games[i]) = {}
      BY <2>2 DEF RoomInv, OneSeat
    <3>2. ~IsInRoom(c) => c \notin SeatedIn(games[j])
      BY DEF IsInRoom, InGame, SeatedIn
    <3> QED BY <3>1, <3>2
  <2>3. ASSUME NEW j \in DOMAIN games', NEW k \in DOMAIN games', j # k
        PROVE  SeatedIn(games'[j]) \intersect SeatedIn(games'[k]) = {}
    BY <2>2, <2>3, <1>1 DEF RoomInv, OneSeat
  <2> QED BY <2>1, <2>3 DEF OneSeat
<1>3. RoomIds'
  BY <1>1 DEF RoomInv, RoomIds
<1>4. OneLobbyPlace'
  BY DEF RoomInv, OneLobbyPlace
<1>5. ASSUME NEW d, IsInRoom(d)' PROVE IsInRoom(d) \/ d = c
  <2>1. \A h : InGame(h, d) <=> d \in SeatedIn(h)
    BY DEF InGame, SeatedIn
  <2>2. PICK j \in DOMAIN games : InGame(games'[j], d)
    BY <1>5, <1>1 DEF IsInRoom
  <2> QED BY <2>1, <2>2, <1>1 DEF IsInRoom
<1> QED BY <1>1, <1>2, <1>3, <1>4, <1>5 DEF RoomInv, OnlyLetsIn, InGeneral

\* insert_client adds one place in the general room, for a client that has none.
LEMMA InsertOnGeneralKeeps ==
  ASSUME RoomInv, NEW c \in PlayerId, ~InGeneral(c), InsertOnGeneral(c)
  PROVE  RoomInv' /\ OnlyLetsIn(c) /\ Range(general') = Range(general) \union {c}
<1>1. /\ general' \in Seq(PlayerId) /\ IsInjective(general')
      /\ Range(general') = Range(general) \union {c}
  BY AppendNew DEF RoomInv, OneLobbyPlace, InGeneral, InsertOnGeneral
<1>2. OneSeat' /\ RoomIds' /\ OneLobbyPlace'
  BY <1>1 DEF RoomInv, OneSeat, RoomIds, OneLobbyPlace, InsertOnGeneral
<1> QED BY <1>1, <1>2 DEF RoomInv, OnlyLetsIn, InsertOnGeneral, IsInRoom, InGeneral

\* A message in the general room moves nobody.
LEMMA PostToGeneralKeeps ==
  ASSUME RoomInv, NEW c \in PlayerId, PostToGeneral(c)
  PROVE  RoomInv' /\ OnlyLetsIn(c)
<1>1. generalChat' \in Seq(PlayerId)
  BY DEF RoomInv, PostToGeneral
<1>2. OneSeat' /\ RoomIds' /\ OneLobbyPlace'
  BY DEF RoomInv, OneSeat, RoomIds, OneLobbyPlace, PostToGeneral
<1> QED BY <1>1, <1>2 DEF RoomInv, OnlyLetsIn, PostToGeneral, IsInRoom, InGeneral

\* A message in a game moves nobody.
LEMMA PostToGameKeeps ==
  ASSUME RoomInv, NEW c \in PlayerId, NEW i \in DOMAIN games, PostToGame(i, c)
  PROVE  RoomInv' /\ OnlyLetsIn(c)
<1> DEFINE g == [games[i] EXCEPT !.chat = Append(@, c)]
<1>1. games[i] \in Game /\ SeatedOnce(games[i])
  BY DEF RoomInv, OneSeat
<1>2. /\ g \in Game /\ g.id = games[i].id
      /\ g.players = games[i].players /\ g.viewers = games[i].viewers
  <2>1. Append(games[i].chat, c) \in Seq(PlayerId)
    BY <1>1 DEF Game
  <2> QED BY <2>1, <1>1 DEF Game
<1>3. games' = [games EXCEPT ![i] = g] /\ UNCHANGED <<general, generalChat>>
  BY DEF PostToGame
<1> HIDE DEF g
<1> QED BY <1>1, <1>2, <1>3, OneGameChanges DEF SeatedOnce, SeatedIn

\* insert_player seats a client that sits nowhere.
LEMMA InsertPlayerKeeps ==
  ASSUME RoomInv, NEW c \in PlayerId, ~IsInRoom(c),
         NEW i \in DOMAIN games, InsertPlayer(i, c)
  PROVE  RoomInv' /\ OnlyLetsIn(c)
<1> DEFINE g == [games[i] EXCEPT !.players = Append(@, c)]
<1>1. games[i] \in Game /\ SeatedOnce(games[i])
  BY DEF RoomInv, OneSeat
<1>2. c \notin Range(games[i].players) /\ c \notin Range(games[i].viewers)
  BY DEF IsInRoom, InGame
<1>3. /\ Append(games[i].players, c) \in Seq(PlayerId)
      /\ IsInjective(Append(games[i].players, c))
      /\ Range(Append(games[i].players, c)) = Range(games[i].players) \union {c}
  BY <1>1, <1>2, AppendNew DEF Game, SeatedOnce
<1>4. /\ g \in Game /\ g.id = games[i].id
      /\ g.players = Append(games[i].players, c) /\ g.viewers = games[i].viewers
  BY <1>1, <1>3 DEF Game
<1>5. games' = [games EXCEPT ![i] = g] /\ UNCHANGED <<general, generalChat>>
  BY DEF InsertPlayer
<1> HIDE DEF g
<1>6. SeatedOnce(g) /\ SeatedIn(g) = SeatedIn(games[i]) \union {c}
  BY <1>1, <1>2, <1>3, <1>4 DEF SeatedOnce, SeatedIn
<1> QED BY <1>4, <1>5, <1>6, OneGameChanges

\* insert_viewer seats a client that sits nowhere.
LEMMA InsertViewerKeeps ==
  ASSUME RoomInv, NEW c \in PlayerId, ~IsInRoom(c),
         NEW i \in DOMAIN games, InsertViewer(i, c)
  PROVE  RoomInv' /\ OnlyLetsIn(c)
<1> DEFINE g == [games[i] EXCEPT !.viewers = Append(@, c)]
<1>1. games[i] \in Game /\ SeatedOnce(games[i])
  BY DEF RoomInv, OneSeat
<1>2. c \notin Range(games[i].players) /\ c \notin Range(games[i].viewers)
  BY DEF IsInRoom, InGame
<1>3. /\ Append(games[i].viewers, c) \in Seq(PlayerId)
      /\ IsInjective(Append(games[i].viewers, c))
      /\ Range(Append(games[i].viewers, c)) = Range(games[i].viewers) \union {c}
  BY <1>1, <1>2, AppendNew DEF Game, SeatedOnce
<1>4. /\ g \in Game /\ g.id = games[i].id
      /\ g.viewers = Append(games[i].viewers, c) /\ g.players = games[i].players
  BY <1>1, <1>3 DEF Game
<1>5. games' = [games EXCEPT ![i] = g] /\ UNCHANGED <<general, generalChat>>
  BY DEF InsertViewer
<1> HIDE DEF g
<1>6. SeatedOnce(g) /\ SeatedIn(g) = SeatedIn(games[i]) \union {c}
  BY <1>1, <1>2, <1>3, <1>4 DEF SeatedOnce, SeatedIn
<1> QED BY <1>4, <1>5, <1>6, OneGameChanges

\* create_game adds an empty game with an id of its own.
LEMMA CreateRoomKeeps ==
  ASSUME RoomInv, NEW c \in PlayerId, ~IsInRoom(c),
         NEW viewers \in Nat, NEW time \in TimeLimit, CreateRoom(c, viewers, time)
  PROVE  RoomInv' /\ OnlyLetsIn(c)
<1> DEFINE n == Len(games) + 1
           g == NewGame(c, viewers, time)
<1>1. games \in Seq(Game) /\ n \in Nat \ {0}
  BY DEF RoomInv
<1>2. g \in Game /\ g.id = n /\ SeatedOnce(g) /\ SeatedIn(g) = {c}
  <2>1. /\ g \in Game /\ g.id = n
        /\ g.players = <<c>> /\ g.viewers = <<>>
    BY <1>1 DEF NewGame, Game
  <2> QED BY <2>1 DEF SeatedOnce, SeatedIn, IsInjective, Range
<1>3. games' = Append(games, g) /\ UNCHANGED <<general, generalChat>>
  BY DEF CreateRoom
<1> HIDE DEF g
<1>4. /\ games' \in Seq(Game)
      /\ DOMAIN games = 1..Len(games) /\ DOMAIN games' = DOMAIN games \union {n}
      /\ n \notin DOMAIN games
      /\ games'[n] = g /\ \A j \in DOMAIN games : games'[j] = games[j]
  BY <1>1, <1>2, <1>3
<1> HIDE DEF n
<1>5. \A j \in DOMAIN games : c \notin SeatedIn(games[j])
  BY DEF IsInRoom, InGame, SeatedIn
<1>6. OneSeat'
  BY <1>2, <1>4, <1>5 DEF RoomInv, OneSeat
<1>7. RoomIds'
  BY <1>1, <1>2, <1>4 DEF RoomInv, RoomIds, GeneralId
<1>8. OneLobbyPlace'
  BY <1>3 DEF RoomInv, OneLobbyPlace
<1>9. \A d : IsInRoom(d)' => IsInRoom(d) \/ d = c
  <2>1. \A h, d : InGame(h, d) <=> d \in SeatedIn(h)
    BY DEF InGame, SeatedIn
  <2> QED BY <2>1, <1>2, <1>4 DEF IsInRoom
<1> QED BY <1>3, <1>4, <1>6, <1>7, <1>8, <1>9 DEF RoomInv, OnlyLetsIn, InGeneral

\* remove_from_game empties one seat and fills none.
LEMMA RemoveFromGameKeeps ==
  ASSUME RoomInv, NEW c, RemoveFromGame(c)
  PROVE  /\ RoomInv' /\ OnlyLetsIn(c) /\ ~IsInRoom(c)'
         /\ general' = general
<1>1. /\ games \in Seq(Game) /\ games' = WithoutSeat(c)
      /\ UNCHANGED <<general, generalChat>>
  BY DEF RoomInv, RemoveFromGame
<1>2. /\ games' \in Seq(Game) /\ DOMAIN games' = DOMAIN games
      /\ \A i \in DOMAIN games :
           /\ SeatedOnce(games'[i]) /\ games'[i].id = games[i].id
           /\ Range(games'[i].players) = Range(games[i].players) \ {c}
           /\ Range(games'[i].viewers) = Range(games[i].viewers) \ {c}
  <2>1. games' \in Seq(Game) /\ Len(games') = Len(games)
    BY <1>1, WithoutSeatIs
  <2>2. DOMAIN games' = DOMAIN games
    BY <1>1, <2>1
  <2> QED BY <1>1, <2>1, <2>2, WithoutSeatIs
<1>3. \A i \in DOMAIN games : SeatedIn(games'[i]) = SeatedIn(games[i]) \ {c}
  BY <1>2 DEF SeatedIn
<1>4. OneSeat' /\ RoomIds' /\ OneLobbyPlace'
  BY <1>1, <1>2, <1>3 DEF RoomInv, OneSeat, RoomIds, OneLobbyPlace
<1>5. \A d : IsInRoom(d)' => IsInRoom(d) /\ d # c
  BY <1>2 DEF IsInRoom, InGame
<1> QED BY <1>1, <1>2, <1>4, <1>5 DEF RoomInv, OnlyLetsIn, InGeneral

\* Removal leaves the client in no room, and every other one where it was.
LEMMA RemoveFromBothKeeps ==
  ASSUME RoomInv, NEW c, RemoveFromBoth(c)
  PROVE  /\ RoomInv' /\ OnlyLetsIn(c) /\ ~IsInRoom(c)'
         /\ Range(general') = Range(general) \ {c}
<1>1. /\ games \in Seq(Game) /\ games' = WithoutSeat(c)
      /\ generalChat' = generalChat
  BY DEF RoomInv, RemoveFromBoth
<1>2. /\ games' \in Seq(Game) /\ DOMAIN games' = DOMAIN games
      /\ \A i \in DOMAIN games :
           /\ SeatedOnce(games'[i]) /\ games'[i].id = games[i].id
           /\ Range(games'[i].players) = Range(games[i].players) \ {c}
           /\ Range(games'[i].viewers) = Range(games[i].viewers) \ {c}
  <2>1. games' \in Seq(Game) /\ Len(games') = Len(games)
    BY <1>1, WithoutSeatIs
  <2>2. DOMAIN games' = DOMAIN games
    BY <1>1, <2>1
  <2> QED BY <1>1, <2>1, <2>2, WithoutSeatIs
<1>3. \A i \in DOMAIN games : SeatedIn(games'[i]) = SeatedIn(games[i]) \ {c}
  BY <1>2 DEF SeatedIn
<1>4. /\ general' \in Seq(PlayerId) /\ IsInjective(general')
      /\ Range(general') = Range(general) \ {c}
  BY RemoveFirstUnique DEF RoomInv, OneLobbyPlace, RemoveFromBoth
<1>5. OneSeat' /\ RoomIds' /\ OneLobbyPlace'
  BY <1>2, <1>3, <1>4 DEF RoomInv, OneSeat, RoomIds, OneLobbyPlace
<1>6. \A d : IsInRoom(d)' => IsInRoom(d) /\ d # c
  BY <1>2 DEF IsInRoom, InGame
<1> QED BY <1>1, <1>2, <1>4, <1>5, <1>6 DEF RoomInv, OnlyLetsIn, InGeneral

-----------------------------------------------------------------------------
(* The processers.                                                         *)

\* The inductive invariant.  OneSeat alone is not inductive: that one erase
\* leaves no second seat needs OneSeat, that GetGame names the game asked for
\* needs RoomIds, and NoGhosts needs both, and OneLobbyPlace.
Inv == TypeOK /\ OneSeat /\ OneLobbyPlace /\ RoomIds /\ NoGhosts /\ EnteredStay

\* The types that are not the rooms'.
ProcesserTypeOK == /\ playerId \in [Processer -> PlayerId \union {0}]
                   /\ named \subseteq Live
                   /\ reply \in [to : Processer \union {Nobody}, op : OpCode,
                                 status : Status, body : Seq(Nat)]

\* The invariant, in the parts that are proved separately.
LEMMA InvIsRoomInv == Inv <=> RoomInv /\ ProcesserTypeOK /\ NoGhosts /\ EnteredStay
BY DEF Inv, RoomInv, TypeOK, ProcesserTypeOK

\* NoGhosts, client by client.
LEMMA NoGhostsIs ==
  NoGhosts <=> /\ \A c : InGeneral(c) => \E p \in named : playerId[p] = c
               /\ \A c : IsInRoom(c) => \E p \in Live : playerId[p] = c
BY DEF NoGhosts, InGeneral, IsInRoom, InGame, SeatedIn

\* The same, of the state after a step.
LEMMA NoGhostsIsNext ==
  NoGhosts' <=> /\ \A c : InGeneral(c)' => \E p \in named' : playerId'[p] = c
                /\ \A c : IsInRoom(c)' => \E p \in Live' : playerId'[p] = c
BY DEF NoGhosts, InGeneral, IsInRoom, InGame, SeatedIn

\* The empty server satisfies the invariant.
LEMMA InitInv == Init => Inv
<1> SUFFICES ASSUME Init PROVE Inv
  OBVIOUS
<1>1. general = <<>> /\ generalChat = <<>> /\ games = <<>> /\ named = {}
  BY DEF Init, RoomInit
<1>2. reply \in [to : Processer \union {Nobody}, op : OpCode, status : Status, body : Seq(Nat)]
  BY DEF Init, NoReply, OpCode, Status
<1>3. TypeOK
  BY <1>1, <1>2 DEF Init, TypeOK
<1> QED BY <1>1, <1>3 DEF Inv, OneSeat, OneLobbyPlace, RoomIds, NoGhosts,
                         EnteredStay, IsInjective, Range

\* A handler of p that keeps the rooms in order, lets nobody else in and leaves
\* the processers alone, but for p introducing itself, keeps the invariant.
LEMMA HandlerKeeps ==
  ASSUME Inv, NEW p \in Live, NEW op \in OpCode, NEW status \in Status,
         NEW body \in Seq(Nat), Return(p, op, status, body),
         RoomInv', OnlyLetsIn(playerId[p]), UNCHANGED playerId,
         \/ named' = named /\ general' = general
         \/ /\ named' = named \union {p}
            /\ Range(general') = Range(general) \union {playerId[p]}
  PROVE  Inv'
<1>1. ProcesserTypeOK /\ RoomInv /\ NoGhosts /\ EnteredStay
  BY InvIsRoomInv
<1>2. Live' = Live /\ p \in Processer /\ playerId' = playerId
  BY DEF Live
<1>3. ProcesserTypeOK'
  <2>1. reply' \in [to : Processer \union {Nobody}, op : OpCode, status : Status, body : Seq(Nat)]
    BY <1>2 DEF Return
  <2>2. named' \subseteq Live'
    BY <1>1, <1>2 DEF ProcesserTypeOK
  <2> QED BY <2>1, <2>2, <1>1, <1>2 DEF ProcesserTypeOK
<1>4. NoGhosts'
  <2>1. \A c : InGeneral(c)' => \E q \in named' : playerId'[q] = c
    BY <1>1, <1>2, NoGhostsIs DEF OnlyLetsIn, InGeneral
  <2>2. \A c : IsInRoom(c)' => \E q \in Live' : playerId'[q] = c
    BY <1>1, <1>2, NoGhostsIs DEF OnlyLetsIn
  <2> QED BY <2>1, <2>2, NoGhostsIsNext
<1>5. EnteredStay'
  BY <1>1, <1>2 DEF EnteredStay, InGeneral
<1> QED BY <1>3, <1>4, <1>5 DEF Inv, RoomInv, TypeOK, ProcesserTypeOK

\* A handler that changes no room keeps the invariant.
LEMMA AnswerKeeps ==
  ASSUME Inv, NEW p \in Live, NEW op \in OpCode, NEW status \in Status,
         NEW body \in Seq(Nat), Answer(p, op, status, body)
  PROVE  Inv'
<1>1. /\ Return(p, op, status, body)
      /\ UNCHANGED <<general, generalChat, games, playerId, named>>
  BY DEF Answer, rooms
<1>2. RoomInv'
  BY <1>1, InvIsRoomInv DEF RoomInv, OneSeat, OneLobbyPlace, RoomIds
<1>3. OnlyLetsIn(playerId[p]) /\ general' = general
  BY <1>1 DEF OnlyLetsIn, InGeneral, IsInRoom
<1> QED BY <1>1, <1>2, <1>3, HandlerKeeps

\* What a handler of a live processer may count on.
LEMMA LiveFacts ==
  ASSUME Inv, NEW p \in Live
  PROVE  /\ RoomInv /\ ProcesserTypeOK
         /\ playerId[p] \in PlayerId /\ playerId[p] \in Nat
         /\ Len(games) \in Nat /\ Len(general) \in Nat
         /\ \A room \in Nat : GetGame(room) # 0 =>
              GetGame(room) \in DOMAIN games
<1>1. RoomInv /\ ProcesserTypeOK
  BY InvIsRoomInv
<1>2. \A room \in Nat : GetGame(room) # 0 => GetGame(room) \in DOMAIN games
  BY <1>1, GetGameIs
<1>3. playerId[p] \in PlayerId
  BY <1>1 DEF ProcesserTypeOK, Live
<1>4. Len(games) \in Nat /\ Len(general) \in Nat
  BY <1>1 DEF RoomInv
<1>5. playerId[p] \in Nat
  BY <1>3, PlayerIdAssumption
<1> QED BY <1>1, <1>2, <1>3, <1>4, <1>5

\* The codes and bodies that answers are made of have their types.
LEMMA Codes ==
  /\ "CLIENT_CONNECT" \in OpCode /\ "SEND_MESSAGE" \in OpCode
  /\ "LEAVE" \in OpCode /\ "CREATE_GAME" \in OpCode
  /\ "GET_GAME_INFO" \in OpCode /\ "NBR_PEOPLE_LOGGED_IN" \in OpCode
  /\ "JOIN_AS_PLAYER" \in OpCode /\ "JOIN_AS_VIEWER" \in OpCode
  /\ "PLAYER_LOGGED_IN" \in OpCode /\ "GET_NBR_GAME_CREATED" \in OpCode
  /\ "GET_GAME_STATUS" \in OpCode /\ "OTHER" \in OpCode
  /\ "OK" \in Status /\ "PERMISSION_DENIED" \in Status
  /\ "CLIENT_CONNECTED" \in Status /\ "FORMAT_ERROR" \in Status
  /\ "LIST_GAME" \in Status /\ "NUMBER_CLIENT_CONNECTED" \in Status
  /\ "ROOM_NOT_FOUND" \in Status /\ "LEAVE_SUCCESS" \in Status
  /\ "NUMBER_OF_GAME" \in Status /\ "GAME_CREATED" \in Status
  /\ "TOO_MANY_CLIENTS" \in Status /\ "CLIENT_JOIN_GAME" \in Status
  /\ "PLAYER_NUMBER" \in Status /\ "CLIENT_ALREADY_IN_ROOM" \in Status
  /\ "GAME_STATUS" \in Status
BY DEF OpCode, Status

\* Up to two numbers make a body.
LEMMA Bodies ==
  /\ <<>> \in Seq(Nat)
  /\ \A m \in Nat : <<m>> \in Seq(Nat)
  /\ \A m, n \in Nat : <<m, n>> \in Seq(Nat)
OBVIOUS

\* The bodies of requests: texts, of which some are numbers.
RequestBody == Seq(Nat \union {Word})

\* A body that the requests about a game accept is a number.
LEMMA NumberBody ==
  ASSUME NEW body \in RequestBody, IsNumber(body) PROVE body[1] \in Nat
BY DEF RequestBody, IsNumber

\* So is the first field of a message, if it is not a word.
LEMMA FirstField ==
  ASSUME NEW body \in RequestBody, Len(body) = 2, body[1] # Word PROVE body[1] \in Nat
BY DEF RequestBody

\* The fields of CREATE_GAME that have been checked are what NewGame asks for.
LEMMA RightFields ==
  ASSUME NEW body \in RequestBody
  PROVE  /\ WrongField(body) \in Nat
         /\ WrongField(body) = 0 => body[3] \in Nat /\ body[4] \in TimeLimit
BY DEF RequestBody, WrongField

\* Whatever ConnectUser answers, it keeps the invariant.
LEMMA ConnectUserKeeps ==
  ASSUME Inv, NEW p \in Live, NEW body, ConnectUser(p, body) PROVE Inv'
<1> USE Codes, Bodies
<1> DEFINE c == playerId[p]
<1>1. RoomInv /\ c \in PlayerId /\ c \in Nat
  BY LiveFacts
<1>2. CASE Answer(p, "CLIENT_CONNECT", "FORMAT_ERROR", <<1>>)
  BY <1>2, AnswerKeeps
<1>3. CASE Answer(p, "CLIENT_CONNECT", "CLIENT_ALREADY_IN_ROOM", <<>>)
  BY <1>3, AnswerKeeps
<1>4. CASE /\ ~InGeneral(c) /\ InsertOnGeneral(c)
           /\ named' = named \union {p}
           /\ Return(p, "CLIENT_CONNECT", "CLIENT_CONNECTED", <<c, GeneralId>>)
           /\ UNCHANGED playerId
  <2>1. /\ RoomInv' /\ OnlyLetsIn(c)
        /\ Range(general') = Range(general) \union {c}
    BY <1>1, <1>4, InsertOnGeneralKeeps
  <2>2. <<c, GeneralId>> \in Seq(Nat)
    BY <1>1 DEF GeneralId
  <2> QED BY <1>4, <2>1, <2>2, HandlerKeeps
<1> QED BY <1>2, <1>3, <1>4 DEF ConnectUser

\* Whatever SendMessage answers, it keeps the invariant.
LEMMA SendMessageKeeps ==
  ASSUME Inv, NEW p \in Live, NEW body \in RequestBody, SendMessage(p, body) PROVE Inv'
<1> USE Codes, Bodies
<1> DEFINE c == playerId[p]
<1>1. RoomInv /\ c \in PlayerId
  BY LiveFacts
<1>2. ASSUME NEW code \in {1, 2}, Answer(p, "SEND_MESSAGE", "FORMAT_ERROR", <<code>>)
      PROVE Inv'
  BY <1>2, AnswerKeeps
<1>3. ASSUME NEW status \in {"PERMISSION_DENIED", "ROOM_NOT_FOUND"},
             Answer(p, "SEND_MESSAGE", status, <<>>)
      PROVE Inv'
  BY <1>3, AnswerKeeps
<1>4. CASE /\ PostToGeneral(c)
           /\ Return(p, "SEND_MESSAGE", "OK", <<>>)
           /\ UNCHANGED <<playerId, named>>
  <2>1. RoomInv' /\ OnlyLetsIn(c)
    BY <1>1, <1>4, PostToGeneralKeeps
  <2>2. general' = general
    BY <1>4 DEF PostToGeneral
  <2> QED BY <1>4, <2>1, <2>2, HandlerKeeps
<1>5. ASSUME NEW i \in DOMAIN games, PostToGame(i, c),
             Return(p, "SEND_MESSAGE", "OK", <<>>), UNCHANGED <<playerId, named>>
      PROVE Inv'
  <2>1. RoomInv' /\ OnlyLetsIn(c)
    BY <1>1, <1>5, PostToGameKeeps
  <2>2. general' = general
    BY <1>5 DEF PostToGame
  <2> QED BY <1>5, <2>1, <2>2, HandlerKeeps
<1>6. Len(body) = 2 /\ body[1] # Word => body[1] \in Nat
  BY FirstField
<1>7. Len(body) = 2 /\ body[1] # Word /\ GetGame(body[1]) # 0 =>
        GetGame(body[1]) \in DOMAIN games
  BY <1>6, LiveFacts
<1> QED BY <1>2, <1>3, <1>4, <1>5, <1>7 DEF SendMessage

\* Whatever Leave answers, it keeps the invariant.
LEMMA LeaveKeeps ==
  ASSUME Inv, NEW p \in Live, Leave(p) PROVE Inv'
<1> USE Codes, Bodies
<1>1. RoomInv' /\ OnlyLetsIn(playerId[p]) /\ general' = general
  BY LiveFacts, RemoveFromGameKeeps DEF Leave
<1>2. Return(p, "LEAVE", "LEAVE_SUCCESS", <<>>) /\ UNCHANGED <<playerId, named>>
  BY DEF Leave
<1> QED BY <1>1, <1>2, HandlerKeeps

\* Whatever CreateGame answers, it keeps the invariant.
LEMMA CreateGameKeeps ==
  ASSUME Inv, NEW p \in Live, NEW body \in RequestBody, CreateGame(p, body) PROVE Inv'
<1> USE Codes, Bodies
<1> DEFINE c == playerId[p]
<1>1. RoomInv /\ c \in PlayerId
  BY LiveFacts
<1>2. CASE Answer(p, "CREATE_GAME", "PERMISSION_DENIED", <<>>)
  BY <1>2, AnswerKeeps
<1>3. CASE Answer(p, "CREATE_GAME", "FORMAT_ERROR", <<WrongField(body)>>)
  BY <1>3, RightFields, AnswerKeeps
<1>4. ASSUME ~IsInRoom(c), WrongField(body) = 0, CreateRoom(c, body[3], body[4]),
             Return(p, "CREATE_GAME", "GAME_CREATED", <<Len(games) + 1>>),
             UNCHANGED <<playerId, named>>
      PROVE Inv'
  <2>1. RoomInv' /\ OnlyLetsIn(c)
    <3>1. body[3] \in Nat /\ body[4] \in TimeLimit
      BY <1>4, RightFields
    <3> QED BY <3>1, <1>1, <1>4, CreateRoomKeeps
  <2>2. general' = general
    BY <1>4 DEF CreateRoom
  <2>3. <<Len(games) + 1>> \in Seq(Nat)
    BY LiveFacts
  <2> QED BY <1>4, <2>1, <2>2, <2>3, HandlerKeeps
<1> QED BY <1>2, <1>3, <1>4 DEF CreateGame

\* The information of a game is made of numbers.
LEMMA JoinInfoType ==
  ASSUME NEW g \in Game PROVE JoinInfo(g) \in Seq(Nat)
<1>1. g.viewerLimit \in Nat /\ Len(g.players) \in Nat /\ g.timeLimit \in Nat
  BY DEF Game, TimeLimit
<1> QED BY <1>1 DEF JoinInfo

\* Whatever JoinAsPlayer answers, it keeps the invariant.
LEMMA JoinAsPlayerKeeps ==
  ASSUME Inv, NEW p \in Live, NEW body \in RequestBody, JoinAsPlayer(p, body) PROVE Inv'
<1> USE Codes, Bodies
<1> DEFINE c  == playerId[p]
           op == "JOIN_AS_PLAYER"
<1>1. RoomInv /\ c \in PlayerId
  BY LiveFacts
<1>2. ASSUME NEW status \in {"PERMISSION_DENIED", "ROOM_NOT_FOUND", "TOO_MANY_CLIENTS"},
             Answer(p, op, status, <<>>)
      PROVE Inv'
  BY <1>2, AnswerKeeps
<1>3. CASE Answer(p, op, "FORMAT_ERROR", <<1>>)
  BY <1>3, AnswerKeeps
<1>4. ASSUME ~IsInRoom(c), NEW i \in DOMAIN games, InsertPlayer(i, c),
             Return(p, op, "CLIENT_JOIN_GAME", JoinInfo(games'[i])),
             UNCHANGED <<playerId, named>>
      PROVE Inv'
  <2>1. RoomInv' /\ OnlyLetsIn(c)
    BY <1>1, <1>4, InsertPlayerKeeps
  <2>2. general' = general
    BY <1>4 DEF InsertPlayer
  <2>3. JoinInfo(games'[i]) \in Seq(Nat)
    <3>1. games'[i] \in Game
      BY <1>4, <2>1 DEF RoomInv, InsertPlayer
    <3> QED BY <3>1, JoinInfoType
  <2> QED BY <1>4, <2>1, <2>2, <2>3, HandlerKeeps
<1>5. IsNumber(body) /\ GetGame(body[1]) # 0 => GetGame(body[1]) \in DOMAIN games
  BY NumberBody, LiveFacts
<1> QED BY <1>2, <1>3, <1>4, <1>5 DEF JoinAsPlayer, JoinAs

\* Whatever JoinAsViewer answers, it keeps the invariant.
LEMMA JoinAsViewerKeeps ==
  ASSUME Inv, NEW p \in Live, NEW body \in RequestBody, JoinAsViewer(p, body) PROVE Inv'
<1> USE Codes, Bodies
<1> DEFINE c  == playerId[p]
           op == "JOIN_AS_VIEWER"
<1>1. RoomInv /\ c \in PlayerId
  BY LiveFacts
<1>2. ASSUME NEW status \in {"PERMISSION_DENIED", "ROOM_NOT_FOUND", "TOO_MANY_CLIENTS"},
             Answer(p, op, status, <<>>)
      PROVE Inv'
  BY <1>2, AnswerKeeps
<1>3. CASE Answer(p, op, "FORMAT_ERROR", <<1>>)
  BY <1>3, AnswerKeeps
<1>4. ASSUME ~IsInRoom(c), NEW i \in DOMAIN games, InsertViewer(i, c),
             Return(p, op, "CLIENT_JOIN_GAME", JoinInfo(games'[i])),
             UNCHANGED <<playerId, named>>
      PROVE Inv'
  <2>1. RoomInv' /\ OnlyLetsIn(c)
    BY <1>1, <1>4, InsertViewerKeeps
  <2>2. general' = general
    BY <1>4 DEF InsertViewer
  <2>3. JoinInfo(games'[i]) \in Seq(Nat)
    <3>1. games'[i] \in Game
      BY <1>4, <2>1 DEF RoomInv, InsertViewer
    <3> QED BY <3>1, JoinInfoType
  <2> QED BY <1>4, <2>1, <2>2, <2>3, HandlerKeeps
<1>5. IsNumber(body) /\ GetGame(body[1]) # 0 => GetGame(body[1]) \in DOMAIN games
  BY NumberBody, LiveFacts
<1> QED BY <1>2, <1>3, <1>4, <1>5 DEF JoinAsViewer, JoinAs

\* The requests that only ask keep the invariant.
LEMMA QueriesKeep ==
  ASSUME Inv, NEW p \in Live, NEW body \in RequestBody,
         \/ GetGameInfo(p)
         \/ GetNbrClientConnected(p)
         \/ GetPlayerNbr(p, body)
         \/ GetGameCreated(p)
         \/ GetGameStatus(p, body)
         \/ Unhandled(p)
  PROVE  Inv'
<1> USE Codes, Bodies
<1>1. games \in Seq(Game) /\ general \in Seq(PlayerId)
  BY LiveFacts DEF RoomInv
<1>2. CASE GetGameInfo(p)
  <2>1. DOMAIN games = 1..Len(games) /\ Len(games) \in Nat
    BY <1>1
  <2>2. \A i \in DOMAIN games : games[i].id \in Nat
    <3>1. \A g \in Game : g.id \in Nat
      BY DEF Game
    <3> QED BY <3>1, <1>1
  <2>3. [i \in DOMAIN games |-> games[i].id] \in Seq(Nat)
    BY <2>1, <2>2
  <2> QED BY <1>2, <2>3, AnswerKeeps DEF GetGameInfo
<1>3. CASE GetNbrClientConnected(p)
  BY <1>3, LiveFacts, AnswerKeeps DEF GetNbrClientConnected
<1>4. CASE GetPlayerNbr(p, body)
  <2>1. ASSUME NEW i \in DOMAIN games PROVE <<Len(games[i].players)>> \in Seq(Nat)
    <3>1. games[i] \in Game
      BY <1>1
    <3>2. games[i].players \in Seq(PlayerId)
      BY <3>1 DEF Game
    <3>3. Len(games[i].players) \in Nat
      BY <3>2
    <3> QED BY <3>3
  <2>2. IsNumber(body) /\ GetGame(body[1]) # 0 => GetGame(body[1]) \in DOMAIN games
    BY NumberBody, LiveFacts
  <2> QED BY <1>4, <2>1, <2>2, AnswerKeeps DEF GetPlayerNbr
<1>5. CASE GetGameCreated(p)
  BY <1>5, LiveFacts, AnswerKeeps DEF GetGameCreated
<1>6. CASE GetGameStatus(p, body)
  BY <1>6, AnswerKeeps DEF GetGameStatus
<1>7. CASE Unhandled(p)
  BY <1>7, AnswerKeeps DEF Unhandled
<1> QED BY <1>2, <1>3, <1>4, <1>5, <1>6, <1>7

\* A processer comes to life: the rooms do not know.
LEMMA ConstructKeeps ==
  ASSUME Inv, NEW p \in Processer, NEW c \in PlayerId, Construct(p, c)
  PROVE  Inv'
<1>1. /\ RoomInv /\ ProcesserTypeOK /\ NoGhosts /\ EnteredStay
      /\ UNCHANGED <<general, generalChat, games, named>>
      /\ playerId' = [playerId EXCEPT ![p] = c] /\ reply' = NoReply
      /\ playerId[p] = 0 /\ c # 0
  BY InvIsRoomInv, PlayerIdAssumption DEF Construct, rooms, Live
<1>2. RoomInv'
  BY <1>1 DEF RoomInv, OneSeat, OneLobbyPlace, RoomIds
<1>3. /\ playerId' \in [Processer -> PlayerId \union {0}]
      /\ Live' = Live \union {p}
      /\ \A q \in Live : playerId'[q] = playerId[q]
  BY <1>1 DEF ProcesserTypeOK, Live
<1>4. ProcesserTypeOK'
  <2>1. reply' \in [to : Processer \union {Nobody}, op : OpCode, status : Status, body : Seq(Nat)]
    BY <1>1 DEF NoReply, OpCode, Status
  <2> QED BY <2>1, <1>1, <1>3 DEF ProcesserTypeOK
<1>5. NoGhosts'
  <2>1. \A q \in named : q \in Live /\ playerId'[q] = playerId[q]
    BY <1>1, <1>3 DEF ProcesserTypeOK
  <2>2. /\ \A x : InGeneral(x)' <=> InGeneral(x)
        /\ \A x : IsInRoom(x)' <=> IsInRoom(x)
    BY <1>1 DEF InGeneral, IsInRoom
  <2>3. \A x : InGeneral(x)' => \E q \in named' : playerId'[q] = x
    BY <1>1, <2>1, <2>2, NoGhostsIs
  <2>4. \A x : IsInRoom(x)' => \E q \in Live' : playerId'[q] = x
    BY <1>1, <1>3, <2>2, NoGhostsIs
  <2> QED BY <2>3, <2>4, NoGhostsIsNext
<1>6. EnteredStay'
  BY <1>1, <1>3 DEF EnteredStay, InGeneral, ProcesserTypeOK
<1> QED BY <1>2, <1>4, <1>5, <1>6 DEF Inv, RoomInv, TypeOK, ProcesserTypeOK

\* The processers go with their client: whoever stays in the rooms is another
\* client, and keeps its processers.
LEMMA RemoveFromRoomKeeps ==
  ASSUME Inv, NEW p \in Live, RemoveFromRoom(p) PROVE Inv'
<1> PICK c \in PlayerId : c = playerId[p]
  BY LiveFacts
<1>1. /\ RoomInv /\ ProcesserTypeOK /\ NoGhosts /\ EnteredStay
      /\ RemoveFromBoth(c) /\ reply' = NoReply /\ named' = named \ Namesakes(p)
      /\ playerId' = [q \in Processer |-> IF q \in Namesakes(p) THEN 0 ELSE playerId[q]]
  BY InvIsRoomInv DEF RemoveFromRoom
<1>2. RoomInv' /\ OnlyLetsIn(c) /\ ~IsInRoom(c)' /\ Range(general') = Range(general) \ {c}
  BY <1>1, RemoveFromBothKeeps
<1>3. /\ playerId' \in [Processer -> PlayerId \union {0}]
      /\ Live' = Live \ Namesakes(p)
      /\ \A q \in Live : playerId[q] # c => q \in Live' /\ playerId'[q] = playerId[q]
      /\ \A q \in Live : q \in Namesakes(p) <=> playerId[q] = c
  BY <1>1 DEF ProcesserTypeOK, Live, Namesakes
<1>4. ProcesserTypeOK'
  <2>1. reply' \in [to : Processer \union {Nobody}, op : OpCode, status : Status, body : Seq(Nat)]
    BY <1>1 DEF NoReply, OpCode, Status
  <2> QED BY <2>1, <1>1, <1>3 DEF ProcesserTypeOK
<1>5. NoGhosts'
  <2>1. ASSUME NEW d, InGeneral(d)' PROVE \E q \in named' : playerId'[q] = d
    <3>1. InGeneral(d) /\ d # c
      BY <2>1, <1>2 DEF InGeneral
    <3>2. PICK q \in named : playerId[q] = d
      BY <3>1, <1>1, NoGhostsIs
    <3>3. q \in Live /\ q \notin Namesakes(p)
      BY <3>1, <3>2, <1>1, <1>3 DEF ProcesserTypeOK
    <3> QED BY <3>2, <3>3, <1>1, <1>3
  <2>2. ASSUME NEW d, IsInRoom(d)' PROVE \E q \in Live' : playerId'[q] = d
    <3>1. IsInRoom(d) /\ d # c
      BY <2>2, <1>2 DEF OnlyLetsIn
    <3>2. PICK q \in Live : playerId[q] = d
      BY <3>1, <1>1, NoGhostsIs
    <3> QED BY <3>1, <3>2, <1>3
  <2> QED BY <2>1, <2>2, NoGhostsIsNext
<1>6. EnteredStay'
  BY <1>1, <1>2, <1>3 DEF EnteredStay, InGeneral, ProcesserTypeOK
<1> QED BY <1>2, <1>4, <1>5, <1>6 DEF Inv, RoomInv, TypeOK, ProcesserTypeOK

\* Every step of a processer keeps the invariant.
LEMMA NextKeeps == Inv /\ [Next]_vars => Inv'
<1> SUFFICES ASSUME Inv, [Next]_vars PROVE Inv'
  OBVIOUS
<1>1. ASSUME NEW p \in Processer, NEW c \in PlayerId, Construct(p, c) PROVE Inv'
  BY <1>1, ConstructKeeps
<1>2. ASSUME NEW p \in Live, RemoveFromRoom(p) PROVE Inv'
  BY <1>2, RemoveFromRoomKeeps
<1>3. ASSUME NEW p \in Live, NEW r \in Request, Process(p, r) PROVE Inv'
  <2>1. r.body \in RequestBody
    BY RequestAssumption DEF RequestBody
  <2> QED BY <2>1, <1>3, ConnectUserKeeps, SendMessageKeeps, LeaveKeeps, CreateGameKeeps,
             JoinAsPlayerKeeps, JoinAsViewerKeeps, QueriesKeep DEF Process
<1>4. CASE UNCHANGED vars
  BY <1>4 DEF vars, Inv, TypeOK, OneSeat, OneLobbyPlace, RoomIds, NoGhosts,
             EnteredStay, InGeneral, Live
<1> QED BY <1>1, <1>2, <1>3, <1>4 DEF Next

\* The invariant holds in every state, however many processers act for one id.
THEOREM InvHolds == Spec => []Inv
BY InitInv, NextKeeps, PTL DEF Spec

\* The rooms, the processers and their answers keep their types, whatever the
\* clients send and in whatever order (server/src/request_processer.cpp).
THEOREM TypesHold == Spec => []TypeOK
<1>1. Inv => TypeOK
  BY DEF Inv
<1> QED BY <1>1, InvHolds, PTL

\* No client ever holds two seats, in one game or in two, even when several
\* processers act for the same id: join_game_room and create_game ask
\* is_in_room before they insert.
THEOREM OneSeatHolds == Spec => []OneSeat
<1>1. Inv => OneSeat
  BY DEF Inv
<1> QED BY <1>1, InvHolds, PTL

\* No client is ever stored twice in the general room (GeneralRoom::insert_client).
THEOREM OneLobbyPlaceHolds == Spec => []OneLobbyPlace
<1>1. Inv => OneLobbyPlace
  BY DEF Inv
<1> QED BY <1>1, InvHolds, PTL

\* Room ids stay unique and different from the general room's, because
\* create_game numbers a game by the games there are and none is removed.
THEOREM RoomIdsHolds == Spec => []RoomIds
<1>1. Inv => RoomIds
  BY DEF Inv
<1> QED BY <1>1, InvHolds, PTL

\* Whoever is in the general room or in a game has a live processer: a lost
\* connection leaves no client behind (RequestProcesser::remove_from_room).
THEOREM NoGhostsHolds == Spec => []NoGhosts
<1>1. Inv => NoGhosts
  BY DEF Inv
<1> QED BY <1>1, InvHolds, PTL

\* A client that introduced itself stays in the general room until a connection
\* of its id is lost, and is then not served any more: GeneralRoom::remove_client
\* puts out the client it is told, and nobody else.
THEOREM EnteredStayHolds == Spec => []EnteredStay
<1>1. Inv => EnteredStay
  BY DEF Inv
<1> QED BY <1>1, InvHolds, PTL

-----------------------------------------------------------------------------
(* Who sits where after an operation.                                      *)

\* The players, viewers and chats of the games, but for those of the i-th one.
OthersStay(i) == \A j \in DOMAIN games : j # i =>
                   /\ games'[j].players = games[j].players
                   /\ games'[j].viewers = games[j].viewers
                   /\ games'[j].chat = games[j].chat

\* insert_player adds a player to the game, and nothing else.
LEMMA InsertPlayerMoves ==
  ASSUME RoomInv, NEW c \in PlayerId, NEW i \in DOMAIN games, InsertPlayer(i, c)
  PROVE  /\ general' = general /\ generalChat' = generalChat
         /\ DOMAIN games' = DOMAIN games /\ OthersStay(i)
         /\ games'[i].players = Append(games[i].players, c)
         /\ Range(games'[i].players) = Range(games[i].players) \union {c}
         /\ Range(games'[i].viewers) = Range(games[i].viewers)
         /\ games'[i].chat = games[i].chat
<1>1. games[i] \in Game /\ games \in Seq(Game)
  BY DEF RoomInv
<1>2. Range(Append(games[i].players, c)) = Range(games[i].players) \union {c}
  BY <1>1, AppendNew DEF Game
<1>3. games'[i] = [games[i] EXCEPT !.players = Append(games[i].players, c)]
  BY <1>1 DEF InsertPlayer
<1>4. /\ games'[i].players = Append(games[i].players, c)
      /\ games'[i].viewers = games[i].viewers /\ games'[i].chat = games[i].chat
  BY <1>1, <1>3 DEF Game
<1> QED BY <1>1, <1>2, <1>4 DEF InsertPlayer, OthersStay

\* insert_viewer adds a viewer to the game, and nothing else.
LEMMA InsertViewerMoves ==
  ASSUME RoomInv, NEW c \in PlayerId, NEW i \in DOMAIN games, InsertViewer(i, c)
  PROVE  /\ general' = general /\ generalChat' = generalChat
         /\ DOMAIN games' = DOMAIN games /\ OthersStay(i)
         /\ games'[i].players = games[i].players
         /\ Range(games'[i].viewers) = Range(games[i].viewers) \union {c}
         /\ games'[i].chat = games[i].chat
<1>1. games[i] \in Game /\ games \in Seq(Game)
  BY DEF RoomInv
<1>2. Range(Append(games[i].viewers, c)) = Range(games[i].viewers) \union {c}
  BY <1>1, AppendNew DEF Game
<1>3. games'[i] = [games[i] EXCEPT !.viewers = Append(games[i].viewers, c)]
  BY <1>1 DEF InsertViewer
<1>4. /\ games'[i].viewers = Append(games[i].viewers, c)
      /\ games'[i].players = games[i].players /\ games'[i].chat = games[i].chat
  BY <1>1, <1>3 DEF Game
<1> QED BY <1>1, <1>2, <1>4 DEF InsertViewer, OthersStay

\* A message in a game adds to its chat, and nothing else.
LEMMA PostToGameMoves ==
  ASSUME RoomInv, NEW c \in PlayerId, NEW i \in DOMAIN games, PostToGame(i, c)
  PROVE  /\ general' = general /\ generalChat' = generalChat
         /\ DOMAIN games' = DOMAIN games /\ OthersStay(i)
         /\ games'[i].players = games[i].players
         /\ games'[i].viewers = games[i].viewers
         /\ games'[i].chat = Append(games[i].chat, c)
<1>1. games[i] \in Game /\ games \in Seq(Game)
  BY DEF RoomInv
<1>2. games'[i] = [games[i] EXCEPT !.chat = Append(games[i].chat, c)]
  BY <1>1 DEF PostToGame
<1>3. /\ games'[i].players = games[i].players
      /\ games'[i].viewers = games[i].viewers
      /\ games'[i].chat = Append(games[i].chat, c)
  BY <1>1, <1>2 DEF Game
<1> QED BY <1>1, <1>3 DEF PostToGame, OthersStay

\* create_game adds a game with one player, and nothing else.
LEMMA CreateRoomMoves ==
  ASSUME RoomInv, NEW c \in PlayerId, NEW viewers, NEW time, CreateRoom(c, viewers, time)
  PROVE  LET n == Len(games) + 1 IN
         /\ general' = general /\ generalChat' = generalChat
         /\ DOMAIN games = 1..Len(games) /\ Len(games) \in Nat
         /\ DOMAIN games' = 1..n
         /\ \A j \in DOMAIN games : games'[j] = games[j]
         /\ games'[n].players = <<c>> /\ games'[n].viewers = <<>>
         /\ games'[n].id = n
<1>1. games \in Seq(Game)
  BY DEF RoomInv
<1> DEFINE g == NewGame(c, viewers, time)
<1>2. g.players = <<c>> /\ g.viewers = <<>> /\ g.id = Len(games) + 1
  BY DEF NewGame
<1>3. games' = Append(games, g) /\ UNCHANGED <<general, generalChat>>
  BY DEF CreateRoom
<1> HIDE DEF g
<1> QED BY <1>1, <1>2, <1>3

\* The client rises from every game, and nothing else changes there.
RisesFrom(c) == /\ DOMAIN games' = DOMAIN games
                /\ \A i \in DOMAIN games :
                     /\ Range(games'[i].players) = Range(games[i].players) \ {c}
                     /\ Len(games'[i].players) <= Len(games[i].players)
                     /\ Range(games'[i].viewers) = Range(games[i].viewers) \ {c}
                     /\ games'[i].chat = games[i].chat

\* remove_from_game makes the client rise.
LEMMA WithoutSeatMoves ==
  ASSUME RoomInv, NEW c, games' = WithoutSeat(c) PROVE RisesFrom(c)
<1>1. games \in Seq(Game)
  BY DEF RoomInv
<1>2. games' \in Seq(Game) /\ Len(games') = Len(games)
  BY WithoutSeatIs
<1>3. DOMAIN games' = DOMAIN games
  BY <1>1, <1>2
<1> QED BY <1>3, WithoutSeatIs DEF RisesFrom

-----------------------------------------------------------------------------
(* What a request can do.                                                  *)

\* It is answered, and nothing changes; what is claimed is so.
Quiet(p) ==
  \E op, status, body :
    /\ Answer(p, op, status, body)
    /\ status \notin {"OK", "LEAVE_SUCCESS", "GAME_CREATED", "CLIENT_JOIN_GAME"}
    /\ status = "CLIENT_ALREADY_IN_ROOM" => InGeneral(playerId[p])
    /\ status = "NUMBER_CLIENT_CONNECTED" => body = <<Len(general)>>

\* Or its client enters the general room, speaks, leaves, founds, plays, watches.
Enters(p) == /\ ~InGeneral(playerId[p])
             /\ InsertOnGeneral(playerId[p])
             /\ Return(p, "CLIENT_CONNECT", "CLIENT_CONNECTED", <<playerId[p], GeneralId>>)
             /\ UNCHANGED playerId

Speaks(p) == /\ InGeneral(playerId[p])
             /\ PostToGeneral(playerId[p])
             /\ Return(p, "SEND_MESSAGE", "OK", <<>>)
             /\ UNCHANGED playerId

SpeaksIn(p, i) == /\ PostToGame(i, playerId[p])
                  /\ Return(p, "SEND_MESSAGE", "OK", <<>>)
                  /\ UNCHANGED playerId

Founds(p) == /\ ~IsInRoom(playerId[p])
             /\ \E viewers \in Nat, time \in TimeLimit : CreateRoom(playerId[p], viewers, time)
             /\ Return(p, "CREATE_GAME", "GAME_CREATED", <<Len(games) + 1>>)
             /\ UNCHANGED playerId

Plays(p, i) == /\ ~IsInRoom(playerId[p])
               /\ Len(games[i].players) # 2
               /\ InsertPlayer(i, playerId[p])
               /\ Return(p, "JOIN_AS_PLAYER", "CLIENT_JOIN_GAME", JoinInfo(games'[i]))
               /\ UNCHANGED playerId

Watches(p, i) == /\ ~IsInRoom(playerId[p])
                 /\ InsertViewer(i, playerId[p])
                 /\ Return(p, "JOIN_AS_VIEWER", "CLIENT_JOIN_GAME", JoinInfo(games'[i]))
                 /\ UNCHANGED playerId

Effect(p) == \/ Quiet(p)
             \/ Enters(p)
             \/ Speaks(p)
             \/ Leave(p)
             \/ Founds(p)
             \/ \E i \in DOMAIN games : SpeaksIn(p, i) \/ Plays(p, i) \/ Watches(p, i)

\* process() has one of these effects, whatever it is asked.
LEMMA ProcessHasEffect ==
  ASSUME Inv, NEW p \in Live, NEW r \in Request, Process(p, r) PROVE Effect(p)
<1> DEFINE body == r.body
<1>1. body \in RequestBody
  BY RequestAssumption DEF RequestBody
<1> HIDE DEF body
<1>2. IsNumber(body) /\ GetGame(body[1]) # 0 => GetGame(body[1]) \in DOMAIN games
  BY <1>1, NumberBody, LiveFacts
<1>3. Len(body) = 2 /\ body[1] # Word /\ GetGame(body[1]) # 0 =>
        GetGame(body[1]) \in DOMAIN games
  BY <1>1, FirstField, LiveFacts
<1>4. CASE ConnectUser(p, body)
  BY <1>4 DEF ConnectUser, Quiet, Enters, Effect
<1>5. CASE SendMessage(p, body)
  BY <1>5, <1>3 DEF SendMessage, Quiet, Speaks, SpeaksIn, Effect
<1>6. CASE Leave(p)
  BY <1>6 DEF Effect
<1>7. CASE CreateGame(p, body)
  BY <1>7, <1>1, RightFields DEF CreateGame, Quiet, Founds, Effect
<1>8. CASE JoinAsPlayer(p, body)
  BY <1>8, <1>2 DEF JoinAsPlayer, JoinAs, PlayersFull, MaxPlayers, Quiet, Plays, Effect
<1>9. CASE JoinAsViewer(p, body)
  BY <1>9, <1>2 DEF JoinAsViewer, JoinAs, Quiet, Watches, Effect
<1>10. CASE GetPlayerNbr(p, body)
  BY <1>10 DEF GetPlayerNbr, Quiet, Effect
<1>11. CASE GetGameStatus(p, body)
  BY <1>11 DEF GetGameStatus, Quiet, Effect
<1>12. CASE GetNbrClientConnected(p)
  BY <1>12 DEF GetNbrClientConnected, Quiet, Effect
<1>13. CASE GetGameInfo(p) \/ GetGameCreated(p) \/ Unhandled(p)
  <2>1. \A op, status, body2 :
          Answer(p, op, status, body2)
          /\ status \in {"LIST_GAME", "NUMBER_OF_GAME", "PERMISSION_DENIED"} => Quiet(p)
    BY DEF Quiet
  <2> QED BY <1>13, <2>1 DEF GetGameInfo, GetGameCreated, Unhandled, Effect
<1> QED BY <1>4, <1>5, <1>6, <1>7, <1>8, <1>9, <1>10, <1>11, <1>12, <1>13 DEF Process, body

\* A step of a client is that of a processer that is constructed, of one that
\* ends, or of one that has an effect.
LEMMA NextHasEffect ==
  ASSUME Inv, Next
  PROVE  \/ \E p \in Processer, c \in PlayerId : Construct(p, c)
         \/ \E p \in Live : RemoveFromRoom(p) \/ Effect(p)
BY ProcessHasEffect DEF Next

\* LEAVE makes its client rise; the general room is as it was.
LEMMA LeaveMoves ==
  ASSUME Inv, NEW p \in Live, Leave(p)
  PROVE  /\ RisesFrom(playerId[p])
         /\ general' = general /\ generalChat' = generalChat
<1>1. RoomInv /\ RemoveFromGame(playerId[p])
  BY LiveFacts DEF Leave
<1>2. games' = WithoutSeat(playerId[p]) /\ UNCHANGED <<general, generalChat>>
  BY <1>1 DEF RemoveFromGame
<1> QED BY <1>1, <1>2, WithoutSeatMoves

\* A lost connection makes its client rise and leave the general room.
LEMMA RemoveFromRoomMoves ==
  ASSUME Inv, NEW p \in Live, RemoveFromRoom(p)
  PROVE  /\ RisesFrom(playerId[p])
         /\ Range(general') = Range(general) \ {playerId[p]}
         /\ generalChat' = generalChat
<1>1. RoomInv /\ RemoveFromBoth(playerId[p])
  BY LiveFacts DEF RemoveFromRoom
<1>2. games' = WithoutSeat(playerId[p]) /\ UNCHANGED generalChat
  BY <1>1 DEF RemoveFromBoth
<1> QED BY <1>1, <1>2, RemoveFromBothKeeps, WithoutSeatMoves

-----------------------------------------------------------------------------
(* A client's places are its own.                                          *)

\* A place is the same if each of its parts is.
LEMMA SamePlace ==
  ASSUME NEW d, InGeneral(d)' <=> InGeneral(d),
         \A i : i \in DOMAIN games' /\ d \in Range(games'[i].players) <=>
               i \in DOMAIN games /\ d \in Range(games[i].players),
         \A i : i \in DOMAIN games' /\ d \in Range(games'[i].viewers) <=>
               i \in DOMAIN games /\ d \in Range(games[i].viewers)
  PROVE  Place(d)' = Place(d)
<1>1. {i \in DOMAIN games' : d \in Range(games'[i].players)}
        = {i \in DOMAIN games : d \in Range(games[i].players)}
  OBVIOUS
<1>2. {i \in DOMAIN games' : d \in Range(games'[i].viewers)}
        = {i \in DOMAIN games : d \in Range(games[i].viewers)}
  OBVIOUS
<1>3. InGeneral(d)' = InGeneral(d)
  BY DEF InGeneral
<1> QED BY <1>1, <1>2, <1>3 DEF Place

\* A game that a client founds, plays in or watches concerns no other client.
LEMMA OneGameMoves ==
  ASSUME NEW c, NEW d, d # c, NEW i \in DOMAIN games,
         general' = general, DOMAIN games' = DOMAIN games, OthersStay(i),
         Range(games'[i].players) \ {c} = Range(games[i].players) \ {c},
         Range(games'[i].viewers) \ {c} = Range(games[i].viewers) \ {c}
  PROVE  Place(d)' = Place(d)
<1>1. \A j \in DOMAIN games : d \in Range(games'[j].players) <=> d \in Range(games[j].players)
  BY DEF OthersStay
<1>2. \A j \in DOMAIN games : d \in Range(games'[j].viewers) <=> d \in Range(games[j].viewers)
  BY DEF OthersStay
<1> QED BY <1>1, <1>2, SamePlace DEF InGeneral

\* Whatever effect a handler has, it spares the places of the other clients.
LEMMA EffectSparesOthers ==
  ASSUME Inv, NEW p \in Live, Effect(p), NEW d, d # playerId[p]
  PROVE  Place(d)' = Place(d)
<1> DEFINE c == playerId[p]
<1>1. RoomInv /\ c \in PlayerId /\ c # d
  BY LiveFacts
<1>2. CASE Quiet(p) \/ Speaks(p)
  <2>1. general' = general /\ games' = games
    BY <1>2 DEF Quiet, Answer, Speaks, PostToGeneral, rooms
  <2> QED BY <2>1 DEF Place, InGeneral
<1>3. CASE Enters(p)
  <2>1. Range(general') = Range(general) \union {c} /\ games' = games
    BY <1>1, <1>3, AppendNew DEF Enters, InsertOnGeneral, RoomInv
  <2> QED BY <2>1, <1>1, SamePlace DEF InGeneral
<1>4. CASE Leave(p)
  <2>1. RisesFrom(c) /\ general' = general
    BY <1>4, LeaveMoves
  <2> QED BY <2>1, <1>1, SamePlace DEF InGeneral, RisesFrom
<1>5. CASE Founds(p)
  <2> DEFINE n == Len(games) + 1
  <2>1. /\ general' = general
        /\ DOMAIN games = 1..Len(games) /\ Len(games) \in Nat /\ DOMAIN games' = 1..n
        /\ \A j \in DOMAIN games : games'[j] = games[j]
        /\ games'[n].players = <<c>> /\ games'[n].viewers = <<>>
    BY <1>1, <1>5, CreateRoomMoves DEF Founds
  <2>2. d \notin Range(games'[n].players) /\ d \notin Range(games'[n].viewers)
    BY <2>1, <1>1 DEF Range
  <2>3. \A i \in DOMAIN games' : i \in DOMAIN games \/ i = n
    BY <2>1
  <2>4. DOMAIN games \subseteq DOMAIN games' /\ n \notin DOMAIN games
    BY <2>1
  <2> HIDE DEF n
  <2> QED BY <2>1, <2>2, <2>3, <2>4, SamePlace DEF InGeneral
<1>6. ASSUME NEW i \in DOMAIN games, SpeaksIn(p, i) \/ Plays(p, i) \/ Watches(p, i)
      PROVE  Place(d)' = Place(d)
  <2>1. CASE SpeaksIn(p, i)
    BY <2>1, <1>1, PostToGameMoves, OneGameMoves DEF SpeaksIn
  <2>2. CASE Plays(p, i)
    <3>1. /\ general' = general /\ DOMAIN games' = DOMAIN games /\ OthersStay(i)
          /\ Range(games'[i].players) = Range(games[i].players) \union {c}
          /\ Range(games'[i].viewers) = Range(games[i].viewers)
      BY <2>2, <1>1, InsertPlayerMoves DEF Plays
    <3> QED BY <3>1, <1>1, OneGameMoves
  <2>3. CASE Watches(p, i)
    <3>1. /\ general' = general /\ DOMAIN games' = DOMAIN games /\ OthersStay(i)
          /\ games'[i].players = games[i].players
          /\ Range(games'[i].viewers) = Range(games[i].viewers) \union {c}
      BY <2>3, <1>1, InsertViewerMoves DEF Watches
    <3> QED BY <3>1, <1>1, OneGameMoves
  <2> QED BY <1>6, <2>1, <2>2, <2>3
<1> QED BY <1>2, <1>3, <1>4, <1>5, <1>6 DEF Effect

\* A handler that has an effect answers its client.
LEMMA EffectAnswers ==
  ASSUME NEW p \in Live, Effect(p) PROVE reply'.to = p
BY DEF Effect, Quiet, Answer, Enters, Speaks, Leave, Founds, SpeaksIn, Plays, Watches, Return

\* The rooms of a client change only by a handler of its own
\* (server/src/request_processer.cpp): no step of another client moves it.
THEOREM OnlyOwnPlaceHolds == Spec => OnlyOwnPlace
<1>1. ASSUME Inv, [Next]_vars PROVE [MovesOnlyOwn]_vars
  <2> SUFFICES ASSUME Next PROVE MovesOnlyOwn
    BY <1>1
  <2>1. CASE \E p \in Processer, c \in PlayerId : Construct(p, c)
    BY <2>1 DEF Construct, rooms, MovesOnlyOwn, Place, InGeneral
  <2>2. ASSUME NEW p \in Live, Effect(p) PROVE MovesOnlyOwn
    BY <1>1, <2>2, EffectSparesOthers, EffectAnswers DEF MovesOnlyOwn
  <2>3. ASSUME NEW p \in Live, RemoveFromRoom(p) PROVE MovesOnlyOwn
    <3> DEFINE c == playerId[p]
    <3>1. /\ RisesFrom(c) /\ Range(general') = Range(general) \ {c}
      BY <1>1, <2>3, RemoveFromRoomMoves
    <3>2. \A d : d # c => Place(d)' = Place(d)
      BY <3>1, SamePlace DEF InGeneral, RisesFrom
    <3>3. playerId'[p] = 0
      BY <2>3 DEF RemoveFromRoom, Namesakes, Live
    <3> QED BY <3>2, <3>3 DEF MovesOnlyOwn
  <2> QED BY <1>1, <2>1, <2>2, <2>3, NextHasEffect
<1> QED BY <1>1, InvHolds, PTL DEF Spec, OnlyOwnPlace

-----------------------------------------------------------------------------
(* Chats only grow.                                                        *)

\* The chats are the general room's, then those of the games.
LEMMA ChatsAre ==
  ASSUME NEW gc, NEW gs, NEW n \in Nat, DOMAIN gs = 1..n
  PROVE  LET s == <<gc>> \o [i \in DOMAIN gs |-> gs[i].chat] IN
         /\ DOMAIN s = 1..(n + 1) /\ Len(s) = n + 1 /\ s[1] = gc
         /\ \A k \in 2..(n + 1) : k - 1 \in 1..n /\ s[k] = gs[k - 1].chat
<1> DEFINE t == [i \in 1..n |-> gs[i].chat]
<1>1. t \in Seq({gs[i].chat : i \in 1..n}) /\ Len(t) = n
  OBVIOUS
<1>2. \A i \in 1..n : t[i] = gs[i].chat
  OBVIOUS
<1> HIDE DEF t
<1> DEFINE s == <<gc>> \o t
<1>3. /\ Len(s) = n + 1 /\ DOMAIN s = 1..(n + 1) /\ s[1] = gc
      /\ \A k \in 2..(n + 1) : s[k] = t[k - 1]
  BY <1>1
<1> QED BY <1>2, <1>3 DEF t

\* Where no chat changes, and games are only added, the chats are still there.
LEMMA SilentStep ==
  ASSUME Inv, generalChat' = generalChat,
         NEW n \in Nat, DOMAIN games' = 1..n, DOMAIN games \subseteq DOMAIN games',
         \A i \in DOMAIN games : games'[i].chat = games[i].chat
  PROVE  ChatStep
<1>1. Len(games) \in Nat /\ DOMAIN games = 1..Len(games)
  BY DEF Inv, TypeOK
<1>2. Len(games) <= n
  BY <1>1
<1>3. /\ DOMAIN Chats = 1..(Len(games) + 1) /\ Len(Chats) = Len(games) + 1
      /\ Chats[1] = generalChat
      /\ \A k \in 2..(Len(games) + 1) : k - 1 \in 1..Len(games) /\ Chats[k] = games[k - 1].chat
  BY <1>1, ChatsAre DEF Chats
<1>4. /\ Len(Chats') = n + 1 /\ Chats'[1] = generalChat'
      /\ \A k \in 2..(n + 1) : k - 1 \in 1..n /\ Chats'[k] = games'[k - 1].chat
  BY ChatsAre DEF Chats
<1>5. ASSUME NEW k \in DOMAIN Chats PROVE Chats'[k] = Chats[k]
  <2>1. CASE k = 1
    BY <2>1, <1>3, <1>4
  <2>2. CASE k # 1
    <3>1. k \in 2..(Len(games) + 1) /\ k \in 2..(n + 1)
      BY <2>2, <1>1, <1>2, <1>3
    <3>2. k - 1 \in DOMAIN games
      BY <3>1, <1>1, <1>3
    <3> QED BY <3>1, <3>2, <1>3, <1>4
  <2> QED BY <2>1, <2>2
<1> QED BY <1>1, <1>2, <1>3, <1>4, <1>5 DEF ChatStep

\* A message is added to one chat, of which its author is a member if it is the
\* general room's.
LEMMA SpokenStep ==
  ASSUME Inv, NEW p \in Live, reply'.status = "OK", reply'.to = p,
         DOMAIN games' = DOMAIN games, NEW m \in Nat, m <= Len(games),
         m = 0 => InGeneral(playerId[p]),
         generalChat' = IF m = 0 THEN Append(generalChat, playerId[p]) ELSE generalChat,
         \A i \in DOMAIN games :
           games'[i].chat = IF i = m THEN Append(games[i].chat, playerId[p]) ELSE games[i].chat
  PROVE  ChatStep
<1> DEFINE n == Len(games)
<1>1. n \in Nat /\ DOMAIN games = 1..n
  BY DEF Inv, TypeOK
<1>2. /\ DOMAIN Chats = 1..(n + 1) /\ Len(Chats) = n + 1
      /\ Chats[1] = generalChat
      /\ \A k \in 2..(n + 1) : k - 1 \in 1..n /\ Chats[k] = games[k - 1].chat
  BY <1>1, ChatsAre DEF Chats
<1>3. /\ Len(Chats') = n + 1 /\ Chats'[1] = generalChat'
      /\ \A k \in 2..(n + 1) : k - 1 \in 1..n /\ Chats'[k] = games'[k - 1].chat
  BY <1>1, ChatsAre DEF Chats
<1> HIDE DEF n
<1>4. Chats'[1] = IF m = 0 THEN Append(Chats[1], playerId[p]) ELSE Chats[1]
  BY <1>2, <1>3
<1>5. \A k \in 2..(n + 1) :
        Chats'[k] = IF k = m + 1 THEN Append(Chats[k], playerId[p]) ELSE Chats[k]
  BY SMTT(30), <1>1, <1>2, <1>3
<1>6. \A k \in DOMAIN Chats : k = 1 \/ k \in 2..(n + 1)
  BY <1>1, <1>2
<1>7. \A k \in DOMAIN Chats : k # m + 1 => Chats'[k] = Chats[k]
  BY <1>1, <1>4, <1>5, <1>6
<1>8. Chats'[m + 1] = Append(Chats[m + 1], playerId[p])
  <2>1. CASE m = 0
    BY <2>1, <1>4
  <2>2. CASE m # 0
    <3>1. m + 1 \in 2..(n + 1)
      BY <2>2, <1>1 DEF n
    <3> QED BY <3>1, <1>5
  <2> QED BY <2>1, <2>2
<1>9. m + 1 = 1 => InGeneral(playerId[p])
  OBVIOUS
<1>10. Len(Chats) <= Len(Chats')
  BY <1>1, <1>2, <1>3
<1> QED BY <1>7, <1>8, <1>9, <1>10 DEF ChatStep

\* No message is ever lost or put in another's name, and one that is added is
\* added on behalf of the client that is answered OK: joining, leaving, creating
\* games and losing connections leave all the chats as they were
\* (RoomInterface::add_message_*, remove_from_*).
THEOREM ChatsOnlyGrowHolds == Spec => ChatsOnlyGrow
<1>1. ASSUME Inv, [Next]_vars PROVE [ChatStep]_vars
  <2> SUFFICES ASSUME Next PROVE ChatStep
    BY <1>1
  <2>0. RoomInv /\ Len(games) \in Nat /\ DOMAIN games = 1..Len(games)
    BY <1>1, InvIsRoomInv DEF RoomInv
  <2>1. CASE \E p \in Processer, c \in PlayerId : Construct(p, c)
    BY <2>0, <2>1, <1>1, SilentStep DEF Construct, rooms
  <2>2. ASSUME NEW p \in Live, RemoveFromRoom(p) PROVE ChatStep
    BY <2>0, <2>2, <1>1, RemoveFromRoomMoves, SilentStep DEF RisesFrom
  <2>3. ASSUME NEW p \in Live, Effect(p) PROVE ChatStep
    <3> DEFINE c == playerId[p]
    <3>1. c \in PlayerId
      BY <1>1, LiveFacts
    <3>2. CASE Quiet(p) \/ Enters(p)
      <4>1. generalChat' = generalChat /\ games' = games
        BY <3>2 DEF Quiet, Answer, rooms, Enters, InsertOnGeneral
      <4> QED BY <4>1, <2>0, <1>1, SilentStep
    <3>3. CASE Speaks(p)
      <4>1. /\ generalChat' = Append(generalChat, c) /\ games' = games
            /\ InGeneral(c) /\ reply'.status = "OK" /\ reply'.to = p
        BY <3>3 DEF Speaks, PostToGeneral, Return
      <4>2. \A i \in DOMAIN games : i # 0
        BY <2>0
      <4> QED BY <4>1, <4>2, <2>0, <1>1, SpokenStep
    <3>4. CASE Leave(p)
      BY <3>4, <2>0, <1>1, LeaveMoves, SilentStep DEF RisesFrom
    <3>5. CASE Founds(p)
      <4>1. /\ generalChat' = generalChat /\ DOMAIN games' = 1..(Len(games) + 1)
            /\ \A j \in DOMAIN games : games'[j] = games[j]
        BY <3>5, <2>0, <3>1, CreateRoomMoves DEF Founds
      <4>2. Len(games) + 1 \in Nat /\ DOMAIN games \subseteq DOMAIN games'
        BY <4>1, <2>0
      <4> QED BY <4>1, <4>2, <1>1, SilentStep
    <3>6. ASSUME NEW i \in DOMAIN games, SpeaksIn(p, i) PROVE ChatStep
      <4>1. /\ generalChat' = generalChat /\ DOMAIN games' = DOMAIN games /\ OthersStay(i)
            /\ games'[i].chat = Append(games[i].chat, c)
        BY <3>6, <2>0, <3>1, PostToGameMoves DEF SpeaksIn
      <4>2. reply'.status = "OK" /\ reply'.to = p
        BY <3>6 DEF SpeaksIn, Return
      <4>3. i \in Nat /\ i <= Len(games) /\ i # 0
        BY <2>0
      <4> QED BY <4>1, <4>2, <4>3, <1>1, SpokenStep DEF OthersStay
    <3>7. ASSUME NEW i \in DOMAIN games, Plays(p, i) \/ Watches(p, i) PROVE ChatStep
      <4>1. /\ generalChat' = generalChat /\ DOMAIN games' = DOMAIN games /\ OthersStay(i)
            /\ games'[i].chat = games[i].chat
        BY <3>7, <2>0, <3>1, InsertPlayerMoves, InsertViewerMoves DEF Plays, Watches
      <4> QED BY <4>1, <2>0, <1>1, SilentStep DEF OthersStay
    <3> QED BY <2>3, <3>2, <3>3, <3>4, <3>5, <3>6, <3>7 DEF Effect
  <2> QED BY <1>1, <2>1, <2>2, <2>3, NextHasEffect
<1> QED BY <1>1, InvHolds, PTL DEF Spec, ChatsOnlyGrow

-----------------------------------------------------------------------------
(* The rooms implement Membership.                                         *)

\* Who sits where is all that Membership sees: the order and the chats are not.
LEMMA Stutters ==
  ASSUME Range(general') = Range(general), DOMAIN games' = DOMAIN games,
         \A i \in DOMAIN games : /\ Range(games'[i].players) = Range(games[i].players)
                                 /\ Range(games'[i].viewers) = Range(games[i].viewers)
  PROVE  UNCHANGED M!mvars
BY DEF M!mvars, TableOf

\* A game that create_game adds is a table of one player.
LEMMA FoundsTable ==
  ASSUME RoomInv, NEW c \in PlayerId, ~IsInRoom(c), general' = general,
         DOMAIN games' = 1..(Len(games) + 1),
         \A i \in DOMAIN games : games'[i] = games[i],
         games'[Len(games) + 1].players = <<c>>, games'[Len(games) + 1].viewers = <<>>
  PROVE  M!Found(c)
<1> DEFINE n == Len(games)
           tables == [i \in DOMAIN games |-> TableOf(games[i])]
           new == [players |-> {c}, viewers |-> {}]
<1>1. n \in Nat /\ DOMAIN games = 1..n
  BY DEF RoomInv
<1>2. M!Standing(c)
  BY DEF IsInRoom, InGame, M!Standing, M!AtTable, TableOf
<1>3. Range(<<c>>) = {c} /\ Range(<<>>) = {}
  BY DEF Range
<1>4. TableOf(games'[n + 1]) = new
  BY <1>3 DEF TableOf
<1>5. tables \in Seq({TableOf(games[i]) : i \in 1..n}) /\ Len(tables) = n
  BY <1>1
<1>6. \A i \in 1..n : TableOf(games'[i]) = tables[i]
  BY <1>1
<1>7. [i \in 1..(n + 1) |-> TableOf(games'[i])] = Append(tables, new)
  <2> DEFINE S == {TableOf(games[i]) : i \in 1..n} \union {new}
             t == Append(tables, new)
  <2> HIDE DEF tables, new
  <2>1. tables \in Seq(S) /\ new \in S
    BY <1>5
  <2> HIDE DEF S, n
  <2>2. /\ t \in Seq(S) /\ Len(t) = n + 1 /\ t[n + 1] = new
        /\ \A i \in 1..n : t[i] = tables[i]
    BY <2>1, <1>5, <1>1
  <2> HIDE DEF t
  <2>3. t = [i \in 1..(n + 1) |-> t[i]]
    BY <2>2
  <2>4. \A i \in 1..(n + 1) : i \in 1..n \/ i = n + 1
    BY <1>1
  <2>5. \A i \in 1..(n + 1) : t[i] = TableOf(games'[i])
    BY <2>2, <2>4, <1>4, <1>6
  <2>6. t = [i \in 1..(n + 1) |-> TableOf(games'[i])]
    BY <2>3, <2>5
  <2> QED BY <2>6 DEF t
<1>8. tables' = Append(tables, new)
  BY <1>7
<1> QED BY <1>2, <1>8 DEF M!Found

\* insert_player seats a client that stands at a table of one player at most.
LEMMA PlaysTable ==
  ASSUME RoomInv, NEW c \in PlayerId, ~IsInRoom(c), NEW i \in DOMAIN games,
         Len(games[i].players) < 2,
         general' = general, DOMAIN games' = DOMAIN games, OthersStay(i),
         Range(games'[i].players) = Range(games[i].players) \union {c},
         Range(games'[i].viewers) = Range(games[i].viewers)
  PROVE  M!Play(c, i)
<1> DEFINE tables == [j \in DOMAIN games |-> TableOf(games[j])]
<1>2. M!Standing(c)
  BY DEF IsInRoom, InGame, M!Standing, M!AtTable, TableOf
<1>3. \A d, e \in Range(games[i].players) : d = e
  <2>1. games[i].players \in Seq(PlayerId)
    <3>1. games[i] \in Game
      BY DEF RoomInv
    <3> QED BY <3>1 DEF Game
  <2>2. \A k \in DOMAIN games[i].players : k = 1
    BY <2>1
  <2> QED BY <2>2 DEF Range
<1>4. tables' = [tables EXCEPT ![i].players = @ \union {c}]
  BY DEF OthersStay, TableOf
<1> QED BY <1>2, <1>3, <1>4 DEF M!Play, TableOf

\* insert_viewer lets a client that stands watch.
LEMMA WatchesTable ==
  ASSUME NEW c \in PlayerId, ~IsInRoom(c), NEW i \in DOMAIN games,
         general' = general, DOMAIN games' = DOMAIN games, OthersStay(i),
         games'[i].players = games[i].players,
         Range(games'[i].viewers) = Range(games[i].viewers) \union {c}
  PROVE  M!Watch(c, i)
<1> DEFINE tables == [j \in DOMAIN games |-> TableOf(games[j])]
<1>1. M!Standing(c)
  BY DEF IsInRoom, InGame, M!Standing, M!AtTable, TableOf
<1>2. tables' = [tables EXCEPT ![i].viewers = @ \union {c}]
  BY DEF OthersStay, TableOf
<1> QED BY <1>1, <1>2 DEF M!Watch, TableOf

\* A client that rises from every game rises from every table.
LEMMA RisesTables ==
  ASSUME NEW c, RisesFrom(c)
  PROVE  [i \in DOMAIN games |-> TableOf(games[i])]' = M!Cleared(c)
BY DEF RisesFrom, M!Cleared, TableOf

\* No game has more players than insert_player lets in.
SeatsFit == \A i \in DOMAIN games : Len(games[i].players) <= MaxPlayers

\* A step of the rooms is a step of Membership, or one that it does not see, and
\* no step overfills a game.
StepFits == [M!MNext]_(M!mvars) /\ SeatsFit'

\* Where the players and viewers of the games stay, or become fewer, games fit.
LEMMA FewerFit ==
  ASSUME RoomInv, SeatsFit, DOMAIN games' = DOMAIN games,
         \A i \in DOMAIN games : Len(games'[i].players) <= Len(games[i].players)
  PROVE  SeatsFit'
<1>1. \A i \in DOMAIN games : games[i] \in Game
  BY DEF RoomInv
<1>2. \A i \in DOMAIN games : Len(games[i].players) \in Nat
  BY <1>1 DEF Game
<1> QED BY <1>2 DEF SeatsFit, MaxPlayers

\* Whatever effect a handler has, Membership allows it.
LEMMA EffectFits == ASSUME Inv, SeatsFit, NEW p \in Live, Effect(p) PROVE StepFits
<1> DEFINE c == playerId[p]
<1>1. RoomInv /\ c \in PlayerId
  BY LiveFacts
<1>2. CASE Quiet(p) \/ Speaks(p)
  <2>1. general' = general /\ games' = games
    BY <1>2 DEF Quiet, Answer, Speaks, PostToGeneral, rooms
  <2> QED BY <2>1, Stutters DEF StepFits, SeatsFit
<1>3. CASE Enters(p)
  <2>1. Range(general') = Range(general) \union {c} /\ games' = games /\ ~InGeneral(c)
    BY <1>1, <1>3, AppendNew DEF Enters, InsertOnGeneral, RoomInv
  <2>2. M!Enter(c)
    BY <2>1 DEF M!Enter, InGeneral
  <2> QED BY <2>1, <2>2, <1>1 DEF M!MNext, StepFits, SeatsFit
<1>4. CASE Leave(p)
  <2>1. RisesFrom(c) /\ general' = general
    BY <1>4, LeaveMoves
  <2>2. M!Rise(c)
    BY <2>1, RisesTables DEF M!Rise
  <2>3. SeatsFit'
    BY <2>1, <1>1, FewerFit DEF RisesFrom
  <2> QED BY <2>2, <2>3, <1>1 DEF M!MNext, StepFits
<1>5. CASE Founds(p)
  <2> DEFINE n == Len(games) + 1
  <2>1. /\ general' = general
        /\ DOMAIN games = 1..Len(games) /\ Len(games) \in Nat /\ DOMAIN games' = 1..n
        /\ \A j \in DOMAIN games : games'[j] = games[j]
        /\ games'[n].players = <<c>> /\ games'[n].viewers = <<>>
        /\ ~IsInRoom(c)
    BY <1>1, <1>5, CreateRoomMoves DEF Founds
  <2>2. M!Found(c)
    BY <2>1, <1>1, FoundsTable
  <2>3. SeatsFit'
    <3>1. Len(games'[n].players) <= 2
      BY <2>1
    <3>3. \A i \in DOMAIN games : Len(games'[i].players) <= 2
      BY <2>1 DEF SeatsFit, MaxPlayers
    <3>2. \A i \in DOMAIN games' : i \in DOMAIN games \/ i = n
      BY <2>1
    <3> HIDE DEF n
    <3> QED BY <3>1, <3>2, <3>3 DEF SeatsFit, MaxPlayers
  <2> QED BY <2>2, <2>3, <1>1 DEF M!MNext, StepFits
<1>6. ASSUME NEW i \in DOMAIN games, SpeaksIn(p, i) \/ Plays(p, i) \/ Watches(p, i)
      PROVE  StepFits
  <2>1. /\ games[i] \in Game /\ Len(games[i].players) \in Nat 
        /\ \A j \in DOMAIN games : Len(games[j].players) \in Nat
    <3>1. \A j \in DOMAIN games : games[j] \in Game
      BY <1>1 DEF RoomInv
    <3> QED BY <3>1 DEF Game
  <2>2. CASE SpeaksIn(p, i)
    <3>1. /\ general' = general /\ DOMAIN games' = DOMAIN games
          /\ \A j \in DOMAIN games : /\ games'[j].players = games[j].players
                                     /\ games'[j].viewers = games[j].viewers
      BY <2>2, <1>1, PostToGameMoves DEF SpeaksIn, OthersStay
    <3> QED BY <3>1, Stutters DEF StepFits, SeatsFit
  <2>3. CASE Plays(p, i)
    <3>1. /\ general' = general /\ DOMAIN games' = DOMAIN games /\ OthersStay(i)
          /\ games'[i].players = Append(games[i].players, c)
          /\ Range(games'[i].players) = Range(games[i].players) \union {c}
          /\ Range(games'[i].viewers) = Range(games[i].viewers)
          /\ ~IsInRoom(c) /\ Len(games[i].players) # 2
      BY <2>3, <1>1, InsertPlayerMoves DEF Plays
    <3>2. Len(games[i].players) < 2
      <4>1. Len(games[i].players) <= 2
        BY DEF SeatsFit, MaxPlayers
      <4>2. Len(games[i].players) # 2
        BY <3>1
      <4>3. \A k \in Nat : k <= 2 /\ k # 2 => k < 2
        OBVIOUS
      <4> QED BY <4>1, <4>2, <4>3, <2>1
    <3>3. M!Play(c, i)
      BY <3>1, <3>2, <1>1, PlaysTable
    <3>4. Len(games'[i].players) <= 2
      BY <3>1, <3>2, <2>1 DEF Game
    <3>5. SeatsFit'
      BY <3>1, <3>4 DEF SeatsFit, MaxPlayers, OthersStay
    <3> QED BY <3>3, <3>5, <1>1 DEF M!MNext, StepFits
  <2>4. CASE Watches(p, i)
    <3>1. /\ general' = general /\ DOMAIN games' = DOMAIN games /\ OthersStay(i)
          /\ games'[i].players = games[i].players
          /\ Range(games'[i].viewers) = Range(games[i].viewers) \union {c}
          /\ ~IsInRoom(c)
      BY <2>4, <1>1, InsertViewerMoves DEF Watches
    <3>2. M!Watch(c, i)
      BY <3>1, <1>1, WatchesTable
    <3>3. SeatsFit'
      BY <3>1 DEF SeatsFit, OthersStay
    <3> QED BY <3>2, <3>3, <1>1 DEF M!MNext, StepFits
  <2> QED BY <1>6, <2>2, <2>3, <2>4
<1> QED BY <1>2, <1>3, <1>4, <1>5, <1>6 DEF Effect

\* So does every step of the processers.
LEMMA NextFits == ASSUME Inv, SeatsFit, [Next]_vars PROVE StepFits
<1>1. CASE UNCHANGED vars
  BY <1>1, Stutters DEF vars, StepFits, SeatsFit
<1>2. CASE \E p \in Processer, c \in PlayerId : Construct(p, c)
  BY <1>2, Stutters DEF Construct, rooms, StepFits, SeatsFit
<1>3. ASSUME NEW p \in Live, RemoveFromRoom(p) PROVE StepFits
  <2> DEFINE c == playerId[p]
  <2>1. RisesFrom(c) /\ Range(general') = Range(general) \ {c}
    BY <1>3, RemoveFromRoomMoves
  <2>2. c \in PlayerId /\ RoomInv
    BY LiveFacts
  <2>3. M!Vanish(c)
    BY <2>1, RisesTables DEF M!Vanish
  <2>4. SeatsFit'
    BY <2>1, <2>2, FewerFit DEF RisesFrom
  <2> QED BY <2>2, <2>3, <2>4 DEF M!MNext, StepFits
<1> QED BY <1>1, <1>2, <1>3, EffectFits, NextHasEffect

\* No game ever seats three players (GameRoom::insert_player refuses at two).
THEOREM SeatsFitHolds == Spec => []SeatsFit
<1>1. Init => SeatsFit
  BY DEF Init, RoomInit, SeatsFit
<1>2. Inv /\ SeatsFit /\ [Next]_vars => SeatsFit'
  BY NextFits DEF StepFits
<1> QED BY <1>1, <1>2, InvHolds, PTL DEF Spec

\* The vectors of the rooms, searched and erased one element at a time, implement
\* the sets of Membership: each client enters, sits, rises and vanishes by
\* itself, on one seat at most, and a game has two players at most.
THEOREM RoomsImplementMembership == Spec => ImplementsMembership
<1>1. Init => M!MInit
  <2> SUFFICES ASSUME Init PROVE M!MInit
    OBVIOUS
  <2>1. Range(general) = {} /\ [i \in DOMAIN games |-> TableOf(games[i])] = <<>>
    BY DEF Init, RoomInit, Range
  <2> QED BY <2>1 DEF M!MInit
<1>2. Inv /\ SeatsFit /\ [Next]_vars => [M!MNext]_(M!mvars)
  BY NextFits DEF StepFits
<1> QED BY <1>1, <1>2, InvHolds, SeatsFitHolds, PTL DEF Spec, ImplementsMembership, M!MSpec

-----------------------------------------------------------------------------
(* Answers are true.                                                       *)

\* The length of the general room's vector is the number of clients in it.
LEMMA GeneralCounted ==
  ASSUME Inv PROVE Cardinality({d \in PlayerId : InGeneral(d)}) = Len(general)
<1> DEFINE S == {d \in PlayerId : InGeneral(d)}
           n == Len(general)
<1>1. /\ n \in Nat /\ general \in [1..n -> PlayerId]
      /\ \A a, b \in 1..n : general[a] = general[b] => a = b
  BY DEF Inv, TypeOK, OneLobbyPlace, IsInjective
<1>2. /\ general \in [1..n -> S]
      /\ \A d \in S : \E a \in 1..n : general[a] = d
  BY <1>1 DEF InGeneral, Range
<1> HIDE DEF S, n
<1>3. general \in Bijection(1..n, S)
  BY <1>1, <1>2, Fun_IsBij
<1>4. ExistsBijection(1..n, S)
  BY <1>3 DEF ExistsBijection
<1>5. Cardinality(S) = n
  BY <1>1, <1>4, FS_CountingElements
<1> QED BY <1>5 DEF S, n

\* What an answer to the processer of c claims, by its status.
Claims(c, op, status, body) ==
  /\ status = "LEAVE_SUCCESS" => ~IsInRoom(c)
  /\ status = "CLIENT_ALREADY_IN_ROOM" => \E p \in named : playerId[p] = c
  /\ status = "NUMBER_CLIENT_CONNECTED" =>
       body = <<Cardinality({d \in PlayerId : InGeneral(d)})>>
  /\ status = "GAME_CREATED" =>
       \A i \in DOMAIN games : InGame(games[i], c) <=> games[i].id = body[1]
  /\ status = "CLIENT_JOIN_GAME" =>
       \E i \in DOMAIN games :
         /\ body = JoinInfo(games[i])
         /\ c \in Range(IF op = "JOIN_AS_PLAYER" THEN games[i].players
                                                  ELSE games[i].viewers)

\* An answer is true if what it claims is so.
LEMMA TrueIfClaimsHold ==
  ASSUME NEW p, NEW op, NEW status, NEW body,
         reply' = [to |-> p, op |-> op, status |-> status, body |-> body],
         NEW c, playerId'[p] = c, Claims(c, op, status, body)'
  PROVE  ReplyIsTrue'
<1>1. /\ reply'.to = p /\ reply'.op = op /\ reply'.status = status /\ reply'.body = body
  OBVIOUS
<1> QED BY <1>1 DEF ReplyIsTrue, Claims

\* Whatever effect a handler has, its answer is true of the rooms after it.
LEMMA EffectIsTrue == ASSUME Inv, NEW p \in Live, Effect(p) PROVE ReplyIsTrue'
<1>1. PICK c : c = playerId[p]
  OBVIOUS
<1>2. RoomInv /\ c \in PlayerId /\ playerId'[p] = c
  BY <1>1, LiveFacts DEF Effect, Quiet, Answer, Enters, Speaks, Leave, Founds, SpeaksIn, Plays, Watches
<1>3. CASE Quiet(p)
  <2>1. PICK op, status, body :
          /\ Answer(p, op, status, body)
          /\ status \notin {"OK", "LEAVE_SUCCESS", "GAME_CREATED", "CLIENT_JOIN_GAME"}
          /\ status = "CLIENT_ALREADY_IN_ROOM" => InGeneral(playerId[p])
          /\ status = "NUMBER_CLIENT_CONNECTED" => body = <<Len(general)>>
    BY <1>3 DEF Quiet
  <2>2. general' = general /\ named' = named /\ playerId' = playerId
    BY <2>1 DEF Answer, rooms
  <2>3. InGeneral(c) => \E q \in named : playerId[q] = c
    BY NoGhostsIs DEF Inv
  <2>4. {d \in PlayerId : InGeneral(d)}' = {d \in PlayerId : InGeneral(d)}
    BY <2>2 DEF InGeneral
  <2>5. Claims(c, op, status, body)'
    BY <2>1, <2>2, <2>3, <2>4, <1>1, GeneralCounted DEF Claims
  <2> QED BY <2>1, <2>5, <1>2, TrueIfClaimsHold DEF Answer, Return
<1>4. CASE Enters(p)
  <2>1. PICK body : reply' = [to |-> p, op |-> "CLIENT_CONNECT",
                              status |-> "CLIENT_CONNECTED", body |-> body]
    BY <1>4 DEF Enters, Return
  <2>2. Claims(c, "CLIENT_CONNECT", "CLIENT_CONNECTED", body)'
    BY DEF Claims
  <2> QED BY <2>1, <2>2, <1>2, TrueIfClaimsHold
<1>5. CASE Speaks(p) \/ \E i \in DOMAIN games : SpeaksIn(p, i)
  <2>1. reply' = [to |-> p, op |-> "SEND_MESSAGE", status |-> "OK", body |-> <<>>]
    BY <1>5 DEF Speaks, SpeaksIn, Return
  <2>2. Claims(c, "SEND_MESSAGE", "OK", <<>>)'
    BY DEF Claims
  <2> QED BY <2>1, <2>2, <1>2, TrueIfClaimsHold
<1>6. CASE Leave(p)
  <2>1. RisesFrom(c)
    BY <1>6, <1>1, LeaveMoves
  <2>2. ~IsInRoom(c)'
    BY <2>1 DEF RisesFrom, IsInRoom, InGame
  <2>3. reply' = [to |-> p, op |-> "LEAVE", status |-> "LEAVE_SUCCESS", body |-> <<>>]
    BY <1>6 DEF Leave, Return
  <2>4. Claims(c, "LEAVE", "LEAVE_SUCCESS", <<>>)'
    BY <2>2 DEF Claims
  <2> QED BY <2>3, <2>4, <1>2, TrueIfClaimsHold
<1>7. CASE Founds(p)
  <2>0. PICK n : n = Len(games) + 1
    OBVIOUS
  <2>1. /\ DOMAIN games = 1..Len(games) /\ Len(games) \in Nat /\ DOMAIN games' = 1..n
        /\ \A j \in DOMAIN games : games'[j] = games[j]
        /\ games'[n].players = <<c>> /\ games'[n].id = n
        /\ ~IsInRoom(c)
    BY <2>0, <1>1, <1>2, <1>7, CreateRoomMoves DEF Founds
  <2>2. \A i \in DOMAIN games : games[i].id = i /\ ~InGame(games[i], c)
    BY <2>1, <1>2 DEF RoomInv, RoomIds, IsInRoom
  <2>3. InGame(games'[n], c)
    BY <2>1 DEF InGame, Range
  <2>4. \A i \in DOMAIN games' : i = n \/ (i \in DOMAIN games /\ i # n)
    BY <2>0, <2>1
  <2>5. reply' = [to |-> p, op |-> "CREATE_GAME", status |-> "GAME_CREATED", body |-> <<n>>]
    BY <2>0, <1>7 DEF Founds, Return
  <2>6. \A i \in DOMAIN games' : InGame(games'[i], c) <=> games'[i].id = n
    BY <2>1, <2>2, <2>3, <2>4
  <2>7. Claims(c, "CREATE_GAME", "GAME_CREATED", <<n>>)'
    <3>1. <<n>>[1] = n
      OBVIOUS
    <3> QED BY <3>1, <2>6 DEF Claims
  <2> QED BY <2>5, <2>7, <1>2, TrueIfClaimsHold
<1>8. ASSUME NEW i \in DOMAIN games, Plays(p, i) PROVE ReplyIsTrue'
  <2>1. /\ i \in DOMAIN games' /\ c \in Range(games'[i].players)
    BY <1>1, <1>2, <1>8, InsertPlayerMoves DEF Plays
  <2>2. Claims(c, "JOIN_AS_PLAYER", "CLIENT_JOIN_GAME", JoinInfo(games[i]))'
    BY <2>1 DEF Claims
  <2> QED BY <2>2, <1>2, <1>8, TrueIfClaimsHold DEF Plays, Return
<1>9. ASSUME NEW i \in DOMAIN games, Watches(p, i) PROVE ReplyIsTrue'
  <2>1. /\ i \in DOMAIN games' /\ c \in Range(games'[i].viewers)
    BY <1>1, <1>2, <1>9, InsertViewerMoves DEF Watches
  <2>2. Claims(c, "JOIN_AS_VIEWER", "CLIENT_JOIN_GAME", JoinInfo(games[i]))'
    BY <2>1 DEF Claims
  <2> QED BY <2>2, <1>2, <1>9, TrueIfClaimsHold DEF Watches, Return
<1> QED BY <1>3, <1>4, <1>5, <1>6, <1>7, <1>8, <1>9 DEF Effect

\* An answer is true of the rooms when it is given (request_processer.cpp): who
\* is told to have left sits nowhere, who is told to have created or joined a game
\* sits there and its information is the game's, who is told to be there already
\* has introduced itself, and the clients counted are those in the general room.
THEOREM RepliesAreTrue == Spec => []ReplyIsTrue
<1>1. Init => ReplyIsTrue
  BY DEF Init, NoReply, ReplyIsTrue
<1>2. ASSUME Inv, ReplyIsTrue, [Next]_vars PROVE ReplyIsTrue'
  <2>1. CASE UNCHANGED vars
    BY <1>2, <2>1 DEF vars, ReplyIsTrue, InGeneral, IsInRoom
  <2>2. CASE reply' = NoReply
    BY <2>2 DEF NoReply, ReplyIsTrue
  <2>3. CASE \E p \in Live : Effect(p)
    BY <1>2, <2>3, EffectIsTrue
  <2> QED BY <1>2, <2>1, <2>2, <2>3, NextHasEffect DEF Construct, RemoveFromRoom
<1> QED BY <1>1, <1>2, InvHolds, PTL DEF Spec
=============================================================================
