---------------------------- MODULE FreezeProofs ----------------------------
(***************************************************************************)
(* Proofs about the frozen ratings of module Freeze, for any players,      *)
(* ratings and number of games.                                            *)
(***************************************************************************)
EXTENDS Freeze, TLAPS, WellFoundedInduction

-----------------------------------------------------------------------------
(* Highest.                                                                *)

(* A bound that is reached is the highest. *)
LEMMA HighestIs ==
    ASSUME NEW S, S \subseteq Nat, NEW m \in S, \A y \in S : y <= m
    PROVE  Highest(S) = m
<1> DEFINE h == Highest(S)
<1>1. h \in S /\ \A y \in S : y <= h
  BY DEF Highest
<1> HIDE DEF h
<1>2. h <= m /\ m <= h /\ h \in Nat /\ m \in Nat
  BY <1>1
<1>3. h = m
  BY <1>2
<1> QED
  BY <1>3 DEF h

(* The order of the naturals, as a set of pairs. *)
LEMMA LessThan ==
    \E R : /\ IsWellFoundedOn(R, Nat)
           /\ R = {ss \in Nat \X Nat : ss[1] < ss[2]}
<1>1. OpToRel(<, Nat) = {ss \in Nat \X Nat : ss[1] < ss[2]}
  BY Zenon DEF OpToRel
<1> QED
  BY <1>1, NatLessThanWellFounded, Zenon

(* A set of naturals has a least member. *)
LEMMA LeastOf ==
    ASSUME NEW T, T \subseteq Nat, T # {}
    PROVE  \E x \in T : \A y \in T : x <= y
<1>1. PICK R : IsWellFoundedOn(R, Nat) /\ R = {ss \in Nat \X Nat : ss[1] < ss[2]}
  BY LessThan, Zenon
<1>2. PICK x \in T : \A y \in T : ~(<<y, x>> \in R)
  BY <1>1, WFMin, Zenon
<1>3. ASSUME NEW y \in T
      PROVE  x <= y
  <2>1. ~(<<y, x>> \in {ss \in Nat \X Nat : ss[1] < ss[2]})
    BY <1>1, <1>2, Zenon
  <2> QED
    BY <2>1
<1> QED
  BY <1>3

(* A bounded set of naturals has a highest member. *)
LEMMA HighestOf ==
    ASSUME NEW S, S \subseteq Nat, S # {}, NEW b \in Nat, \A y \in S : y <= b
    PROVE  Highest(S) \in S /\ \A y \in S : y <= Highest(S)
<1> DEFINE T == {b - y : y \in S}
<1>1. T \subseteq Nat /\ T # {}
  <2>1. ASSUME NEW y \in S  PROVE  b - y \in Nat
    OBVIOUS
  <2>2. PICK y \in S : TRUE
    OBVIOUS
  <2>3. b - y \in T
    OBVIOUS
  <2> QED
    BY <2>1, <2>3
<1>2. PICK x \in T : \A y \in T : x <= y
  <2> HIDE DEF T
  <2> QED
    BY <1>1, LeastOf, Zenon
<1>3. PICK m \in S : x = b - m
  BY <1>2
<1>4. ASSUME NEW y \in S
      PROVE  y <= m
  <2>1. x <= b - y
    BY <1>2
  <2> QED
    BY <2>1, <1>3
<1> QED
  BY <1>3, <1>4 DEF Highest

-----------------------------------------------------------------------------
(* Types.                                                                  *)
LEMMA RatingType == \A r \in Ratings : r \in Nat /\ r > 0
  BY ConstantsAssumption

LEMMA RowType ==
    /\ NoRow \notin Row
    /\ \A row \in Row \union {NoRow} : row.cur \in Nat /\ row.peak \in Nat
    /\ \A row \in Row : row.cur \in Ratings /\ row.peak \in Ratings
<1>1. \A row \in Row : row.cur \in Ratings /\ row.peak \in Ratings
  BY DEF Row
<1>2. NoRow.cur = 0 /\ NoRow.peak = 0
  BY DEF NoRow
<1>3. NoRow \notin Row
  BY <1>1, <1>2, RatingType
<1>4. \A row \in Row \union {NoRow} : row.cur \in Nat /\ row.peak \in Nat
  BY <1>1, <1>2, RatingType
<1> QED
  BY <1>1, <1>3, <1>4

LEMMA IdleType ==
    Idle \in [pc : {"idle", "fetched", "open"}, early : BOOLEAN, asked : SUBSET Players,
              seen : [Players -> Row \union {NoRow}]]
  BY DEF Idle

LEMMA ParsedType ==
    ASSUME TypeOK, NEW p \in Players
    PROVE  Parsed(p) \in Row \union {NoRow}
<1>1. CASE account[p] = NoRow
  BY <1>1 DEF Parsed, NoRow, Higher
<1>2. CASE account[p] \in [cur : Ratings, peak : Ratings \union {0}]
  <2>1. account[p].cur \in Ratings /\ account[p].peak \in Ratings \union {0}
    BY <1>2
  <2>2. account[p].peak = 0 => ~(account[p].peak >= account[p].cur)
    BY <2>1, RatingType
  <2>3. Higher(account[p].peak, account[p].cur) \in Ratings
    BY <2>1, <2>2 DEF Higher
  <2> QED
    BY <2>1, <2>3 DEF Parsed, Row
<1> QED
  BY <1>1, <1>2 DEF TypeOK

LEMMA MemberType ==
    ASSUME NEW S, NEW s \in Seq(S), NEW i \in DOMAIN s
    PROVE  s[i] \in S
  OBVIOUS

LEMMA NumberType ==
    ASSUME TypeOK, NEW p \in Players
    PROVE  /\ account[p].cur \in Nat /\ account[p].peak \in Nat
           /\ asOf[p].cur \in Nat /\ asOf[p].peak \in Nat
           /\ Account0[p].cur \in Nat /\ Account0[p].peak \in Nat
<1>1. account[p].cur \in Nat /\ account[p].peak \in Nat
  <2>1. CASE account[p] = NoRow
    BY <2>1 DEF NoRow
  <2>2. CASE account[p] \in [cur : Ratings, peak : Ratings \union {0}]
    BY <2>2, RatingType
  <2> QED
    BY <2>1, <2>2 DEF TypeOK
<1>2. asOf[p] \in Row \union {NoRow}
  BY DEF TypeOK
<1>3. Account0[p] \in Row \union {NoRow}
  BY ConstantsAssumption
<1> QED
  BY <1>1, <1>2, <1>3, RowType

LEMMA InitType == Init => TypeOK
<1> SUFFICES ASSUME Init
             PROVE  TypeOK
  OBVIOUS
<1>1. account \in [Players -> [cur : Ratings, peak : Ratings \union {0}] \union {NoRow}]
  BY ConstantsAssumption DEF Init, Row
<1>2. asOf \in [Players -> Row \union {NoRow}]
  BY ConstantsAssumption DEF Init
<1>3. /\ games \in [Players -> Seq(Game)]
      /\ recorded \in [Players -> SUBSET Nat]
      /\ \A p \in Players : recorded[p] \subseteq DOMAIN games[p]
  BY DEF Init
<1>4. live \in [Players -> Row \union {NoRow}]
  BY DEF Init
<1>5. log \in [Players -> Seq([early : BOOLEAN, row : Row])]
  BY DEF Init
<1>6. playing \in [Players -> {"no", "early", "late"}]
  BY DEF Init
<1> QED
  BY <1>1, <1>2, <1>3, <1>4, <1>5, <1>6, IdleType DEF Init, TypeOK

LEMMA FinishGameType ==
    ASSUME TypeOK, NEW p \in Players, NEW rating \in Ratings, FinishGame(p, rating)
    PROVE  TypeOK'
<1> DEFINE game == [early |-> playing[p] = "early", rating |-> rating]
<1>1. games[p] \in Seq(Game) /\ game \in Game
  BY DEF TypeOK, Game
<1>2. /\ games' \in [Players -> Seq(Game)]
      /\ games'[p] = Append(games[p], game)
      /\ \A q \in Players \ {p} : games'[q] = games[q]
  BY <1>1 DEF TypeOK, FinishGame
<1>3. \A q \in Players : recorded'[q] \subseteq DOMAIN games'[q]
  BY <1>1, <1>2 DEF TypeOK, FinishGame
<1>4. account' \in [Players -> [cur : Ratings, peak : Ratings \union {0}] \union {NoRow}]
  <2>1. Higher(account[p].peak, rating) \in Ratings \union {0}
    BY DEF TypeOK, NoRow, Higher
  <2> QED
    BY <2>1 DEF TypeOK, FinishGame
<1>5. asOf' \in [Players -> Row \union {NoRow}]
  <2>1. Higher(asOf[p].peak, rating) \in Ratings
    <3>1. asOf[p].peak \in Ratings \union {0}
      BY RowType DEF TypeOK, NoRow
    <3> QED
      BY <3>1, RatingType DEF Higher
  <2> QED
    BY <2>1 DEF TypeOK, FinishGame, Row
<1> QED
  BY <1>2, <1>3, <1>4, <1>5 DEF TypeOK, FinishGame, poller

LEMMA UpstreamType ==
    ASSUME TypeOK, NEW p \in Players
    PROVE  /\ StartGame(p) => TypeOK'
           /\ Track(p) => TypeOK'
           /\ Record(p) => TypeOK'
           /\ \A peak \in Ratings \union {0} : Rebase(p, peak) => TypeOK'
<1>2. StartGame(p) => TypeOK'
  BY DEF StartGame, TypeOK, poller
<1>3. Track(p) => TypeOK'
  BY DEF Track, TypeOK, upstream, poller
<1>4. Record(p) => TypeOK'
  <2> SUFFICES ASSUME Record(p)
               PROVE  TypeOK'
    OBVIOUS
  <2>1. PICK new \in SUBSET (DOMAIN games[p] \ recorded[p]) :
           recorded' = [recorded EXCEPT ![p] = @ \union new]
    BY DEF Record
  <2>2. DOMAIN games[p] \subseteq Nat
    BY DEF TypeOK
  <2> QED
    BY <2>1, <2>2 DEF Record, TypeOK, upstream, poller
<1>5. ASSUME NEW peak \in Ratings \union {0}, Rebase(p, peak)
      PROVE  TypeOK'
  <2>1. account[p] # NoRow
    BY <1>5, ConstantsAssumption DEF Rebase, NoRow
  <2> QED
    BY <1>5, <2>1 DEF Rebase, TypeOK, poller
<1> QED
  BY <1>2, <1>3, <1>4, <1>5

LEMMA CloseType == TypeOK /\ Close => TypeOK'
  BY DEF Close, TypeOK, upstream, poller

LEMMA StatsType ==
    ASSUME TypeOK, StatsFetch \/ StatsBegin \/ StatsCommit \/ StatsFail
    PROVE  TypeOK'
<1>1. CASE StatsFetch
  BY <1>1, ParsedType DEF StatsFetch, TypeOK, upstream
<1>2. CASE StatsBegin
  BY <1>2 DEF StatsBegin, TypeOK, upstream
<1>3. CASE StatsCommit
  <2>1. log' \in [Players -> Seq([early : BOOLEAN, row : Row])]
    <3>1. ASSUME NEW p \in Players, Changed(p)
          PROVE  Append(log[p], [early |-> tick.early, row |-> tick.seen[p]])
                   \in Seq([early : BOOLEAN, row : Row])
      <4>1. tick.early \in BOOLEAN /\ tick.seen[p] \in Row
        BY <3>1 DEF TypeOK, Changed
      <4>2. [early |-> tick.early, row |-> tick.seen[p]] \in [early : BOOLEAN, row : Row]
        BY <4>1
      <4>3. log[p] \in Seq([early : BOOLEAN, row : Row])
        BY DEF TypeOK
      <4> QED
        BY <4>2, <4>3
    <3> QED
      BY <1>3, <3>1 DEF StatsCommit, TypeOK
  <2>2. live' \in [Players -> Row \union {NoRow}]
    BY <1>3 DEF StatsCommit, TypeOK
  <2> QED
    BY <1>3, <2>1, <2>2, IdleType DEF StatsCommit, TypeOK, upstream
<1>4. CASE StatsFail
  BY <1>4, IdleType DEF StatsFail, TypeOK, upstream
<1> QED
  BY <1>1, <1>2, <1>3, <1>4

LEMMA StutterType == TypeOK /\ UNCHANGED vars => TypeOK'
  BY DEF TypeOK, vars, upstream, poller

-----------------------------------------------------------------------------
(* The inductive invariant.                                                *)
PlayerInv(p) ==
    /\ WindowAccount(p)
    /\ ~closed => StillOpen(p)
    /\ p \notin rebased => Account0[p].peak <= account[p].peak
    /\ \A i \in EarlySnapshots(p) : SeenByEnd(p, log[p][i].row)
    /\ tick.early => \A i \in DOMAIN log[p] : log[p][i].early
    /\ tick.early \/ (tick.pc = "fetched" /\ ~closed) =>
          tick.seen[p] = NoRow \/ SeenByEnd(p, tick.seen[p])

LEMMA InitInv == Init => IInv
<1> SUFFICES ASSUME Init
             PROVE  IInv
  OBVIOUS
<1>1. TypeOK
  BY InitType
<1>2. LogFollowsLive
  BY DEF Init, LogFollowsLive, Latest
<1>3. tick = Idle /\ tick.pc = "idle" /\ ~tick.early
  BY DEF Init, Idle
<1>4. ASSUME NEW p \in Players
      PROVE  PlayerInv(p)
  <2>1. games[p] = <<>> /\ log[p] = <<>> /\ EarlyGames(p) = {} /\ EarlySnapshots(p) = {}
    BY DEF Init, EarlyGames, EarlySnapshots
  <2>2. account[p] = Account0[p] /\ asOf[p] = Account0[p] /\ playing[p] = "no"
    BY DEF Init
  <2>3. Account0[p].cur \in Nat /\ Account0[p].peak \in Nat /\ Account0[p].cur <= Account0[p].peak
    BY RowType, ConstantsAssumption
  <2>4. WindowAccount(p)
    BY <2>1, <2>2, <2>3 DEF WindowAccount
  <2>5. StillOpen(p)
    BY <1>3, <2>1, <2>2, <2>3 DEF StillOpen
  <2> QED
    BY <1>3, <2>1, <2>2, <2>3, <2>4, <2>5 DEF PlayerInv
<1> QED
  BY <1>1, <1>2, <1>3, <1>4 DEF IInv, PlayerInv

(* A player whose games and reach do not change keeps what is said of them. *)
LEMMA WindowFrame ==
    ASSUME NEW p \in Players, WindowAccount(p),
           games'[p] = games[p], asOf'[p] = asOf[p],
           playing'[p] = "early" => \A i \in DOMAIN games[p] : games[p][i].early
    PROVE  EarlyGames(p)' = EarlyGames(p) /\ WindowAccount(p)'
<1>1. EarlyGames(p)' = EarlyGames(p)
  BY DEF EarlyGames
<1> QED
  BY <1>1 DEF WindowAccount

LEMMA SeenFrame ==
    ASSUME NEW p \in Players, NEW row,
           SeenByEnd(p, row), games'[p] = games[p], asOf'[p] = asOf[p], rebased \subseteq rebased'
    PROVE  SeenByEnd(p, row)'
  BY DEF SeenByEnd, EarlyGames

LEMMA SnapshotFrame ==
    ASSUME TypeOK, NEW p \in Players, log'[p] = log[p],
           \A row \in Row : SeenByEnd(p, row) => SeenByEnd(p, row)',
           \A i \in EarlySnapshots(p) : SeenByEnd(p, log[p][i].row)
    PROVE  \A i \in EarlySnapshots(p)' : SeenByEnd(p, log[p][i].row)'
<1>1. EarlySnapshots(p)' = EarlySnapshots(p)
  BY DEF EarlySnapshots
<1>2. \A i \in EarlySnapshots(p) : log[p][i].row \in Row
  <2>1. log[p] \in Seq([early : BOOLEAN, row : Row])
    BY DEF TypeOK
  <2>2. \A i \in DOMAIN log[p] : log[p][i] \in [early : BOOLEAN, row : Row]
    BY <2>1, MemberType
  <2> QED
    BY <2>2 DEF EarlySnapshots
<1> QED
  BY <1>1, <1>2

(* The end, the roster, the match log: nothing that the invariant is about *)
(* moves, and the end does not come back.                                  *)
LEMMA QuietInv ==
    ASSUME IInv, TypeOK', closed => closed',
           UNCHANGED <<account, asOf, rebased, playing, games, tick, live, log>>
    PROVE  IInv'
<1>1. LogFollowsLive'
  BY DEF IInv, LogFollowsLive, Latest
<1>2. ASSUME NEW p \in Players
      PROVE  PlayerInv(p)'
  <2>1. PlayerInv(p)
    BY DEF IInv, PlayerInv
  <2>2. WindowAccount(p)'
    BY <2>1, WindowFrame DEF PlayerInv, WindowAccount
  <2>3. \A row : SeenByEnd(p, row) => SeenByEnd(p, row)'
    BY SeenFrame
  <2>4. \A i \in EarlySnapshots(p)' : SeenByEnd(p, log[p][i].row)'
    BY <2>1, <2>3, SnapshotFrame DEF PlayerInv, IInv
  <2>5. (~closed => StillOpen(p))'
    BY <2>1 DEF PlayerInv, StillOpen
  <2> QED
    BY <2>1, <2>2, <2>3, <2>4, <2>5 DEF PlayerInv
<1> QED
  BY <1>1, <1>2 DEF IInv, PlayerInv

LEMMA StartGameInv ==
    ASSUME IInv, NEW q \in Players, StartGame(q)
    PROVE  IInv'
<1>1. /\ UNCHANGED <<closed, account, asOf, rebased, games, tick, live, log>>
      /\ \A p \in Players : playing'[p] = IF p # q THEN playing[p]
                                           ELSE IF closed THEN "late" ELSE "early"
  BY DEF IInv, TypeOK, StartGame, poller
<1>2. LogFollowsLive' /\ TypeOK'
  BY <1>1, UpstreamType DEF IInv, LogFollowsLive, Latest
<1>3. ASSUME NEW p \in Players
      PROVE  PlayerInv(p)'
  <2>1. PlayerInv(p)
    BY DEF IInv, PlayerInv
  <2>2. playing'[p] = "early" => \A i \in DOMAIN games[p] : games[p][i].early
    BY <1>1, <2>1 DEF PlayerInv, StillOpen, WindowAccount
  <2>3. WindowAccount(p)'
    BY <1>1, <2>1, <2>2, WindowFrame DEF PlayerInv
  <2>4. \A row : SeenByEnd(p, row) => SeenByEnd(p, row)'
    BY <1>1, SeenFrame
  <2>5. \A i \in EarlySnapshots(p)' : SeenByEnd(p, log[p][i].row)'
    BY <1>1, <2>1, <2>4, SnapshotFrame DEF PlayerInv, IInv
  <2>6. (~closed => StillOpen(p))'
    BY <1>1, <2>1 DEF PlayerInv, StillOpen
  <2> QED
    BY <1>1, <2>1, <2>3, <2>4, <2>5, <2>6 DEF PlayerInv
<1> QED
  BY <1>1, <1>2, <1>3 DEF IInv, PlayerInv

LEMMA RebaseInv ==
    ASSUME IInv, NEW q \in Players, NEW peak \in Ratings \union {0}, Rebase(q, peak)
    PROVE  IInv'
<1>1. /\ UNCHANGED <<closed, asOf, playing, games, tick, live, log>>
      /\ rebased' = rebased \union {q}
      /\ \A p \in Players : /\ account'[p].cur = account[p].cur
                            /\ p # q => account'[p].peak = account[p].peak
      /\ account'[q].peak = peak /\ peak < account[q].peak
  <2>1. account[q] \in [cur : Ratings, peak : Ratings \union {0}]
    BY ConstantsAssumption DEF IInv, TypeOK, Rebase, NoRow
  <2> QED
    BY <2>1 DEF IInv, TypeOK, Rebase, poller
<1>2. LogFollowsLive' /\ TypeOK'
  BY <1>1, UpstreamType DEF IInv, LogFollowsLive, Latest
<1>3. ASSUME NEW p \in Players
      PROVE  PlayerInv(p)'
  <2>1. PlayerInv(p)
    BY DEF IInv, PlayerInv
  <2>2. WindowAccount(p)'
    BY <1>1, <2>1, WindowFrame DEF PlayerInv, WindowAccount
  <2>3. \A row : SeenByEnd(p, row) => SeenByEnd(p, row)'
    BY <1>1, SeenFrame
  <2>4. \A i \in EarlySnapshots(p)' : SeenByEnd(p, log[p][i].row)'
    BY <1>1, <2>1, <2>3, SnapshotFrame DEF PlayerInv, IInv
  <2>5. ASSUME ~closed'
        PROVE  StillOpen(p)'
    <3>1. StillOpen(p)
      BY <1>1, <2>1, <2>5 DEF PlayerInv
    <3>2. account'[p].peak <= asOf[p].peak
      <4>1. /\ account'[p].peak \in Nat /\ account[p].peak \in Nat /\ asOf[p].peak \in Nat
            /\ account'[p].peak <= account[p].peak
        <5>1. account[p].peak \in Nat /\ asOf[p].peak \in Nat
          BY RatingType, RowType DEF IInv, TypeOK, NoRow
        <5> QED
          BY <1>1, <5>1, RatingType
      <4> QED
        BY <3>1, <4>1 DEF StillOpen
    <3> QED
      BY <1>1, <3>1, <3>2 DEF StillOpen
  <2>6. p \notin rebased' => Account0[p].peak <= account'[p].peak
    BY <1>1, <2>1 DEF PlayerInv
  <2> QED
    BY <1>1, <2>1, <2>2, <2>3, <2>4, <2>5, <2>6 DEF PlayerInv
<1> QED
  BY <1>1, <1>2, <1>3 DEF IInv, PlayerInv

(* A game begun in the window is the last of it so far. *)
LEMMA EarlyGameEnds ==
    ASSUME IInv, NEW p \in Players, NEW rating \in Ratings, FinishGame(p, rating),
           playing[p] = "early"
    PROVE  /\ WindowAccount(p)'
           /\ \A row \in Row : SeenByEnd(p, row) => SeenByEnd(p, row)'
           /\ asOf'[p].cur = rating /\ asOf'[p].peak = Higher(asOf[p].peak, rating)
           /\ \A i \in DOMAIN games'[p] : games'[p][i].early
<1> DEFINE game == [early |-> TRUE, rating |-> rating]
           last == Len(games[p]) + 1
<1>1. games[p] \in Seq(Game) /\ WindowAccount(p)
  BY DEF IInv, TypeOK
<1>2. games'[p] = Append(games[p], game) /\ playing'[p] = "no" /\ rebased' = rebased
  BY DEF IInv, TypeOK, FinishGame
<1>3. asOf'[p].cur = rating /\ asOf'[p].peak = Higher(asOf[p].peak, rating)
  BY DEF IInv, TypeOK, FinishGame
<1>4. game.early /\ game.rating = rating
  OBVIOUS
<1> HIDE DEF game
<1>5. /\ Len(games[p]) \in Nat /\ DOMAIN games[p] = 1 .. Len(games[p])
      /\ DOMAIN games'[p] = 1 .. last /\ games'[p][last] = game
      /\ \A i \in DOMAIN games[p] : games'[p][i] = games[p][i]
  <2>1. game \in Game
    BY DEF game, Game
  <2> QED
    BY <1>1, <1>2, <2>1
<1>6. \A i \in DOMAIN games'[p] : games'[p][i].early
  BY <1>1, <1>4, <1>5 DEF WindowAccount
<1>7. EarlyGames(p)' = 1 .. last /\ EarlyGames(p) = 1 .. Len(games[p])
  BY <1>1, <1>5, <1>6 DEF EarlyGames, WindowAccount
<1>8. Highest(EarlyGames(p)') = last
  BY <1>5, <1>7, HighestIs
<1>9. asOf[p].peak \in Nat /\ rating \in Nat /\ Account0[p].peak \in Nat
  BY RowType, RatingType, ConstantsAssumption DEF IInv, TypeOK
<1>10. asOf[p].peak <= asOf'[p].peak /\ rating <= asOf'[p].peak /\ asOf'[p].peak \in Nat
  BY <1>3, <1>9 DEF Higher
<1>11. \A i \in EarlyGames(p)' : games'[p][i].rating <= asOf'[p].peak
  <2>1. ASSUME NEW i \in EarlyGames(p)
        PROVE  games'[p][i].rating <= asOf'[p].peak
    <3>1. games[p][i].rating \in Nat /\ games[p][i].rating <= asOf[p].peak
      <4>1. games[p][i] \in Game
        BY <1>1 DEF EarlyGames
      <4>2. games[p][i].rating \in Ratings
        BY <4>1 DEF Game
      <4> QED
        BY <1>1, <4>2, RatingType DEF WindowAccount
    <3> QED
      BY <1>5, <1>9, <1>10, <3>1 DEF EarlyGames
  <2>2. games'[p][last].rating <= asOf'[p].peak
    BY <1>4, <1>5, <1>10
  <2> QED
    BY <1>5, <1>7, <2>1, <2>2
<1>12. \/ asOf'[p].peak = Account0[p].peak
       \/ \E i \in EarlyGames(p)' : games'[p][i].rating = asOf'[p].peak
  <2>1. CASE asOf'[p].peak = rating
    BY <1>4, <1>5, <1>7, <2>1
  <2>2. CASE asOf'[p].peak = asOf[p].peak
    <3>1. \A i \in EarlyGames(p) : i \in EarlyGames(p)' /\ games'[p][i] = games[p][i]
      BY <1>5, <1>7
    <3> QED
      BY <1>1, <2>2, <3>1 DEF WindowAccount
  <2> QED
    BY <1>3, <2>1, <2>2 DEF Higher
<1>13. asOf'[p].cur = games'[p][Highest(EarlyGames(p)')].rating /\ EarlyGames(p)' # {}
  BY <1>3, <1>4, <1>5, <1>7, <1>8
<1>14. WindowAccount(p)'
  <2>1. asOf'[p].cur <= asOf'[p].peak
    BY <1>3, <1>10
  <2>2. Account0[p].peak <= asOf'[p].peak
    BY <1>1, <1>9, <1>10 DEF WindowAccount
  <2> QED
    BY <1>2, <1>11, <1>12, <1>13, <2>1, <2>2 DEF WindowAccount
<1>15. ASSUME NEW row \in Row, SeenByEnd(p, row)
       PROVE  SeenByEnd(p, row)'
  <2>1. row.peak <= asOf'[p].peak
    BY <1>9, <1>10, <1>15, RowType DEF SeenByEnd
  <2> QED
    BY <1>2, <1>13, <1>15, <2>1 DEF SeenByEnd
<1> QED
  BY <1>3, <1>6, <1>14, <1>15

(* A game begun after the end adds nothing to it. *)
LEMMA LateGameEnds ==
    ASSUME IInv, NEW p \in Players, NEW rating \in Ratings, FinishGame(p, rating),
           playing[p] = "late"
    PROVE  /\ WindowAccount(p)'
           /\ \A row \in Row : SeenByEnd(p, row) => SeenByEnd(p, row)'
<1> DEFINE game == [early |-> FALSE, rating |-> rating]
<1>1. games[p] \in Seq(Game) /\ WindowAccount(p)
  BY DEF IInv, TypeOK
<1>2. /\ games'[p] = Append(games[p], game) /\ playing'[p] = "no"
      /\ rebased' = rebased /\ asOf'[p] = asOf[p]
  BY DEF IInv, TypeOK, FinishGame
<1>3. ~game.early
  OBVIOUS
<1> HIDE DEF game
<1>4. /\ DOMAIN games'[p] = DOMAIN games[p] \union {Len(games[p]) + 1}
      /\ games'[p][Len(games[p]) + 1] = game
      /\ \A i \in DOMAIN games[p] : games'[p][i] = games[p][i]
  <2>1. game \in Game
    BY DEF game, Game
  <2> QED
    BY <1>1, <1>2, <2>1
<1>5. EarlyGames(p)' = EarlyGames(p) /\ \A i \in EarlyGames(p) : games'[p][i] = games[p][i]
  BY <1>3, <1>4 DEF EarlyGames
<1>6. WindowAccount(p)'
  <2>1. CASE EarlyGames(p) = {}
    BY <1>1, <1>2, <1>5, <2>1 DEF WindowAccount
  <2>2. CASE EarlyGames(p) # {}
    <3>1. Highest(EarlyGames(p)) \in EarlyGames(p)
      <4>1. EarlyGames(p) \subseteq Nat /\ Len(games[p]) \in Nat
            /\ \A i \in EarlyGames(p) : i <= Len(games[p])
        BY <1>1 DEF EarlyGames
      <4> QED
        BY <2>2, <4>1, HighestOf
    <3> QED
      BY <1>1, <1>2, <1>5, <2>2, <3>1 DEF WindowAccount
  <2> QED
    BY <2>1, <2>2
<1>7. ASSUME NEW row \in Row, SeenByEnd(p, row)
      PROVE  SeenByEnd(p, row)'
  BY <1>2, <1>5, <1>7 DEF SeenByEnd
<1> QED
  BY <1>6, <1>7

LEMMA FinishGameInv ==
    ASSUME IInv, NEW q \in Players, NEW rating \in Ratings, FinishGame(q, rating)
    PROVE  IInv'
<1>1. /\ UNCHANGED <<closed, rebased, tick, live, log>>
      /\ playing[q] \in {"early", "late"}
      /\ playing'[q] = "no"
      /\ account'[q].cur = rating
      /\ account'[q].peak = Higher(account[q].peak, rating)
  BY DEF IInv, TypeOK, FinishGame, poller
<1>2. \A p \in Players \ {q} :
          /\ games'[p] = games[p] /\ asOf'[p] = asOf[p]
          /\ playing'[p] = playing[p] /\ account'[p] = account[p]
  BY DEF IInv, TypeOK, FinishGame
<1>3. LogFollowsLive' /\ TypeOK'
  BY <1>1, FinishGameType DEF IInv, LogFollowsLive, Latest
<1>4. ASSUME NEW p \in Players
      PROVE  PlayerInv(p)'
  <2>1. PlayerInv(p)
    BY DEF IInv, PlayerInv
  <2>2. WindowAccount(p)' /\ \A row \in Row : SeenByEnd(p, row) => SeenByEnd(p, row)'
    <3>1. CASE p # q
      <4>1. WindowAccount(p)'
        BY <1>2, <2>1, <3>1, WindowFrame DEF PlayerInv, WindowAccount
      <4> QED
        BY <1>1, <1>2, <3>1, <4>1, SeenFrame
    <3>2. CASE p = q
      BY <1>1, <3>2, EarlyGameEnds, LateGameEnds
    <3> QED
      BY <3>1, <3>2
  <2>3. \A i \in EarlySnapshots(p)' : SeenByEnd(p, log[p][i].row)'
    BY <1>1, <2>1, <2>2, SnapshotFrame DEF PlayerInv, IInv
  <2>4. account[p].peak \in Nat /\ Account0[p].peak \in Nat /\ asOf[p].peak \in Nat /\ rating \in Nat
    BY NumberType, RatingType DEF IInv
  <2>5. ASSUME ~closed'
        PROVE  StillOpen(p)'
    <3>1. StillOpen(p)
      BY <1>1, <2>1, <2>5 DEF PlayerInv
    <3>2. CASE p # q
      BY <1>1, <1>2, <3>1, <3>2 DEF StillOpen
    <3>3. CASE p = q
      <4>1. playing[q] = "early"
        BY <1>1, <3>1, <3>3 DEF StillOpen
      <4>2. /\ asOf'[q].cur = rating /\ asOf'[q].peak = Higher(asOf[q].peak, rating)
            /\ \A i \in DOMAIN games'[q] : games'[q][i].early
        BY <4>1, EarlyGameEnds
      <4>3. account'[q].peak <= asOf'[q].peak
        BY <1>1, <2>4, <3>1, <3>3, <4>2 DEF StillOpen, Higher
      <4> QED
        BY <1>1, <3>1, <3>3, <4>2, <4>3 DEF StillOpen
    <3> QED
      BY <3>2, <3>3
  <2>6. p \notin rebased' => Account0[p].peak <= account'[p].peak
    <3>1. CASE p # q
      BY <1>1, <1>2, <2>1, <3>1 DEF PlayerInv
    <3>2. CASE p = q
      BY <1>1, <2>1, <2>4, <3>2 DEF PlayerInv, Higher
    <3> QED
      BY <3>1, <3>2
  <2>7. tick.seen[p] \in Row \union {NoRow}
    BY DEF IInv, TypeOK
  <2> QED
    BY <1>1, <2>1, <2>2, <2>3, <2>5, <2>6, <2>7 DEF PlayerInv
<1> QED
  BY <1>1, <1>3, <1>4 DEF IInv, PlayerInv

LEMMA StatsFetchInv == IInv /\ StatsFetch => IInv'
<1> SUFFICES ASSUME IInv, StatsFetch
             PROVE  IInv'
  OBVIOUS
<1>1. /\ UNCHANGED <<closed, account, asOf, rebased, playing, games, live, log>>
      /\ tick'.pc = "fetched" /\ ~tick'.early /\ ~tick.early
      /\ \A p \in Players : tick'.seen[p] = NoRow \/ tick'.seen[p] = Parsed(p)
  BY DEF StatsFetch, upstream, IInv
<1>2. LogFollowsLive' /\ TypeOK'
  BY <1>1, StatsType DEF IInv, LogFollowsLive, Latest
<1>3. ASSUME NEW p \in Players
      PROVE  PlayerInv(p)'
  <2>1. PlayerInv(p)
    BY DEF IInv, PlayerInv
  <2>2. WindowAccount(p)'
    BY <1>1, <2>1, WindowFrame DEF PlayerInv, WindowAccount
  <2>3. \A row \in Row \union {NoRow} : SeenByEnd(p, row) => SeenByEnd(p, row)'
    BY <1>1, SeenFrame
  <2>4. \A i \in EarlySnapshots(p)' : SeenByEnd(p, log[p][i].row)'
    BY <1>1, <2>1, <2>3, SnapshotFrame DEF PlayerInv, IInv
  <2>5. (~closed => StillOpen(p))'
    BY <1>1, <2>1 DEF PlayerInv, StillOpen
  <2>6. ASSUME ~closed
        PROVE  SeenByEnd(p, Parsed(p))
    <3>1. /\ account[p].peak \in Nat /\ account[p].cur \in Nat
          /\ asOf[p].peak \in Nat /\ Account0[p].peak \in Nat
      BY NumberType DEF IInv
    <3>2. Parsed(p).cur = account[p].cur /\ Parsed(p).peak = Higher(account[p].peak, account[p].cur)
      BY DEF Parsed
    <3>3. account[p].cur = asOf[p].cur /\ account[p].peak <= asOf[p].peak /\ asOf[p].cur <= asOf[p].peak
      BY <2>1, <2>6 DEF PlayerInv, StillOpen, WindowAccount
    <3>4. Higher(account[p].peak, account[p].cur) <= asOf[p].peak
      BY <3>3 DEF Higher
    <3>5. p \notin rebased => Account0[p].peak <= Higher(account[p].peak, account[p].cur)
      BY <2>1, <3>1 DEF PlayerInv, Higher
    <3>6. EarlyGames(p) = {} => account[p].cur = Account0[p].cur
      BY <2>1, <3>3 DEF PlayerInv, WindowAccount
    <3> QED
      BY <3>2, <3>4, <3>5, <3>6 DEF SeenByEnd
  <2>7. Parsed(p) \in Row \union {NoRow}
    BY ParsedType DEF IInv
  <2> QED
    BY <1>1, <2>1, <2>2, <2>3, <2>4, <2>5, <2>6, <2>7 DEF PlayerInv
<1> QED
  BY <1>1, <1>2, <1>3 DEF IInv, PlayerInv

(* A tick that begins, or fails, moves only itself. *)
LEMMA StatsTickInv == IInv /\ (StatsBegin \/ StatsFail) => IInv'
<1> SUFFICES ASSUME IInv, StatsBegin \/ StatsFail
             PROVE  IInv'
  OBVIOUS
<1>1. UNCHANGED <<closed, account, asOf, rebased, playing, games, live, log>>
  BY DEF StatsBegin, StatsFail, upstream
<1>2. \/ ~tick'.early /\ tick'.pc = "idle"
      \/ /\ tick.pc = "fetched" /\ tick'.pc = "open"
         /\ tick'.early = ~closed /\ tick'.seen = tick.seen
  <2>1. CASE StatsBegin
    BY <2>1 DEF StatsBegin, IInv, TypeOK
  <2>2. CASE StatsFail
    BY <2>2 DEF StatsFail, Idle
  <2> QED
    BY <2>1, <2>2
<1>3. LogFollowsLive' /\ TypeOK'
  BY <1>1, StatsType DEF IInv, LogFollowsLive, Latest
<1>4. ASSUME NEW p \in Players
      PROVE  PlayerInv(p)'
  <2>1. PlayerInv(p)
    BY DEF IInv, PlayerInv
  <2>2. WindowAccount(p)'
    BY <1>1, <2>1, WindowFrame DEF PlayerInv, WindowAccount
  <2>3. \A row \in Row \union {NoRow} : SeenByEnd(p, row) => SeenByEnd(p, row)'
    BY <1>1, SeenFrame
  <2>4. \A i \in EarlySnapshots(p)' : SeenByEnd(p, log[p][i].row)'
    BY <1>1, <2>1, <2>3, SnapshotFrame DEF PlayerInv, IInv
  <2>5. (~closed => StillOpen(p))'
    BY <1>1, <1>2, <2>1 DEF PlayerInv, StillOpen
  <2>6. tick.seen[p] \in Row \union {NoRow}
    BY DEF IInv, TypeOK
  <2>7. (tick.early => \A i \in DOMAIN log[p] : log[p][i].early)'
    BY <1>1, <1>2, <2>1 DEF PlayerInv, StillOpen
  <2>8. (tick.early \/ (tick.pc = "fetched" /\ ~closed) =>
            tick.seen[p] = NoRow \/ SeenByEnd(p, tick.seen[p]))'
    BY <1>1, <1>2, <2>1, <2>3, <2>6 DEF PlayerInv
  <2> QED
    BY <1>1, <2>1, <2>2, <2>4, <2>5, <2>7, <2>8 DEF PlayerInv
<1> QED
  BY <1>2, <1>3, <1>4 DEF IInv, PlayerInv

(* What a commit does to the log and the live row of a player. *)
LEMMA CommitEffect ==
    ASSUME IInv, StatsCommit, NEW p \in Players
    PROVE  /\ \/ Changed(p) /\ log'[p] = Append(log[p], [early |-> tick.early, row |-> tick.seen[p]])
              \/ ~Changed(p) /\ log'[p] = log[p]
           /\ live'[p] = IF tick.seen[p] # NoRow THEN tick.seen[p] ELSE live[p]
           /\ log[p] \in Seq([early : BOOLEAN, row : Row])
  BY DEF IInv, TypeOK, StatsCommit

LEMMA CommitAppends ==
    ASSUME IInv, StatsCommit, NEW p \in Players, Changed(p)
    PROVE  /\ Len(log[p]) \in Nat /\ DOMAIN log[p] = 1 .. Len(log[p])
           /\ DOMAIN log'[p] = 1 .. Len(log[p]) + 1 /\ Len(log'[p]) = Len(log[p]) + 1
           /\ \A i \in DOMAIN log[p] : log'[p][i] = log[p][i]
           /\ log'[p][Len(log[p]) + 1].early = tick.early
           /\ log'[p][Len(log[p]) + 1].row = tick.seen[p]
           /\ log'[p] # <<>>
<1> DEFINE e == [early |-> tick.early, row |-> tick.seen[p]]
<1>1. e.early = tick.early /\ e.row = tick.seen[p]
  OBVIOUS
<1>2. e \in [early : BOOLEAN, row : Row]
  <2>1. tick.early \in BOOLEAN /\ tick.seen[p] \in Row
    BY DEF IInv, TypeOK, Changed
  <2> QED
    BY <2>1
<1>3. log'[p] = Append(log[p], e) /\ log[p] \in Seq([early : BOOLEAN, row : Row])
  BY CommitEffect
<1> DEFINE E == [early : BOOLEAN, row : Row]
<1> HIDE DEF e, E
<1>4. e \in E /\ log'[p] = Append(log[p], e) /\ log[p] \in Seq(E)
  BY <1>2, <1>3 DEF E
<1>5. /\ Len(log[p]) \in Nat /\ DOMAIN log[p] = 1 .. Len(log[p])
      /\ DOMAIN log'[p] = 1 .. Len(log[p]) + 1 /\ Len(log'[p]) = Len(log[p]) + 1
      /\ \A i \in DOMAIN log[p] : log'[p][i] = log[p][i]
      /\ log'[p][Len(log[p]) + 1] = e
      /\ log'[p] # <<>>
  BY <1>4
<1> QED
  BY <1>1, <1>5

LEMMA CommitFollows ==
    ASSUME IInv, StatsCommit
    PROVE  LogFollowsLive'
<1> SUFFICES ASSUME NEW p \in Players
             PROVE  /\ Latest(p)' = live'[p]
                    /\ \A i \in DOMAIN log'[p] \ {1} :
                          /\ log'[p][i].row # log'[p][i - 1].row
                          /\ log'[p][i].early => log'[p][i - 1].early
  BY DEF LogFollowsLive
<1>1. /\ Latest(p) = live[p]
      /\ \A i \in DOMAIN log[p] \ {1} :
            /\ log[p][i].row # log[p][i - 1].row
            /\ log[p][i].early => log[p][i - 1].early
  BY DEF IInv, LogFollowsLive
<1>2. CASE Changed(p)
  <2> DEFINE last == Len(log[p]) + 1
  <2>1. Latest(p)' = tick.seen[p] /\ live'[p] = tick.seen[p]
    BY <1>2, CommitAppends, CommitEffect DEF Latest, Changed
  <2>2. ASSUME NEW i \in DOMAIN log[p] \ {1}
        PROVE  /\ log'[p][i].row # log'[p][i - 1].row
               /\ log'[p][i].early => log'[p][i - 1].early
    <3>1. i - 1 \in DOMAIN log[p] /\ i \in DOMAIN log[p]
      BY <1>2, CommitAppends
    <3>2. log'[p][i] = log[p][i] /\ log'[p][i - 1] = log[p][i - 1]
      BY <1>2, <3>1, CommitAppends
    <3> QED
      BY <1>1, <2>2, <3>2
  <2>3. ASSUME last # 1
        PROVE  /\ log'[p][last].row # log'[p][last - 1].row
               /\ log'[p][last].early => log'[p][last - 1].early
    <3>1. last - 1 = Len(log[p]) /\ Len(log[p]) \in DOMAIN log[p]
      BY <1>2, <2>3, CommitAppends
    <3>2. log'[p][Len(log[p])] = log[p][Len(log[p])]
      BY <1>2, <3>1, CommitAppends
    <3>3. Latest(p) = log[p][Len(log[p])].row
      BY <3>1 DEF Latest
    <3>4. tick.early => log[p][Len(log[p])].early
      BY <3>1 DEF IInv
    <3>5. log'[p][last].row = tick.seen[p] /\ log'[p][last].early = tick.early
      BY <1>2, CommitAppends
    <3>6. tick.seen[p] # Latest(p)
      BY <1>2 DEF Changed
    <3> HIDE DEF last
    <3> QED
      BY <3>1, <3>2, <3>3, <3>4, <3>5, <3>6
  <2>4. DOMAIN log'[p] = DOMAIN log[p] \union {last}
    BY <1>2, CommitAppends
  <2> QED
    BY <2>1, <2>2, <2>3, <2>4
<1>3. CASE ~Changed(p)
  <2>1. log'[p] = log[p] /\ live'[p] = IF tick.seen[p] # NoRow THEN tick.seen[p] ELSE live[p]
    BY <1>3, CommitEffect
  <2> QED
    BY <1>1, <1>3, <2>1 DEF Latest, Changed
<1> QED
  BY <1>2, <1>3

LEMMA StatsCommitInv == IInv /\ StatsCommit => IInv'
<1> SUFFICES ASSUME IInv, StatsCommit
             PROVE  IInv'
  OBVIOUS
<1>1. UNCHANGED <<closed, account, asOf, rebased, playing, games>>
  BY DEF StatsCommit, upstream
<1>2. ~tick'.early /\ tick'.pc = "idle" /\ tick.pc = "open"
  BY DEF StatsCommit, Idle
<1>3. LogFollowsLive' /\ TypeOK'
  BY StatsType, CommitFollows DEF IInv
<1>4. ASSUME NEW p \in Players
      PROVE  PlayerInv(p)'
  <2>1. PlayerInv(p)
    BY DEF IInv, PlayerInv
  <2>2. WindowAccount(p)'
    BY <1>1, <2>1, WindowFrame DEF PlayerInv, WindowAccount
  <2>3. \A row \in Row : SeenByEnd(p, row) => SeenByEnd(p, row)'
    BY <1>1, SeenFrame
  <2>4. CASE Changed(p)
    <3>1. \A i \in EarlySnapshots(p)' : SeenByEnd(p, log[p][i].row)'
      <4>1. ASSUME NEW i \in DOMAIN log[p], log[p][i].early
            PROVE  SeenByEnd(p, log'[p][i].row)
        <5>1. log'[p][i] = log[p][i]
          BY <2>4, CommitAppends
        <5>2. SeenByEnd(p, log[p][i].row)
          BY <2>1, <4>1 DEF PlayerInv, EarlySnapshots
        <5> QED
          BY <5>1, <5>2
      <4>2. ASSUME tick.early
            PROVE  SeenByEnd(p, log'[p][Len(log[p]) + 1].row)
        <5>1. tick.seen[p] \in Row /\ SeenByEnd(p, tick.seen[p])
          BY <2>1, <2>4, <4>2 DEF PlayerInv, Changed, IInv, TypeOK
        <5> QED
          BY <2>4, <5>1, CommitAppends
      <4>3. \A i \in EarlySnapshots(p)' : (i \in DOMAIN log[p] /\ log[p][i].early)
                                            \/ (i = Len(log[p]) + 1 /\ tick.early)
        BY <2>4, CommitAppends DEF EarlySnapshots
      <4>4. \A i \in EarlySnapshots(p)' : SeenByEnd(p, log'[p][i].row)
        BY <4>1, <4>2, <4>3
      <4>5. EarlyGames(p)' = EarlyGames(p)
        BY <1>1 DEF EarlyGames
      <4> QED
        BY <1>1, <4>4, <4>5 DEF SeenByEnd
    <3>2. (~closed => StillOpen(p))'
      <4>1. ASSUME ~closed
            PROVE  \A i \in DOMAIN log'[p] : log'[p][i].early
        <5>1. tick.early /\ \A i \in DOMAIN log[p] : log[p][i].early
          BY <1>2, <2>1, <4>1 DEF PlayerInv, StillOpen
        <5>2. tick.early = TRUE
          BY <5>1 DEF IInv, TypeOK
        <5>3. ASSUME NEW i \in DOMAIN log'[p]
              PROVE  log'[p][i].early
          <6>1. i \in DOMAIN log[p] \/ i = Len(log[p]) + 1
            BY <2>4, CommitAppends
          <6> QED
            BY <2>4, <5>1, <5>2, <6>1, CommitAppends
        <5> QED
          BY <5>3
      <4> QED
        BY <1>1, <1>2, <2>1, <4>1 DEF PlayerInv, StillOpen
    <3> QED
      BY <1>1, <1>2, <2>1, <2>2, <3>1, <3>2 DEF PlayerInv
  <2>5. CASE ~Changed(p)
    <3>1. log'[p] = log[p]
      BY <2>5, CommitEffect
    <3>2. \A i \in EarlySnapshots(p)' : SeenByEnd(p, log[p][i].row)'
      BY <2>1, <2>3, <3>1, SnapshotFrame DEF PlayerInv, IInv
    <3>3. (~closed => StillOpen(p))'
      BY <1>1, <1>2, <2>1, <3>1 DEF PlayerInv, StillOpen
    <3> QED
      BY <1>1, <1>2, <2>1, <2>2, <3>2, <3>3 DEF PlayerInv
  <2> QED
    BY <2>4, <2>5
<1> QED
  BY <1>2, <1>3, <1>4 DEF IInv, PlayerInv

LEMMA NextInv == IInv /\ [Next]_vars => IInv'
<1> SUFFICES ASSUME IInv, [Next]_vars
             PROVE  IInv'
  OBVIOUS
<1>1. CASE Close
  <2>1. closed' /\ UNCHANGED <<account, asOf, rebased, playing, games, tick, live, log>>
    BY <1>1 DEF Close, upstream, poller
  <2> QED
    BY <1>1, <2>1, CloseType, QuietInv DEF IInv
<1>2. CASE UNCHANGED vars
  <2>1. UNCHANGED <<closed, account, asOf, rebased, playing, games, tick, live, log>>
    BY <1>2 DEF vars, upstream, poller
  <2> QED
    BY <1>2, <2>1, StutterType, QuietInv DEF IInv
<1>3. ASSUME NEW p \in Players, Track(p) \/ Record(p)
      PROVE  IInv'
  <2>1. UNCHANGED <<closed, account, asOf, rebased, playing, games, tick, live, log>>
    BY <1>3 DEF Track, Record, upstream, poller
  <2> QED
    BY <1>3, <2>1, UpstreamType, QuietInv DEF IInv
<1> QED
  BY <1>1, <1>2, <1>3, StartGameInv, FinishGameInv, RebaseInv,
     StatsFetchInv, StatsTickInv, StatsCommitInv DEF Next

-----------------------------------------------------------------------------
(* What the frozen table shows.                                            *)

(* What is known of the window never exceeds what was reached in it. *)
LEMMA KnownBounded ==
    ASSUME IInv, NEW p \in Players
    PROVE  /\ Observed(p) \union Settled(p) \subseteq Nat
           /\ \A x \in Observed(p) \union Settled(p) : x <= asOf[p].peak
<1>1. ASSUME NEW i \in EarlySnapshots(p)
      PROVE  log[p][i].row.peak \in Nat /\ log[p][i].row.peak <= asOf[p].peak
  <2>1. log[p] \in Seq([early : BOOLEAN, row : Row]) /\ i \in DOMAIN log[p]
    BY DEF IInv, TypeOK, EarlySnapshots
  <2>2. log[p][i] \in [early : BOOLEAN, row : Row]
    BY <2>1, MemberType
  <2> QED
    BY <2>2, RowType DEF IInv, SeenByEnd
<1>2. ASSUME NEW i \in EarlyGames(p)
      PROVE  games[p][i].rating \in Nat /\ games[p][i].rating <= asOf[p].peak
  <2>1. games[p][i] \in Game
    BY MemberType DEF IInv, TypeOK, EarlyGames
  <2> QED
    BY <2>1, RatingType DEF IInv, WindowAccount, Game
<1> QED
  BY <1>1, <1>2 DEF Observed, Settled

(* A player with a snapshot has a live row. *)
LEMMA ObservedIsLive ==
    ASSUME IInv, NEW p \in Players
    PROVE  /\ EarlySnapshots(p) # {} => live[p] \in Row
           /\ live[p] # NoRow => /\ Len(log[p]) \in DOMAIN log[p]
                                 /\ log[p][Len(log[p])].row = live[p]
<1>1. log[p] \in Seq([early : BOOLEAN, row : Row]) /\ Latest(p) = live[p]
  BY DEF IInv, TypeOK, LogFollowsLive
<1>2. CASE log[p] = <<>>
  BY <1>1, <1>2 DEF Latest, EarlySnapshots
<1>3. CASE log[p] # <<>>
  <2>1. Len(log[p]) \in DOMAIN log[p]
    BY <1>1, <1>3
  <2>2. log[p][Len(log[p])] \in [early : BOOLEAN, row : Row]
    BY <1>1, <2>1, MemberType
  <2> QED
    BY <1>1, <1>3, <2>1, <2>2 DEF Latest
<1> QED
  BY <1>2, <1>3

LEMMA PeakOfInv == IInv => PeakIsTrue
<1> SUFFICES ASSUME IInv, NEW p \in Players \ rebased, WindowOver(p), EarlySnapshots(p) # {}
             PROVE  FrozenPeak(p) = IF asOf[p].peak <= live[p].peak THEN asOf[p].peak
                                                                    ELSE live[p].peak
  BY DEF PeakIsTrue
<1> DEFINE known == Observed(p) \union Settled(p)
<1>1. known \subseteq Nat /\ \A x \in known : x <= asOf[p].peak
  BY KnownBounded
<1>2. asOf[p].peak \in known
  <2>1. CASE asOf[p].peak = Account0[p].peak
    <3>1. PICK i \in EarlySnapshots(p) : TRUE
      OBVIOUS
    <3>2. log[p][i].row.peak \in Observed(p)
      BY <3>1 DEF Observed
    <3>3. Account0[p].peak <= log[p][i].row.peak
      BY <3>1 DEF IInv, SeenByEnd
    <3>4. log[p][i].row.peak = asOf[p].peak
      BY <1>1, <2>1, <3>2, <3>3, NumberType DEF IInv
    <3> QED
      BY <3>2, <3>4
  <2>2. CASE \E i \in EarlyGames(p) : games[p][i].rating = asOf[p].peak
    BY <2>2 DEF WindowOver, Settled
  <2> QED
    BY <2>1, <2>2 DEF IInv, WindowAccount
<1>3. Highest(known) = asOf[p].peak /\ known # {}
  BY <1>1, <1>2, HighestIs
<1>4. live[p] \in Row /\ live[p] # NoRow
  BY ObservedIsLive, RowType
<1>5. FrozenPeak(p) = IF asOf[p].peak > live[p].peak THEN live[p].peak ELSE asOf[p].peak
  BY <1>3, <1>4 DEF FrozenPeak
<1>6. asOf[p].peak \in Nat /\ live[p].peak \in Nat
  BY <1>4, NumberType, RowType DEF IInv
<1> QED
  BY <1>5, <1>6

LEMMA CurrentOfInv == IInv => CurrentIsTrue
<1> SUFFICES ASSUME IInv, NEW p \in Players, WindowOver(p), EarlySnapshots(p) # {}
             PROVE  FrozenCurrent(p) = asOf[p].cur
  BY DEF CurrentIsTrue
<1>1. EarlyGames(p) \cap recorded[p] = EarlyGames(p)
  BY DEF WindowOver
<1>2. CASE EarlyGames(p) # {}
  BY <1>1, <1>2 DEF FrozenCurrent, IInv, WindowAccount
<1>3. CASE EarlyGames(p) = {}
  <2>1. /\ EarlySnapshots(p) \subseteq Nat /\ Len(log[p]) \in Nat
        /\ \A i \in EarlySnapshots(p) : i <= Len(log[p])
    BY DEF IInv, TypeOK, EarlySnapshots
  <2>2. Highest(EarlySnapshots(p)) \in EarlySnapshots(p)
    BY <2>1, HighestOf
  <2>3. log[p][Highest(EarlySnapshots(p))].row.cur = Account0[p].cur
    BY <1>3, <2>2 DEF IInv, SeenByEnd
  <2> QED
    BY <1>1, <1>3, <2>3 DEF FrozenCurrent, IInv, WindowAccount
<1> QED
  BY <1>2, <1>3

LEMMA CloseKeepsPeak ==
    ASSUME IInv, [Next]_vars, ~closed, closed', NEW p \in Players, live[p] # NoRow
    PROVE  RankPeak(p)' = RankPeak(p)
<1>1. UNCHANGED <<games, recorded, live, log>>
  <2>1. Close
    BY DEF Next, StartGame, Track, Record, FinishGame, Rebase,
           StatsFetch, StatsBegin, StatsCommit, StatsFail, vars
  <2> QED
    BY <2>1 DEF Close, upstream, poller
<1> DEFINE known == Observed(p) \union Settled(p)
<1>2. live[p].peak \in known
  <2>1. Len(log[p]) \in DOMAIN log[p] /\ log[p][Len(log[p])].row = live[p]
    BY ObservedIsLive
  <2>2. log[p][Len(log[p])].early
    BY <2>1 DEF IInv, StillOpen
  <2> QED
    BY <2>1, <2>2 DEF Observed, EarlySnapshots
<1>3. known \subseteq Nat /\ \A x \in known : x <= asOf[p].peak
  BY KnownBounded
<1>4. Highest(known) \in Nat /\ live[p].peak <= Highest(known) /\ live[p].peak \in Nat
  <2>1. asOf[p].peak \in Nat
    BY NumberType DEF IInv
  <2> HIDE DEF known
  <2> QED
    BY <1>2, <1>3, <2>1, HighestOf
<1>5. FrozenPeak(p) = live[p].peak
  <2>1. FrozenPeak(p) = IF Highest(known) > live[p].peak THEN live[p].peak ELSE Highest(known)
    BY <1>2 DEF FrozenPeak
  <2> HIDE DEF known
  <2> QED
    BY <1>4, <2>1
<1>6. FrozenPeak(p)' = FrozenPeak(p)
  BY <1>1 DEF FrozenPeak, Observed, Settled, EarlySnapshots, EarlyGames
<1> QED
  BY <1>5, <1>6 DEF RankPeak

-----------------------------------------------------------------------------
(* The inductive invariant holds whatever the players, ratings and games.  *)
THEOREM Invariance == Spec => []IInv
<1>1. Spec => Init /\ [][Next]_vars
  BY DEF Spec, Safety
<1> QED
  BY <1>1, InitInv, NextInv, PTL

(* Every variable keeps its type. *)
THEOREM TypeCorrect == Spec => []TypeOK
<1>1. IInv => TypeOK
  BY DEF IInv
<1> QED
  BY <1>1, Invariance, PTL

(* The snapshot log is the history of the live rows. *)
THEOREM LogIsHistory == Spec => []LogFollowsLive
<1>1. IInv => LogFollowsLive
  BY DEF IInv
<1> QED
  BY <1>1, Invariance, PTL

(* Once the window is all in, the frozen peak is the peak of the window,   *)
(* as far as the live row knows of it.                                     *)
THEOREM FrozenPeakIsTrue == Spec => []PeakIsTrue
  BY Invariance, PeakOfInv, PTL

(* Once the window is all in, the frozen current rating is that after the  *)
(* last game begun in it.                                                  *)
THEOREM FrozenCurrentIsTrue == Spec => []CurrentIsTrue
  BY Invariance, CurrentOfInv, PTL

(* The end of the window moves no peak the table ranks on. *)
THEOREM CloseIsSmooth == Spec => CloseMovesNoPeak
<1>1. IInv /\ [Next]_vars =>
         [~closed /\ closed' => \A p \in Players : live[p] # NoRow => RankPeak(p)' = RankPeak(p)]_vars
  BY CloseKeepsPeak
<1>2. Spec => [][Next]_vars
  BY DEF Spec, Safety
<1> QED
  BY <1>1, <1>2, Invariance, PTL DEF CloseMovesNoPeak
=============================================================================
