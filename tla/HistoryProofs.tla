---------------------------- MODULE HistoryProofs ----------------------------
(***************************************************************************)
(* Proofs about the standings and the chart of module History, for any     *)
(* roster, ratings, window, length of a day and number of games.           *)
(***************************************************************************)
EXTENDS History, TLAPS, WellFoundedInduction

-----------------------------------------------------------------------------
(* Least and greatest members.                                             *)

(* The order of the naturals, as a set of pairs. *)
LEMMA LessThan ==
    \E R : /\ IsWellFoundedOn(R, Nat)
           /\ R = {ss \in Nat \X Nat : ss[1] < ss[2]}
<1>1. OpToRel(<, Nat) = {ss \in Nat \X Nat : ss[1] < ss[2]}
  BY Zenon DEF OpToRel
<1> QED
  BY <1>1, NatLessThanWellFounded, Zenon

LEMMA LeastOf ==
    ASSUME NEW T, T \subseteq Nat, T # {}
    PROVE  \E x \in T : \A y \in T : x <= y
<1>1. PICK R : IsWellFoundedOn(R, Nat) /\ R = {ss \in Nat \X Nat : ss[1] < ss[2]}
  BY LessThan, Zenon
<1>2. PICK x \in T : \A y \in T : ~(<<y, x>> \in R)
  BY <1>1, WFMin, Zenon
<1>3. ASSUME NEW y \in T
      PROVE  x <= y
  <2>1. ~(<<y, x>> \in {ss \in Nat \X Nat : ss[1] < ss[2]})
    BY <1>1, <1>2, Zenon
  <2> QED
    BY <2>1
<1> QED
  BY <1>3

LEMMA MinOf ==
    ASSUME NEW T, T \subseteq Nat, T # {}
    PROVE  Min(T) \in T /\ \A y \in T : Min(T) <= y
  BY LeastOf DEF Min

(* A bounded set of naturals has a greatest member. *)
LEMMA MaxOf ==
    ASSUME NEW S, S \subseteq Nat, S # {}, NEW b \in Nat, \A y \in S : y <= b
    PROVE  Max(S) \in S /\ \A y \in S : y <= Max(S)
<1> DEFINE T == {b - y : y \in S}
<1>1. T \subseteq Nat /\ T # {}
  <2>1. ASSUME NEW y \in S
        PROVE  b - y \in Nat
    OBVIOUS
  <2>2. PICK y \in S : TRUE
    OBVIOUS
  <2>3. b - y \in T
    OBVIOUS
  <2> QED
    BY <2>1, <2>3
<1>2. PICK x \in T : \A y \in T : x <= y
  <2> HIDE DEF T
  <2> QED
    BY <1>1, LeastOf, Zenon
<1>3. PICK m \in S : x = b - m
  BY <1>2
<1>4. ASSUME NEW y \in S
      PROVE  m >= y
  <2>1. x <= b - y
    BY <1>2
  <2> QED
    BY <2>1, <1>3
<1>5. Max(S) \in S /\ \A y \in S : Max(S) >= y
  BY <1>3, <1>4 DEF Max
<1> HIDE DEF T
<1> QED
  BY <1>5

(* A bound that is reached is the greatest. *)
LEMMA MaxIs ==
    ASSUME NEW S, S \subseteq Nat, NEW m \in S, \A y \in S : y <= m
    PROVE  Max(S) = m
<1> DEFINE x == Max(S)
<1>1. x \in S /\ \A y \in S : x >= y
  BY DEF Max
<1> HIDE DEF x
<1>2. x = m
  BY <1>1
<1> QED
  BY <1>2 DEF x

LEMMA HighestOf ==
    ASSUME NEW S, S \subseteq Nat, NEW b \in Nat, \A y \in S : y <= b
    PROVE  /\ Highest(S) \in Nat /\ Highest(S) \in S \union {0}
           /\ \A y \in S : y <= Highest(S)
<1> DEFINE T == S \union {0}
<1>1. T \subseteq Nat /\ T # {} /\ \A y \in T : y <= b
  OBVIOUS
<1> HIDE DEF T
<1>2. Max(T) \in T /\ \A y \in T : y <= Max(T)
  BY <1>1, MaxOf
<1> QED
  BY <1>1, <1>2 DEF Highest, T

LEMMA HighestIs ==
    ASSUME NEW S, S \subseteq Nat, NEW m \in S \union {0}, \A y \in S : y <= m
    PROVE  Highest(S) = m
<1> DEFINE T == S \union {0}
<1>1. T \subseteq Nat /\ m \in T /\ \A y \in T : y <= m
  OBVIOUS
<1> HIDE DEF T
<1>2. Max(T) = m
  BY <1>1, MaxIs
<1> QED
  BY <1>2 DEF Highest, T

-----------------------------------------------------------------------------
(* Types.                                                                  *)
LEMMA RatingType == \A r \in Ratings : r \in Nat /\ r > 0
  BY ConstantsAssumption

LEMMA RowType ==
    /\ NoRow \notin Row /\ NoRow.cur = 0 /\ NoRow.peak = 0
    /\ \A row \in Row \union {NoRow} : row.cur \in Nat /\ row.peak \in Nat
    /\ \A row \in Row : /\ row.cur \in Ratings /\ row.peak \in Ratings
                        /\ row.cur > 0 /\ row.peak > 0
<1>1. \A row \in Row : row.cur \in Ratings /\ row.peak \in Ratings
  BY DEF Row
<1>2. NoRow.cur = 0 /\ NoRow.peak = 0
  BY DEF NoRow
<1> QED
  BY <1>1, <1>2, RatingType

LEMMA WindowType == Start \in Nat /\ End \in Nat /\ Start < End /\ Day \in Nat /\ Day > 0
  BY ConstantsAssumption

(* What is known of a player, as numbers. *)
LEMMA PlayerType ==
    ASSUME TypeOK, NEW p \in Players
    PROVE  /\ now \in Nat
           /\ Account0[p].cur \in Nat /\ Account0[p].peak \in Nat
           /\ Account0[p].cur <= Account0[p].peak
           /\ account[p].cur \in Nat /\ account[p].peak \in Nat
           /\ live[p].cur \in Nat /\ live[p].peak \in Nat
           /\ account[p] \in Row \union {NoRow} /\ live[p] \in Row \union {NoRow}
<1>1. /\ account[p] \in Row \union {NoRow} /\ live[p] \in Row \union {NoRow}
      /\ Account0[p] \in Row \union {NoRow}
  BY ConstantsAssumption DEF TypeOK
<1>2. Account0[p].cur <= Account0[p].peak
  BY ConstantsAssumption
<1> QED
  BY <1>1, <1>2, RowType DEF TypeOK

LEMMA GameType ==
    ASSUME TypeOK, NEW p \in Players
    PROVE  /\ games[p] \in Seq(Game) /\ Len(games[p]) \in Nat
           /\ DOMAIN games[p] = 1..Len(games[p])
           /\ \A i \in DOMAIN games[p] :
                /\ i \in Nat /\ games[p][i] \in Game
                /\ games[p][i].at \in Nat /\ games[p][i].old \in Nat
                /\ games[p][i].new \in Nat /\ games[p][i].new \in Ratings /\ games[p][i].new > 0
<1>1. games[p] \in Seq(Game) /\ Len(games[p]) \in Nat /\ DOMAIN games[p] = 1..Len(games[p])
  BY DEF TypeOK
<1>2. \A i \in DOMAIN games[p] : i \in Nat /\ games[p][i] \in Game
  BY <1>1
<1>3. \A g \in Game : g.at \in Nat /\ g.old \in Nat /\ g.new \in Nat /\ g.new \in Ratings /\ g.new > 0
  BY RatingType DEF Game
<1> QED
  BY <1>1, <1>2, <1>3

LEMMA SnapType ==
    ASSUME TypeOK, NEW p \in Players
    PROVE  /\ snaps[p] \in Seq(Snap) /\ Len(snaps[p]) \in Nat
           /\ DOMAIN snaps[p] = 1..Len(snaps[p])
           /\ snaps[p] # <<>> <=> Len(snaps[p]) > 0
           /\ \A i \in DOMAIN snaps[p] :
                /\ i \in Nat /\ snaps[p][i].at \in Nat /\ snaps[p][i].row \in Row
                /\ snaps[p][i].row.cur \in Nat /\ snaps[p][i].row.peak \in Nat
                /\ snaps[p][i].row.cur > 0 /\ snaps[p][i].row.peak > 0
<1>1. snaps[p] \in Seq(Snap) /\ Len(snaps[p]) \in Nat /\ DOMAIN snaps[p] = 1..Len(snaps[p])
      /\ (snaps[p] # <<>> <=> Len(snaps[p]) > 0)
  BY DEF TypeOK
<1>2. \A i \in DOMAIN snaps[p] : i \in Nat /\ snaps[p][i] \in Snap
  BY <1>1
<1>3. \A s \in Snap : s.at \in Nat /\ s.row \in Row
  BY DEF Snap
<1> QED
  BY <1>1, <1>2, <1>3, RowType, RatingType

-----------------------------------------------------------------------------
(* The times of the chart.                                                 *)
LEMMA EventsAre ==
    ASSUME IInv
    PROVE  /\ EventTimes \subseteq Nat
           /\ \A t \in EventTimes : Start < t /\ t <= now
<1> SUFFICES ASSUME NEW t \in EventTimes
             PROVE  t \in Nat /\ Start < t /\ t <= now
  OBVIOUS
<1>1. PICK p \in known : \/ \E i \in Charted(p) : t = games[p][i].at
                         \/ \E i \in SnapsWithin(p) : t = snaps[p][i].at
  BY DEF EventTimes
<1>2. p \in Players /\ TypeOK /\ GamesInOrder(p) /\ SnapsInOrder(p)
  BY DEF IInv, TypeOK
<1>3. ASSUME NEW i \in Charted(p), t = games[p][i].at
      PROVE  t \in Nat /\ Start < t /\ t <= now
  <2>1. i \in DOMAIN games[p] /\ Start <= games[p][i].at - 1
    BY <1>2, <1>3 DEF Charted, Began, GamesInOrder
  <2>2. games[p][i].at \in Nat /\ games[p][i].at <= now
    BY <1>2, <2>1, GameType DEF GamesInOrder
  <2> QED
    BY <1>3, <2>1, <2>2, WindowType
<1>4. ASSUME NEW i \in SnapsWithin(p), t = snaps[p][i].at
      PROVE  t \in Nat /\ Start < t /\ t <= now
  <2>1. i \in DOMAIN snaps[p] /\ Start < snaps[p][i].at
    BY DEF SnapsWithin
  <2> QED
    BY <1>2, <1>4, <2>1, SnapType DEF SnapsInOrder
<1> QED
  BY <1>1, <1>3, <1>4

(* The chart begins with a midnight, has every event and is bounded. *)
LEMMA CandidatesAre ==
    ASSUME IInv
    PROVE  /\ Candidates \subseteq Nat /\ EventTimes \subseteq Candidates
           /\ \E b \in Nat : \A t \in Candidates : t <= b
           /\ \E a \in Anchors : a \in Candidates /\ \A t \in Candidates : a <= t
<1> DEFINE first == Start \div Day
           last  == IF EventTimes = {} THEN Start ELSE Max(EventTimes)
<1>0. now \in Nat
  BY DEF IInv, TypeOK
<1>1. last \in Nat /\ Start <= last /\ last <= Start + now
  <2>1. CASE EventTimes = {}
    BY <1>0, <2>1, WindowType
  <2>2. CASE EventTimes # {}
    <3>1. Max(EventTimes) \in EventTimes
      BY <1>0, <2>2, EventsAre, MaxOf
    <3> QED
      BY <1>0, <2>2, <3>1, EventsAre, WindowType
  <2> QED
    BY <2>1, <2>2
<1>2. ASSUME NEW a \in Nat
      PROVE  a \div Day \in Nat /\ (a \div Day) * Day <= a
  BY WindowType
<1>3. first \in Nat /\ first * Day <= Start
  BY <1>2, WindowType
<1>4. ASSUME NEW a \in Nat, NEW b \in Nat, a <= b
      PROVE  a \div Day <= b \div Day /\ a * Day <= b * Day
  BY <1>4, WindowType
<1>5. EndDay \in Nat /\ EndDay * Day <= last /\ first <= EndDay
  <2>1. EndDay = last \div Day
    BY DEF EndDay
  <2> HIDE DEF last
  <2> QED
    BY <1>1, <1>2, <1>4, <2>1, WindowType
<1>6. Anchors = {d * Day : d \in first..EndDay}
  BY <1>3, <1>5 DEF Anchors, Lower
<1> HIDE DEF first, last
<1>7. first * Day \in Anchors
  BY <1>3, <1>5, <1>6
<1>8. \A t \in Anchors : t \in Nat /\ first * Day <= t /\ t <= EndDay * Day
  <2>1. ASSUME NEW d \in first..EndDay
        PROVE  d * Day \in Nat /\ first * Day <= d * Day /\ d * Day <= EndDay * Day
    BY <1>3, <1>4, <1>5, WindowType
  <2> QED
    BY <1>6, <2>1
<1>9. \A t \in Candidates : t \in Nat /\ first * Day <= t /\ t <= Start + now
  <2>1. first * Day \in Nat /\ EndDay * Day \in Nat
    BY <1>3, <1>5, WindowType
  <2> QED
    BY <1>0, <1>1, <1>3, <1>5, <1>8, <2>1, EventsAre, WindowType DEF Candidates
<1> QED
  BY <1>0, <1>7, <1>9, WindowType DEF Candidates

-----------------------------------------------------------------------------
(* A bucket that is not emitted has the positions of the one before.       *)
LEMMA ChartIsComplete == IInv => EveryOrderIsCharted
<1> SUFFICES ASSUME IInv
             PROVE  EveryOrderIsCharted
  OBVIOUS
<1> DEFINE kept == Anchors \union {Final}
           emitted == Buckets(Orders)
           Shown(t) == [at |-> t, order |-> Vector(t)] \in emitted
<1>1. PICK bound \in Nat : \A t \in Candidates : t <= bound
  BY CandidatesAre
<1>2. Candidates \subseteq Nat
  BY CandidatesAre
<1>3. \A c \in emitted : c.at \in Candidates /\ c = [at |-> c.at, order |-> Vector(c.at)]
  BY DEF Buckets, Orders
<1>4. ASSUME NEW t \in Candidates, ~Shown(t), NEW b \in Candidates, b < t
      PROVE  \E s \in Candidates : b <= s /\ s < t /\ Vector(s) = Vector(t)
  <2> DEFINE before == {s \in Candidates : s < t}
  <2>1. Max(before) \in before /\ \A s \in before : s <= Max(before)
    <3>1. before \subseteq Nat /\ before # {} /\ \A s \in before : s <= bound
      BY <1>1, <1>2, <1>4
    <3> HIDE DEF before
    <3> QED
      BY <3>1, MaxOf
  <2>2. PICK m \in before : \A s \in before : s <= m
    BY <2>1
  <2>3. [at |-> t, order |-> Vector(t)] \in Orders
    BY DEF Orders
  <2>4. ~Emitted([at |-> t, order |-> Vector(t)], Orders, kept)
    BY <1>4, <2>3 DEF Buckets
  <2>5. [at |-> m, order |-> Vector(m)] \in Orders
    BY <2>2 DEF Orders
  <2>6. \A r \in Orders : r.at < t => r.at <= m
    BY <2>2 DEF Orders
  <2>7. Vector(m) = Vector(t)
    BY <2>2, <2>4, <2>5, <2>6 DEF Emitted
  <2> QED
    BY <1>4, <2>2, <2>7
<1>5. PICK a \in Anchors : a \in Candidates /\ \A t \in Candidates : a <= t
  BY CandidatesAre
<1>6. Shown(a)
  BY <1>5 DEF Buckets, Orders, Emitted
<1>7. ASSUME NEW t \in Candidates
      PROVE  \E c \in Candidates :
                /\ Shown(c) /\ c <= t /\ Vector(c) = Vector(t)
                /\ \A d \in Candidates : Shown(d) /\ d <= t => d <= c
  <2> DEFINE shown == {s \in Candidates : Shown(s) /\ s <= t}
  <2> HIDE DEF emitted
  <2>1. PICK c \in shown : \A d \in shown : d <= c
    <3>1. shown \subseteq Nat /\ shown # {} /\ \A s \in shown : s <= t /\ t \in Nat
      BY <1>2, <1>5, <1>6
    <3> HIDE DEF shown
    <3>2. Max(shown) \in shown /\ \A s \in shown : s <= Max(shown)
      BY <3>1, <1>2, MaxOf
    <3> QED
      BY <3>2
  <2> DEFINE odd == {s \in Candidates : c <= s /\ s <= t /\ Vector(s) # Vector(c)}
  <2>2. odd = {}
    <3> SUFFICES ASSUME odd # {}
                 PROVE  FALSE
      OBVIOUS
    <3>1. PICK u \in odd : \A s \in odd : u <= s
      <4>1. odd \subseteq Nat
        BY <1>2
      <4> HIDE DEF odd
      <4> QED
        BY <4>1, LeastOf
    <3>2. u \in Candidates /\ c < u /\ u <= t /\ ~Shown(u)
      BY <1>2, <2>1, <3>1
    <3>3. PICK s \in Candidates : c <= s /\ s < u /\ Vector(s) = Vector(u)
      BY <1>4, <2>1, <3>2
    <3> QED
      BY <1>2, <3>1, <3>2, <3>3
  <2>3. Vector(t) = Vector(c)
    BY <1>2, <2>1, <2>2
  <2> QED
    BY <2>1, <2>3
<1> SUFFICES ASSUME NEW o \in Orders
             PROVE  \E c \in emitted :
                       /\ c.at <= o.at /\ c.order = o.order
                       /\ \A d \in emitted : d.at <= o.at => d.at <= c.at
  BY DEF EveryOrderIsCharted
<1>8. o.at \in Candidates /\ o.order = Vector(o.at)
  BY DEF Orders
<1>9. PICK c \in Candidates : /\ Shown(c) /\ c <= o.at /\ Vector(c) = Vector(o.at)
                              /\ \A d \in Candidates : Shown(d) /\ d <= o.at => d <= c
  BY <1>7, <1>8
<1> HIDE DEF emitted
<1> QED
  BY <1>3, <1>8, <1>9

-----------------------------------------------------------------------------
(* Every step keeps the types.                                             *)
LEMMA InitType == Init => TypeOK
<1> SUFFICES ASSUME Init
             PROVE  TypeOK
  OBVIOUS
<1>1. /\ account \in [Players -> Row \union {NoRow}] /\ live \in [Players -> Row \union {NoRow}]
      /\ recorder \in Nat
  BY ConstantsAssumption DEF Init
<1>2. /\ games \in [Players -> Seq(Game)] /\ snaps \in [Players -> Seq(Snap)]
      /\ recorded \in [Players -> SUBSET Nat]
  BY DEF Init
<1>3. known \subseteq Players /\ rebased \subseteq Players /\ now \in Nat
  BY DEF Init
<1> QED
  BY <1>1, <1>2, <1>3 DEF Init, TypeOK

LEMMA RatingOf ==
    ASSUME TypeOK, NEW p \in Players
    PROVE  account[p].cur \in Ratings \union {0} /\ account[p].peak \in Ratings \union {0}
  BY RowType DEF TypeOK

LEMMA FinishType ==
    ASSUME TypeOK, NEW p \in Players, NEW rating \in Ratings, Finish(p, rating)
    PROVE  TypeOK'
<1> DEFINE game == [at |-> now + 1, old |-> account[p].cur, new |-> rating]
<1>1. game \in Game
  <2>1. now + 1 \in Nat /\ account[p].cur \in Ratings \union {0}
    BY RatingOf DEF TypeOK
  <2> QED
    BY <2>1 DEF Game
<1>2. games' \in [Players -> Seq(Game)]
  <2>1. games[p] \in Seq(Game) /\ games' = [games EXCEPT ![p] = Append(games[p], game)]
    BY DEF Finish, TypeOK
  <2>2. Append(games[p], game) \in Seq(Game)
    BY <1>1, <2>1
  <2> HIDE DEF game
  <2> QED
    BY <2>1, <2>2 DEF TypeOK
<1>3. account' \in [Players -> Row \union {NoRow}]
  <2>1. Higher(account[p].peak, rating) \in Ratings
    BY RatingOf, RatingType DEF Higher
  <2> QED
    BY <2>1 DEF Finish, TypeOK, Row
<1> QED
  BY <1>2, <1>3 DEF Finish, Passes, TypeOK, config

LEMMA RebaseType ==
    ASSUME TypeOK, NEW p \in Players, Rebase(p)
    PROVE  TypeOK' /\ account[p] \in Row /\ account'[p] = [account[p] EXCEPT !.peak = account[p].cur]
<1>1. account[p] \in Row
  BY RowType DEF TypeOK, Rebase
<1>2. account'[p] = [account[p] EXCEPT !.peak = account[p].cur]
  BY DEF TypeOK, Rebase
<1>3. account' \in [Players -> Row \union {NoRow}]
  BY <1>1 DEF TypeOK, Rebase, Row
<1> QED
  BY <1>1, <1>2, <1>3 DEF Rebase, TypeOK, config

LEMMA RecordType ==
    ASSUME TypeOK, NEW p \in Players, NEW i \in Nat, Record(p, i)
    PROVE  TypeOK'
  BY DEF Record, TypeOK, config

LEMMA PollType ==
    ASSUME TypeOK, Poll
    PROVE  TypeOK'
<1>1. snaps' \in [Players -> Seq(Snap)]
  <2>1. ASSUME NEW p \in Players, account[p] # NoRow
        PROVE  Append(snaps[p], [at |-> now + 1, row |-> account[p]]) \in Seq(Snap)
    <3>1. [at |-> now + 1, row |-> account[p]] \in Snap
      BY <2>1 DEF TypeOK, Snap
    <3>2. snaps[p] \in Seq(Snap)
      BY DEF TypeOK
    <3> QED
      BY <3>1, <3>2
  <2> QED
    BY <2>1 DEF Poll, TypeOK
<1>2. live' \in [Players -> Row \union {NoRow}]
  BY DEF Poll, TypeOK
<1> QED
  BY <1>1, <1>2 DEF Poll, Passes, TypeOK, config

-----------------------------------------------------------------------------
(* Every step keeps games, snapshots and peaks in order.                   *)
InOrder(p) == GamesInOrder(p) /\ SnapsInOrder(p) /\ PeaksInOrder(p) /\ HasTop(p)

LEMMA InitInv == Init => IInv
<1> SUFFICES ASSUME Init
             PROVE  IInv
  OBVIOUS
<1>1. TypeOK
  BY InitType
<1>2. ASSUME NEW p \in Players
      PROVE  GamesInOrder(p) /\ SnapsInOrder(p) /\ PeaksInOrder(p) /\ HasTop(p)
  <2>1. /\ games[p] = <<>> /\ snaps[p] = <<>> /\ recorded[p] = {} /\ account[p] = Account0[p]
        /\ live[p] \in {NoRow, Account0[p]}
    BY ConstantsAssumption DEF Init
  <2>2. DOMAIN games[p] = {} /\ DOMAIN snaps[p] = {} /\ Len(games[p]) = 0
    BY <2>1
  <2>3. Account0[p].peak \in Nat /\ live[p].peak <= account[p].peak
    BY <1>1, <2>1, PlayerType, RowType
  <2>4. Account0[p].peak \in Ratings \union {0}
    BY <1>1, <2>1, RatingOf
  <2>5. HasTop(p)
    BY <2>1, <2>2, <2>3, <2>4 DEF HasTop
  <2> QED
    BY <2>1, <2>2, <2>3, <2>5
       DEF GamesInOrder, SnapsInOrder, PeaksInOrder, IsPeakAt, RatingAfter
<1> QED
  BY <1>1, <1>2 DEF IInv

(* Nothing of a player changes but what is recorded. *)
LEMMA Frame ==
    ASSUME TypeOK, NEW p \in Players, InOrder(p),
           games'[p] = games[p], account'[p] = account[p], live'[p] = live[p], snaps'[p] = snaps[p],
           recorded'[p] \subseteq DOMAIN games[p], now' \in Nat, now <= now',
           rebased \subseteq rebased', recorder' = recorder
    PROVE  InOrder(p)'
<1> USE DEF InOrder
<1>0. now \in Nat /\ recorder \in Nat
  BY DEF TypeOK
<1>1. GamesInOrder(p)'
  BY <1>0, GameType DEF GamesInOrder, RatingAfter
<1>2. SnapsInOrder(p)'
  BY <1>0, SnapType, GameType DEF SnapsInOrder, RatingAfter
<1>3. PeaksInOrder(p)'
  <2> SUFFICES ASSUME p \notin rebased'
               PROVE  PeaksInOrder(p)'
    BY DEF PeaksInOrder
  <2>1. IsPeakAt(p, account[p].peak, now)'
    BY <1>0, GameType DEF PeaksInOrder, GamesInOrder, IsPeakAt
  <2> QED
    BY <2>1 DEF PeaksInOrder, IsPeakAt
<1>4. HasTop(p)'
  BY DEF HasTop
<1> QED
  BY <1>1, <1>2, <1>3, <1>4

(* A game ends: no snapshot is of that time or later. *)
LEMMA FinishInv ==
    ASSUME TypeOK, NEW p \in Players, InOrder(p), NEW rating \in Ratings, Finish(p, rating)
    PROVE  InOrder(p)'
<1> USE DEF InOrder
<1> DEFINE n == Len(games[p])
           game == [at |-> now + 1, old |-> account[p].cur, new |-> rating]
<1>1. /\ n \in Nat /\ games'[p] = Append(games[p], game)
      /\ Len(games'[p]) = n + 1 /\ DOMAIN games'[p] = 1..(n + 1) /\ DOMAIN games[p] = 1..n
      /\ \A i \in 1..n : games'[p][i] = games[p][i]
      /\ games'[p][n + 1] = game
  <2>1. games[p] \in Seq(Game) /\ games'[p] = Append(games[p], game)
    BY DEF TypeOK, Finish
  <2> HIDE DEF game
  <2> QED
    BY <2>1
<1>2. /\ now \in Nat /\ now' = now + 1 /\ rebased' = rebased /\ recorder' = recorder
      /\ account'[p] = [cur |-> rating, peak |-> Higher(account[p].peak, rating)]
      /\ live'[p] = live[p] /\ snaps'[p] = snaps[p] /\ recorded'[p] = recorded[p]
      /\ game.at = now + 1 /\ game.old = account[p].cur /\ game.new = rating
  BY DEF TypeOK, Finish, Passes, config
<1> HIDE DEF n, game
<1>3. \A i \in 1..n : games[p][i].at \in Nat /\ games[p][i].at <= now
  BY <1>1, GameType DEF GamesInOrder
<1>4. \A i \in 0..n : RatingAfter(p, i)' = RatingAfter(p, i)
  BY <1>1 DEF RatingAfter
<1>5. GamesInOrder(p)'
  <2>1. ASSUME NEW i \in 1..(n + 1)
        PROVE  games'[p][i].at <= now' /\ games'[p][i].old = RatingAfter(p, i - 1)'
    <3>1. CASE i = n + 1
      <4>1. account[p].cur = RatingAfter(p, n)
        BY DEF GamesInOrder, n
      <4>2. i - 1 \in 0..n /\ i - 1 = n
        BY <1>1, <3>1
      <4>3. RatingAfter(p, i - 1)' = RatingAfter(p, n)
        BY <1>4, <4>2
      <4>4. games'[p][i] = game
        BY <1>1, <3>1
      <4> QED
        BY <1>2, <4>1, <4>3, <4>4
    <3>2. CASE i \in 1..n
      <4>1. i - 1 \in 0..n
        BY <1>1, <3>2
      <4>2. RatingAfter(p, i - 1)' = RatingAfter(p, i - 1)
        BY <1>4, <4>1
      <4>3. games[p][i].old = RatingAfter(p, i - 1)
        BY <1>1, <3>2 DEF GamesInOrder
      <4> QED
        BY <1>1, <1>2, <1>3, <3>2, <4>2, <4>3
    <3> QED
      BY <1>1, <3>1, <3>2
  <2>2. ASSUME NEW i \in 1..(n + 1), NEW j \in 1..(n + 1), i < j
        PROVE  games'[p][i].at < games'[p][j].at
    <3>1. CASE j = n + 1
      BY <1>1, <1>2, <1>3, <2>2, <3>1
    <3>2. CASE j \in 1..n
      <4>1. \A k, l \in 1..n : k < l => games[p][k].at < games[p][l].at
        BY <1>1 DEF GamesInOrder
      <4>2. i \in 1..n
        BY <1>1, <2>2, <3>2
      <4> QED
        BY <1>1, <2>2, <3>2, <4>1, <4>2
    <3> QED
      BY <1>1, <3>1, <3>2
  <2>3. account'[p].cur = RatingAfter(p, Len(games[p]))'
    BY <1>1, <1>2 DEF RatingAfter
  <2>4. recorded'[p] \subseteq DOMAIN games'[p]
    BY <1>1, <1>2 DEF GamesInOrder
  <2> QED
    BY <1>1, <2>1, <2>2, <2>3, <2>4 DEF GamesInOrder
<1>6. SnapsInOrder(p)'
  <2>1. ASSUME NEW i \in DOMAIN snaps[p]
        PROVE  /\ snaps'[p][i].at <= now'
               /\ \E k \in 0..(n + 1) :
                     /\ snaps'[p][i].row.cur = RatingAfter(p, k)'
                     /\ \A j \in 1..(n + 1) : games'[p][j].at <= snaps'[p][i].at <=> j <= k
    <3>1. snaps[p][i].at \in Nat /\ snaps[p][i].at <= now
      BY SnapType DEF SnapsInOrder
    <3>2. PICK k \in 0..n : /\ snaps[p][i].row.cur = RatingAfter(p, k)
                            /\ \A j \in 1..n : games[p][j].at <= snaps[p][i].at <=> j <= k
      BY <1>1 DEF SnapsInOrder, n
    <3>3. \A j \in 1..(n + 1) : games'[p][j].at <= snaps'[p][i].at <=> j <= k
      <4> SUFFICES ASSUME NEW j \in 1..(n + 1)
                   PROVE  games'[p][j].at <= snaps'[p][i].at <=> j <= k
        OBVIOUS
      <4>1. CASE j = n + 1
        BY <1>1, <1>2, <3>1, <3>2, <4>1
      <4>2. CASE j \in 1..n
        BY <1>1, <1>2, <3>2, <4>2
      <4> QED
        BY <1>1, <4>1, <4>2
    <3>4. RatingAfter(p, k)' = RatingAfter(p, k) /\ k \in 0..(n + 1)
      BY <1>1, <1>4, <3>2
    <3>5. snaps'[p][i].at <= now' /\ snaps'[p][i].row.cur = snaps[p][i].row.cur
      BY <1>2, <3>1
    <3> QED
      BY <3>2, <3>3, <3>4, <3>5
  <2>2. \A i, j \in DOMAIN snaps[p] : i < j => snaps[p][i].at < snaps[p][j].at
    BY DEF SnapsInOrder
  <2>3. snaps[p] # <<>> => recorder' <= now' /\ live[p] = snaps[p][Len(snaps[p])].row
    BY <1>2 DEF SnapsInOrder, TypeOK
  <2> QED
    BY <1>1, <1>2, <2>1, <2>2, <2>3 DEF SnapsInOrder
<1>7. PeaksInOrder(p)'
  <2> SUFFICES ASSUME p \notin rebased
               PROVE  PeaksInOrder(p)'
    BY <1>2 DEF PeaksInOrder
  <2>1. /\ rating \in Nat /\ account[p].peak \in Nat /\ Account0[p].peak \in Nat /\ live[p].peak \in Nat
        /\ \A i \in 1..n : games[p][i].new \in Nat
    BY <1>1, RatingType, PlayerType, GameType
  <2>2. account'[p].peak = Higher(account[p].peak, rating)
    BY <1>2
  <2>3. /\ Account0[p].peak <= account[p].peak
        /\ \A i \in 1..n : games[p][i].new <= account[p].peak
        /\ account[p].peak = Account0[p].peak \/ \E i \in 1..n : account[p].peak = games[p][i].new
    BY <1>1, <1>3 DEF PeaksInOrder, IsPeakAt
  <2>4. \A i \in 1..(n + 1) : games'[p][i].at <= now'
    BY <1>1, <1>5 DEF GamesInOrder
  <2>5. IsPeakAt(p, account[p].peak, now)'
    <3>1. \A i \in 1..(n + 1) : games'[p][i].new <= account'[p].peak
      <4> SUFFICES ASSUME NEW i \in 1..(n + 1)
                   PROVE  games'[p][i].new <= account'[p].peak
        OBVIOUS
      <4>1. CASE i = n + 1
        BY <1>1, <1>2, <2>1, <2>2, <4>1 DEF Higher
      <4>2. CASE i \in 1..n
        <5>1. games'[p][i] = games[p][i]
          BY <1>1, <4>2
        <5>2. games[p][i].new \in Nat /\ games[p][i].new <= account[p].peak
          BY <2>1, <2>3, <4>2
        <5>3. account'[p].peak \in Nat /\ account[p].peak <= account'[p].peak
          BY <2>1, <2>2 DEF Higher
        <5> QED
          BY <2>1, <5>1, <5>2, <5>3
      <4> QED
        BY <1>1, <4>1, <4>2
    <3>2. \/ account'[p].peak = Account0[p].peak
          \/ \E i \in 1..(n + 1) : account'[p].peak = games'[p][i].new
      <4>1. CASE account'[p].peak = rating
        BY <1>1, <1>2, <4>1
      <4>2. CASE account'[p].peak = account[p].peak
        BY <1>1, <2>3, <4>2
      <4> QED
        BY <2>2, <4>1, <4>2 DEF Higher
    <3>3. Account0[p].peak <= account'[p].peak
      BY <2>1, <2>2, <2>3 DEF Higher
    <3> QED
      BY <1>1, <2>4, <3>1, <3>2, <3>3 DEF IsPeakAt
  <2>6. live'[p].peak <= account'[p].peak
    BY <1>2, <2>1, <2>2 DEF PeaksInOrder, Higher
  <2>7. ASSUME NEW i \in DOMAIN snaps'[p]
        PROVE  IsPeakAt(p, snaps[p][i].row.peak, snaps[p][i].at)'
    <3>1. /\ snaps[p][i].at \in Nat /\ snaps[p][i].at <= now
          /\ IsPeakAt(p, snaps[p][i].row.peak, snaps[p][i].at)
      BY <1>2, <2>7, SnapType DEF SnapsInOrder, PeaksInOrder
    <3>2. ~(games'[p][n + 1].at <= snaps[p][i].at)
      BY <1>1, <1>2, <3>1
    <3>3. \A j \in 1..(n + 1) : j = n + 1 \/ j \in 1..n
      BY <1>1
    <3>4. /\ Account0[p].peak <= snaps[p][i].row.peak
          /\ \A j \in 1..n : games[p][j].at <= snaps[p][i].at => games[p][j].new <= snaps[p][i].row.peak
          /\ \/ snaps[p][i].row.peak = Account0[p].peak
             \/ \E j \in 1..n : /\ games[p][j].at <= snaps[p][i].at
                                /\ snaps[p][i].row.peak = games[p][j].new
      BY <1>1, <3>1 DEF IsPeakAt
    <3>5. \A j \in 1..(n + 1) :
             games'[p][j].at <= snaps[p][i].at => games'[p][j].new <= snaps[p][i].row.peak
      BY <1>1, <3>2, <3>3, <3>4
    <3>6. \/ snaps[p][i].row.peak = Account0[p].peak
          \/ \E j \in 1..(n + 1) : /\ games'[p][j].at <= snaps[p][i].at
                                   /\ snaps[p][i].row.peak = games'[p][j].new
      BY <1>1, <3>4
    <3> QED
      BY <1>1, <1>2, <3>4, <3>5, <3>6 DEF IsPeakAt
  <2> QED
    BY <2>5, <2>6, <2>7 DEF PeaksInOrder
<1>8. HasTop(p)'
  <2>1. PICK top \in Ratings \union {0} :
           /\ Account0[p].peak <= top /\ account[p].peak <= top /\ live[p].peak <= top
           /\ \A i \in 1..n : games[p][i].new <= top
           /\ \A i \in DOMAIN snaps[p] : snaps[p][i].row.peak <= top
    BY <1>1 DEF HasTop
  <2>2. /\ rating \in Nat /\ rating > 0 /\ account[p].peak \in Nat /\ Account0[p].peak \in Nat
        /\ live[p].peak \in Nat /\ top \in Nat
        /\ \A i \in 1..n : games[p][i].new \in Nat
        /\ \A i \in DOMAIN snaps[p] : snaps[p][i].row.peak \in Nat
    BY <1>1, RatingType, PlayerType, GameType, SnapType
  <2>3. PICK high \in Ratings \union {0} : high \in Nat /\ top <= high /\ rating <= high
    BY <2>2
  <2>4. \A i \in 1..(n + 1) : games'[p][i].new <= high
    <3> SUFFICES ASSUME NEW i \in 1..(n + 1)
                 PROVE  games'[p][i].new <= high
      OBVIOUS
    <3>1. CASE i = n + 1
      BY <1>1, <1>2, <2>3, <3>1
    <3>2. CASE i \in 1..n
      BY <1>1, <2>1, <2>2, <2>3, <3>2
    <3> QED
      BY <1>1, <3>1, <3>2
  <2>5. /\ Account0[p].peak <= high /\ account'[p].peak <= high /\ live'[p].peak <= high
        /\ \A i \in DOMAIN snaps[p] : snaps[p][i].row.peak <= high
    BY <1>2, <2>1, <2>2, <2>3 DEF Higher
  <2> QED
    BY <1>1, <1>2, <2>4, <2>5 DEF HasTop
<1> QED
  BY <1>5, <1>6, <1>7, <1>8

LEMMA RebaseInv ==
    ASSUME TypeOK, NEW p \in Players, InOrder(p), Rebase(p)
    PROVE  InOrder(p)'
<1> USE DEF InOrder
<1>1. /\ account'[p].cur = account[p].cur /\ p \in rebased' /\ games' = games /\ snaps' = snaps
      /\ live' = live /\ recorded' = recorded /\ now' = now /\ recorder' = recorder
  BY RebaseType DEF Rebase, Row, config
<1>2. GamesInOrder(p)'
  BY <1>1 DEF GamesInOrder, RatingAfter
<1>3. SnapsInOrder(p)'
  BY <1>1 DEF SnapsInOrder, RatingAfter
<1>4. PeaksInOrder(p)'
  BY <1>1 DEF PeaksInOrder
<1>5. HasTop(p)'
  <2>1. account[p].cur < account[p].peak /\ account'[p].peak = account[p].cur
    <3>1. account[p] \in Row /\ account'[p] = [account[p] EXCEPT !.peak = account[p].cur]
      BY RebaseType
    <3> QED
      BY <3>1 DEF Rebase, Row
  <2>2. PICK top \in Ratings \union {0} :
           /\ Account0[p].peak <= top /\ account[p].peak <= top /\ live[p].peak <= top
           /\ \A i \in DOMAIN games[p] : games[p][i].new <= top
           /\ \A i \in DOMAIN snaps[p] : snaps[p][i].row.peak <= top
    BY DEF HasTop
  <2>3. account'[p].peak <= top
    BY <2>1, <2>2, PlayerType, RatingType
  <2> QED
    BY <1>1, <2>2, <2>3 DEF HasTop
<1> QED
  BY <1>2, <1>3, <1>4, <1>5

(* A tick of the stats poller: its snapshot comes after every game so far. *)
LEMMA PollInv ==
    ASSUME TypeOK, NEW p \in Players, InOrder(p), Poll
    PROVE  InOrder(p)'
<1> USE DEF InOrder
<1> DEFINE m == Len(snaps[p])
           snap == [at |-> now + 1, row |-> account[p]]
           Takes == ~(account[p] \in {NoRow, LastSnap(p)} \/ now + 1 < recorder)
<1>1. /\ now \in Nat /\ now' = now + 1 /\ recorder \in Nat /\ recorder' = recorder
      /\ account' = account /\ games' = games /\ recorded' = recorded /\ rebased' = rebased
      /\ live'[p] = IF account[p] # NoRow THEN account[p] ELSE live[p]
      /\ snaps'[p] = IF Takes THEN Append(snaps[p], snap) ELSE snaps[p]
  BY DEF TypeOK, Poll, Passes, config
<1>2. GamesInOrder(p)'
  BY <1>1, GameType DEF GamesInOrder, RatingAfter
<1>3. ASSUME p \notin rebased
      PROVE  /\ IsPeakAt(p, account[p].peak, now)' /\ live'[p].peak <= account'[p].peak
             /\ \A x \in Nat : x > now => \A i \in DOMAIN games[p] : games[p][i].at <= x
             /\ \A b \in Nat : b > now => IsPeakAt(p, account[p].peak, b)
  <2>1. /\ IsPeakAt(p, account[p].peak, now) /\ live[p].peak <= account[p].peak
        /\ account[p].peak \in Nat
    BY <1>3, PlayerType DEF PeaksInOrder
  <2>2. \A x \in Nat : x > now => \A i \in DOMAIN games[p] : games[p][i].at <= x
    BY <1>1, GameType DEF GamesInOrder
  <2>3. \A b \in Nat : b > now => IsPeakAt(p, account[p].peak, b)
    BY <2>1, <2>2 DEF GamesInOrder, IsPeakAt
  <2>4. IsPeakAt(p, account[p].peak, now + 1)
    BY <1>1, <2>3
  <2>5. IsPeakAt(p, account[p].peak, now)'
    BY <1>1, <2>4 DEF IsPeakAt
  <2> QED
    BY <1>1, <2>1, <2>2, <2>3, <2>5
<1>4. PICK top \in Ratings \union {0} :
         /\ Account0[p].peak <= top /\ account[p].peak <= top /\ live[p].peak <= top
         /\ \A i \in DOMAIN games[p] : games[p][i].new <= top
         /\ \A i \in DOMAIN snaps[p] : snaps[p][i].row.peak <= top
  BY DEF HasTop
<1>5. CASE ~Takes
  <2>1. snaps'[p] = snaps[p]
    BY <1>1, <1>5
  <2>2. snaps[p] # <<>> => recorder <= now /\ live'[p] = snaps[p][m].row
    <3> SUFFICES ASSUME snaps[p] # <<>>
                 PROVE  recorder <= now /\ live'[p] = snaps[p][m].row
      OBVIOUS
    <3>1. recorder <= now /\ live[p] = snaps[p][m].row
      BY DEF SnapsInOrder
    <3>2. account[p] = NoRow \/ account[p] = snaps[p][m].row
      BY <1>1, <1>5, <3>1 DEF LastSnap
    <3> QED
      BY <1>1, <3>1, <3>2
  <2>3. SnapsInOrder(p)'
    <3>1. ASSUME NEW i \in DOMAIN snaps[p]
          PROVE  /\ snaps[p][i].at <= now'
                 /\ \E k \in 0..Len(games[p]) :
                       /\ snaps[p][i].row.cur = RatingAfter(p, k)'
                       /\ \A j \in DOMAIN games[p] : games[p][j].at <= snaps[p][i].at <=> j <= k
      <4>1. snaps[p][i].at \in Nat /\ snaps[p][i].at <= now
        BY SnapType DEF SnapsInOrder
      <4> QED
        BY <1>1, <4>1 DEF SnapsInOrder, RatingAfter
    <3>2. \A i, j \in DOMAIN snaps[p] : i < j => snaps[p][i].at < snaps[p][j].at
      BY DEF SnapsInOrder
    <3>3. snaps'[p] # <<>> => recorder' <= now' /\ live'[p] = snaps'[p][Len(snaps'[p])].row
      BY <1>1, <2>1, <2>2
    <3> HIDE DEF m, snap, Takes
    <3> QED
      BY <1>1, <2>1, <3>1, <3>2, <3>3 DEF SnapsInOrder
  <2>4. PeaksInOrder(p)'
    BY <1>1, <1>3, <2>1 DEF PeaksInOrder, IsPeakAt
  <2>5. HasTop(p)'
    BY <1>1, <1>4, <2>1 DEF HasTop
  <2> QED
    BY <1>2, <2>3, <2>4, <2>5
<1>6. CASE Takes
  <2>1. /\ m \in Nat /\ snaps'[p] = Append(snaps[p], snap) /\ Len(snaps'[p]) = m + 1
        /\ DOMAIN snaps[p] = 1..m /\ DOMAIN snaps'[p] = 1..(m + 1)
        /\ \A i \in 1..m : snaps'[p][i] = snaps[p][i]
        /\ snaps'[p][m + 1] = snap
    <3>1. snaps[p] \in Seq(Snap) /\ snaps'[p] = Append(snaps[p], snap)
      BY <1>1, <1>6 DEF TypeOK
    <3> HIDE DEF snap
    <3> QED
      BY <3>1
  <2>2. account[p] # NoRow /\ recorder <= now + 1 /\ live'[p] = account[p]
    BY <1>1, <1>6
  <2>3. snap.at = now + 1 /\ snap.row = account[p]
    OBVIOUS
  <2> HIDE DEF m, snap, Takes
  <2>4. \A i \in 1..m : snaps[p][i].at \in Nat /\ snaps[p][i].at <= now
    BY <2>1, SnapType DEF SnapsInOrder
  <2>5. SnapsInOrder(p)'
    <3>1. ASSUME NEW i \in 1..(m + 1)
          PROVE  /\ snaps'[p][i].at <= now'
                 /\ \E k \in 0..Len(games[p]) :
                       /\ snaps'[p][i].row.cur = RatingAfter(p, k)'
                       /\ \A j \in DOMAIN games[p] : games[p][j].at <= snaps'[p][i].at <=> j <= k
      <4>1. CASE i = m + 1
        <5>1. account[p].cur = RatingAfter(p, Len(games[p]))
          BY DEF GamesInOrder
        <5>2. \A j \in DOMAIN games[p] : games[p][j].at <= now + 1 /\ j <= Len(games[p])
          BY <1>1, GameType DEF GamesInOrder
        <5>3. Len(games[p]) \in 0..Len(games[p])
          BY GameType
        <5> QED
          BY <1>1, <2>1, <2>3, <4>1, <5>1, <5>2, <5>3 DEF RatingAfter
      <4>2. CASE i \in 1..m
        <5>1. PICK k \in 0..Len(games[p]) :
                 /\ snaps[p][i].row.cur = RatingAfter(p, k)
                 /\ \A j \in DOMAIN games[p] : games[p][j].at <= snaps[p][i].at <=> j <= k
          BY <2>1, <4>2 DEF SnapsInOrder
        <5>2. RatingAfter(p, k)' = RatingAfter(p, k)
          BY <1>1 DEF RatingAfter
        <5>3. snaps[p][i].at <= now'
          BY <1>1, <2>4, <4>2
        <5> QED
          BY <2>1, <4>2, <5>1, <5>2, <5>3
      <4> QED
        BY <2>1, <4>1, <4>2
    <3>2. ASSUME NEW i \in 1..(m + 1), NEW j \in 1..(m + 1), i < j
          PROVE  snaps'[p][i].at < snaps'[p][j].at
      <4>1. CASE j = m + 1
        BY <1>1, <2>1, <2>3, <2>4, <3>2, <4>1
      <4>2. CASE j \in 1..m
        <5>1. \A k, l \in 1..m : k < l => snaps[p][k].at < snaps[p][l].at
          BY <2>1 DEF SnapsInOrder
        <5> QED
          BY <2>1, <3>2, <4>2, <5>1
      <4> QED
        BY <2>1, <4>1, <4>2
    <3> QED
      BY <1>1, <2>1, <2>2, <2>3, <3>1, <3>2 DEF SnapsInOrder
  <2>6. PeaksInOrder(p)'
    <3> SUFFICES ASSUME p \notin rebased
                 PROVE  PeaksInOrder(p)'
      BY <1>1 DEF PeaksInOrder
    <3>1. ASSUME NEW i \in 1..(m + 1)
          PROVE  IsPeakAt(p, snaps'[p][i].row.peak, snaps'[p][i].at)
      <4>1. CASE i = m + 1
        <5>1. IsPeakAt(p, account[p].peak, now + 1)
          BY <1>1, <1>3
        <5> QED
          BY <2>1, <2>3, <4>1, <5>1
      <4>2. CASE i \in 1..m
        BY <2>1, <4>2 DEF PeaksInOrder
      <4> QED
        BY <2>1, <4>1, <4>2
    <3>2. \A i \in 1..(m + 1) : IsPeakAt(p, snaps[p][i].row.peak, snaps[p][i].at)'
      BY <1>1, <3>1 DEF IsPeakAt
    <3> QED
      BY <1>1, <1>3, <2>1, <3>2 DEF PeaksInOrder
  <2>7. HasTop(p)'
    <3>1. \A i \in 1..(m + 1) : snaps'[p][i].row.peak <= top
      <4> SUFFICES ASSUME NEW i \in 1..(m + 1)
                   PROVE  snaps'[p][i].row.peak <= top
        OBVIOUS
      <4>1. CASE i = m + 1
        BY <1>4, <2>1, <2>3, <4>1
      <4>2. CASE i \in 1..m
        BY <1>4, <2>1, <4>2
      <4> QED
        BY <2>1, <4>1, <4>2
    <3> QED
      BY <1>1, <1>4, <2>1, <2>2, <3>1 DEF HasTop
  <2> QED
    BY <1>2, <2>5, <2>6, <2>7
<1> QED
  BY <1>5, <1>6

LEMMA NextInv == IInv /\ [Next]_vars => IInv'
<1> SUFFICES ASSUME IInv, [Next]_vars
             PROVE  IInv'
  OBVIOUS
<1>1. TypeOK /\ now \in Nat /\ \A q \in Players : InOrder(q)
  BY DEF IInv, TypeOK, InOrder
<1>2. ASSUME TypeOK', \A q \in Players : InOrder(q)'
      PROVE  IInv'
  BY <1>2 DEF IInv, InOrder
<1>3. CASE Quiet \/ UNCHANGED vars
  <2>1. TypeOK'
    BY <1>1, <1>3 DEF Quiet, Passes, TypeOK, vars, config
  <2>2. ASSUME NEW q \in Players
        PROVE  InOrder(q)'
    <3>1. recorded[q] \subseteq DOMAIN games[q] /\ now' \in Nat /\ now <= now'
      BY <1>1, <1>3 DEF InOrder, GamesInOrder, Quiet, Passes, vars
    <3> QED
      BY <1>1, <1>3, <3>1, Frame DEF Quiet, vars, config
  <2> QED
    BY <1>2, <2>1, <2>2
<1>4. CASE Poll
  BY <1>1, <1>2, <1>4, PollType, PollInv
<1>5. ASSUME NEW p \in Players, NEW rating \in Ratings, Finish(p, rating)
      PROVE  IInv'
  <2>1. ASSUME NEW q \in Players
        PROVE  InOrder(q)'
    <3>1. CASE q = p
      BY <1>1, <1>5, <3>1, FinishInv
    <3>2. CASE q # p
      <4>1. /\ games'[q] = games[q] /\ account'[q] = account[q] /\ live' = live /\ snaps' = snaps
            /\ recorded' = recorded /\ rebased' = rebased /\ recorder' = recorder
            /\ now' \in Nat /\ now <= now'
        BY <1>1, <1>5, <3>2 DEF Finish, Passes, TypeOK, config
      <4>2. recorded[q] \subseteq DOMAIN games[q]
        BY <1>1 DEF InOrder, GamesInOrder
      <4> QED
        BY <1>1, <4>1, <4>2, Frame
    <3> QED
      BY <3>1, <3>2
  <2> QED
    BY <1>1, <1>2, <1>5, <2>1, FinishType
<1>6. ASSUME NEW p \in Players, Rebase(p)
      PROVE  IInv'
  <2>1. ASSUME NEW q \in Players
        PROVE  InOrder(q)'
    <3>1. CASE q = p
      BY <1>1, <1>6, <3>1, RebaseInv
    <3>2. CASE q # p
      <4>1. /\ games' = games /\ account'[q] = account[q] /\ live' = live /\ snaps' = snaps
            /\ recorded' = recorded /\ rebased \subseteq rebased' /\ recorder' = recorder /\ now' = now
        BY <1>1, <1>6, <3>2 DEF Rebase, TypeOK, config
      <4>2. recorded[q] \subseteq DOMAIN games[q]
        BY <1>1 DEF InOrder, GamesInOrder
      <4> QED
        BY <1>1, <4>1, <4>2, Frame
    <3> QED
      BY <3>1, <3>2
  <2> QED
    BY <1>1, <1>2, <1>6, <2>1, RebaseType
<1>7. ASSUME NEW p \in Players, NEW i \in 1..MaxGames[p], Record(p, i)
      PROVE  IInv'
  <2>0. i \in Nat
    BY ConstantsAssumption
  <2>1. ASSUME NEW q \in Players
        PROVE  InOrder(q)'
    <3>1. /\ games' = games /\ account' = account /\ live' = live /\ snaps' = snaps
          /\ rebased' = rebased /\ recorder' = recorder /\ now' = now
      BY <1>7 DEF Record, config
    <3>2. recorded'[q] \subseteq DOMAIN games[q]
      <4>1. recorded[q] \subseteq DOMAIN games[q] /\ i \in DOMAIN games[p]
        BY <1>1, <1>7 DEF InOrder, GamesInOrder, Record
      <4> QED
        BY <1>1, <1>7, <4>1 DEF Record, TypeOK
    <3> QED
      BY <1>1, <3>1, <3>2, Frame
  <2> QED
    BY <1>1, <1>2, <1>7, <2>0, <2>1, RecordType
<1> QED
  BY <1>3, <1>4, <1>5, <1>6, <1>7 DEF Next

(* Of each player, the games follow one another up to what upstream        *)
(* reports; a snapshot has the ratings of its time, and the last is the    *)
(* live row; and while upstream has not lowered it, a peak is the highest  *)
(* rating held so far.                                                     *)
THEOREM Invariance == Spec => []IInv
  BY InitInv, NextInv, PTL DEF Spec

-----------------------------------------------------------------------------
(* Games and snapshots by their numbers.                                   *)
LEMMA PlayerInv ==
    ASSUME IInv, NEW p \in Players
    PROVE  TypeOK /\ GamesInOrder(p) /\ SnapsInOrder(p) /\ PeaksInOrder(p) /\ HasTop(p)
  BY DEF IInv

LEMMA LastOf ==
    ASSUME NEW n \in Nat, NEW S \in SUBSET (1..n), S # {}
    PROVE  Max(S) \in S /\ \A i \in S : i <= Max(S)
<1>1. S \subseteq Nat /\ \A i \in S : i <= n
  OBVIOUS
<1> QED
  BY <1>1, MaxOf

LEMMA GamesAre ==
    ASSUME IInv, NEW p \in Players
    PROVE  /\ \A i \in Charted(p) : /\ i \in recorded[p] /\ i \in DOMAIN games[p]
                                    /\ Start < games[p][i].at /\ games[p][i].at <= End + 1
           /\ \A i \in Earlier(p) : /\ i \in recorded[p] /\ i \in DOMAIN games[p]
                                    /\ games[p][i].at <= Start
           /\ \A i \in recorded[p] : /\ i \in DOMAIN games[p]
                                     /\ i \in Charted(p) \/ i \in Earlier(p) \/ games[p][i].at > End + 1
<1>1. recorded[p] \subseteq DOMAIN games[p] /\ \A i \in DOMAIN games[p] : games[p][i].at \in Nat
  BY PlayerInv, GameType DEF GamesInOrder
<1> QED
  BY <1>1, WindowType DEF Charted, Earlier, Began

(* Who is charted from a game on held the rating of the game before. *)
LEMMA HeldBefore ==
    ASSUME IInv, NEW p \in Players, NEW i \in DOMAIN games[p]
    PROVE  /\ games[p][i].old \in Nat
           /\ \/ games[p][i].old = Account0[p].cur /\ i = 1
              \/ /\ i - 1 \in DOMAIN games[p] /\ games[p][i].old = games[p][i - 1].new
                 /\ games[p][i - 1].at < games[p][i].at
<1>1. /\ games[p][i].old = RatingAfter(p, i - 1)
      /\ \A k, l \in DOMAIN games[p] : k < l => games[p][k].at < games[p][l].at
  BY PlayerInv DEF GamesInOrder
<1>2. i \in Nat /\ games[p][i].old \in Nat /\ i \in 1..Len(games[p]) /\ Len(games[p]) \in Nat
      /\ DOMAIN games[p] = 1..Len(games[p])
  BY PlayerInv, GameType
<1>3. CASE i = 1
  BY <1>1, <1>2, <1>3 DEF RatingAfter
<1>4. CASE i # 1
  <2>1. i - 1 \in DOMAIN games[p] /\ i - 1 < i /\ i - 1 # 0
    BY <1>2, <1>4
  <2> QED
    BY <1>1, <1>2, <2>1 DEF RatingAfter
<1> QED
  BY <1>3, <1>4

(* The rating held entering the window: without a gap in the log it is the *)
(* one before the first game, or that of the last game before the window.  *)
LEMMA EntryIs ==
    ASSUME IInv, NEW p \in Players, Gapless(p)
    PROVE  /\ EntryRating(p) \in Nat
           /\ \/ EntryRating(p) = 0
              \/ EntryRating(p) = Account0[p].cur
              \/ \E i \in Earlier(p) : EntryRating(p) = games[p][i].new
<1>1. CASE Charted(p) = {}
  BY <1>1 DEF EntryRating
<1>2. CASE Charted(p) # {}
  <2> DEFINE i == Min(Charted(p))
  <2>1. i \in Charted(p) /\ \A j \in Charted(p) : i <= j
    <3>1. Charted(p) \subseteq Nat
      BY PlayerInv, GameType, GamesAre
    <3> QED
      BY <1>2, <3>1, MinOf
  <2>2. EntryRating(p) = games[p][i].old
    BY <1>2 DEF EntryRating
  <2> HIDE DEF i
  <2>3. i \in DOMAIN games[p] /\ i \in recorded[p] /\ games[p][i].at <= End + 1 /\ i \in Nat
        /\ games[p][i].at \in Nat
    BY <2>1, PlayerInv, GameType, GamesAre
  <2>4. CASE i = 1
    BY <2>2, <2>3, <2>4, HeldBefore, PlayerInv, GameType
  <2>5. CASE i # 1
    <3>1. /\ i - 1 \in DOMAIN games[p] /\ games[p][i].old = games[p][i - 1].new
          /\ games[p][i - 1].at < games[p][i].at /\ games[p][i].old \in Nat
      BY <2>3, <2>5, HeldBefore
    <3>2. i - 1 \in recorded[p] /\ games[p][i - 1].at \in Nat
      <4>1. i - 1 \in 1..i
        BY <2>3, <3>1, PlayerInv, GameType
      <4> QED
        BY <2>3, <3>1, <4>1, PlayerInv, GameType DEF Gapless
    <3>3. i - 1 \notin Charted(p)
      BY <2>1, <2>3
    <3>4. i - 1 \in Earlier(p)
      BY <2>3, <3>1, <3>2, <3>3, GamesAre, WindowType
    <3> QED
      BY <2>2, <3>1, <3>4
  <2> QED
    BY <2>4, <2>5
<1> QED
  BY <1>1, <1>2

(* What was observed of a player. *)
LEMMA SnapsAre ==
    ASSUME IInv, NEW p \in Players
    PROVE  /\ SnapsBefore(p) \in SUBSET (1..Len(snaps[p]))
           /\ SnapsWithin(p) \in SUBSET (1..Len(snaps[p]))
           /\ SeenByEnd(p) \in SUBSET (1..Len(snaps[p]))
           /\ SeenByEnd(p) = SnapsBefore(p) \union SnapsWithin(p)
           /\ \A i \in SnapsBefore(p), j \in SnapsWithin(p) : i < j
           /\ SnapsBefore(p) # {} => Max(SnapsBefore(p)) \in SnapsBefore(p)
           /\ SnapsWithin(p) # {} => Min(SnapsWithin(p)) \in SnapsWithin(p)
           /\ SnapsWithin(p) # {} => Max(SnapsWithin(p)) \in SnapsWithin(p)
<1>1. /\ DOMAIN snaps[p] = 1..Len(snaps[p]) /\ Len(snaps[p]) \in Nat
      /\ \A i \in DOMAIN snaps[p] : i \in Nat /\ snaps[p][i].at \in Nat
  BY PlayerInv, SnapType
<1>2. \A i, j \in DOMAIN snaps[p] : i < j => snaps[p][i].at < snaps[p][j].at
  BY PlayerInv DEF SnapsInOrder
<1>3. SnapsBefore(p) \in SUBSET (1..Len(snaps[p])) /\ SnapsWithin(p) \in SUBSET (1..Len(snaps[p]))
      /\ SeenByEnd(p) \in SUBSET (1..Len(snaps[p]))
  BY <1>1 DEF SnapsBefore, SnapsWithin, SeenByEnd
<1>4. SeenByEnd(p) = SnapsBefore(p) \union SnapsWithin(p)
  BY <1>1, WindowType DEF SnapsBefore, SnapsWithin, SeenByEnd
<1>5. ASSUME NEW i \in SnapsBefore(p), NEW j \in SnapsWithin(p)
      PROVE  i < j
  <2>1. /\ i \in DOMAIN snaps[p] /\ j \in DOMAIN snaps[p]
        /\ snaps[p][i].at <= Start /\ Start < snaps[p][j].at
    BY DEF SnapsBefore, SnapsWithin
  <2>2. i = j \/ j < i \/ i < j
    BY <1>1, <2>1
  <2> QED
    BY <1>1, <1>2, <2>1, <2>2, WindowType
<1>6. SnapsBefore(p) # {} => Max(SnapsBefore(p)) \in SnapsBefore(p)
  BY <1>1, <1>3, LastOf
<1>7. SnapsWithin(p) # {} => Min(SnapsWithin(p)) \in SnapsWithin(p)
  <2>1. SnapsWithin(p) \subseteq Nat
    BY <1>1, <1>3
  <2> QED
    BY <2>1, MinOf
<1>8. SnapsWithin(p) # {} => Max(SnapsWithin(p)) \in SnapsWithin(p)
  BY <1>1, <1>3, LastOf
<1> QED
  BY <1>3, <1>4, <1>5, <1>6, <1>7, <1>8

LEMMA MetricType ==
    ASSUME NEW row \in Row \union {NoRow}
    PROVE  /\ Metric(row) \in Nat /\ Other(row) \in Nat
           /\ row \in Row => Metric(row) > 0
           /\ Peak => Metric(row) = row.peak /\ Other(row) = row.cur
           /\ ~Peak => Metric(row) = row.cur /\ Other(row) = row.peak
  BY RowType DEF Metric, Other

(* Where a line begins is what was observed, if anything was.              *)
LEMMA BaselineIs ==
    ASSUME IInv, NEW p \in Players
    PROVE  /\ SnapBaseline(p) \in Nat
           /\ SeenByEnd(p) = {} => SnapBaseline(p) = 0
           /\ SeenByEnd(p) # {} =>
                 /\ SnapBaseline(p) > 0
                 /\ \E i \in SeenByEnd(p) :
                       /\ SnapBaseline(p) = Metric(snaps[p][i].row)
                       /\ i = IF SnapsBefore(p) # {} THEN Max(SnapsBefore(p)) ELSE Min(SnapsWithin(p))
<1>1. \A i \in SeenByEnd(p) : /\ snaps[p][i].row \in Row
                              /\ Metric(snaps[p][i].row) \in Nat /\ Metric(snaps[p][i].row) > 0
  <2>1. \A i \in SeenByEnd(p) : snaps[p][i].row \in Row
    BY SnapsAre, PlayerInv, SnapType
  <2> QED
    BY <2>1, MetricType
<1>2. CASE SnapsBefore(p) # {}
  <2>1. Max(SnapsBefore(p)) \in SeenByEnd(p)
    BY <1>2, SnapsAre
  <2> QED
    BY <1>1, <1>2, <2>1 DEF SnapBaseline
<1>3. CASE SnapsBefore(p) = {} /\ SnapsWithin(p) # {}
  <2>1. Min(SnapsWithin(p)) \in SeenByEnd(p)
    BY <1>3, SnapsAre
  <2> QED
    BY <1>1, <1>3, <2>1 DEF SnapBaseline
<1>4. CASE SnapsBefore(p) = {} /\ SnapsWithin(p) = {}
  BY <1>4, SnapsAre DEF SnapBaseline
<1> QED
  BY <1>2, <1>3, <1>4

-----------------------------------------------------------------------------
(* No peak before it is earned.                                            *)

(* The true peak bounds every rating held by then. *)
LEMMA TruePeakIs ==
    ASSUME IInv, NEW p \in Players, p \notin rebased, NEW b \in Nat
    PROVE  /\ TruePeak(p, b) \in Nat /\ Account0[p].peak <= TruePeak(p, b)
           /\ \A i \in DOMAIN games[p] : games[p][i].at <= b => games[p][i].new <= TruePeak(p, b)
           /\ \A x, t \in Nat : IsPeakAt(p, x, t) /\ t <= b => x <= TruePeak(p, b)
<1> DEFINE S == {Account0[p].peak}
                    \union {games[p][i].new : i \in {j \in DOMAIN games[p] : games[p][j].at <= b}}
<1>1. S \subseteq Nat /\ \A x \in S : x <= account[p].peak
  <2>1. IsPeakAt(p, account[p].peak, now) /\ \A i \in DOMAIN games[p] : games[p][i].at <= now
    BY PlayerInv DEF PeaksInOrder, GamesInOrder
  <2> QED
    BY <2>1, PlayerInv, PlayerType, GameType DEF IsPeakAt
<1>2. account[p].peak \in Nat
  BY PlayerInv, PlayerType
<1>3. Highest(S) \in Nat /\ \A y \in S : y <= Highest(S)
  <2> HIDE DEF S
  <2> QED
    BY <1>1, <1>2, HighestOf
<1>4. TruePeak(p, b) = Highest(S)
  BY DEF TruePeak
<1>5. \A i \in DOMAIN games[p] : games[p][i].at <= b => games[p][i].new <= TruePeak(p, b)
  BY <1>3, <1>4
<1>6. Account0[p].peak <= TruePeak(p, b)
  BY <1>3, <1>4
<1>7. ASSUME NEW x \in Nat, NEW t \in Nat, IsPeakAt(p, x, t), t <= b
      PROVE  x <= TruePeak(p, b)
  <2>1. \A i \in DOMAIN games[p] : games[p][i].at \in Nat
    BY PlayerInv, GameType
  <2> QED
    BY <1>5, <1>6, <1>7, <2>1 DEF IsPeakAt
<1> QED
  BY <1>3, <1>4, <1>5, <1>6, <1>7

(* What a line is made of, and that it is no more. *)
LEMMA LineIs ==
    ASSUME IInv, NEW p \in Players, NEW b \in Nat, BaselinePeak(p) \in Nat, NEW top \in Nat,
           BaselinePeak(p) <= top,
           \A i \in ChartedBy(p, b) : games[p][i].new <= top,
           \A i \in SnapsBy(p, b) : snaps[p][i].row.peak <= top
    PROVE  \E peak \in Nat :
              /\ peak <= top /\ BaselinePeak(p) <= peak
              /\ \A i \in ChartedBy(p, b) : games[p][i].new <= peak
              /\ \A i \in SnapsBy(p, b) : snaps[p][i].row.peak <= peak
              /\ PeakAt(p, b) = IF live[p] # NoRow THEN Lower(peak, live[p].peak) ELSE peak
<1> DEFINE S == {BaselinePeak(p)} \union {games[p][i].new : i \in ChartedBy(p, b)}
                    \union {snaps[p][i].row.peak : i \in SnapsBy(p, b)}
<1>1. S \subseteq Nat /\ \A x \in S : x <= top
  <2>1. \A i \in ChartedBy(p, b) : games[p][i].new \in Nat
    BY PlayerInv, GamesAre, GameType DEF ChartedBy
  <2>2. \A i \in SnapsBy(p, b) : snaps[p][i].row.peak \in Nat
    BY PlayerInv, SnapType DEF SnapsBy, SnapsWithin
  <2> QED
    BY <2>1, <2>2
<1>2. Highest(S) \in Nat /\ Highest(S) \in S \union {0} /\ \A y \in S : y <= Highest(S)
  <2> HIDE DEF S
  <2> QED
    BY <1>1, HighestOf
<1>3. Highest(S) <= top
  <2> HIDE DEF S
  <2> QED
    BY <1>1, <1>2
<1>4. PeakAt(p, b) = IF live[p] # NoRow THEN Lower(Highest(S), live[p].peak) ELSE Highest(S)
  BY DEF PeakAt
<1>5. /\ BaselinePeak(p) \in S
      /\ \A i \in ChartedBy(p, b) : games[p][i].new \in S
      /\ \A i \in SnapsBy(p, b) : snaps[p][i].row.peak \in S
  OBVIOUS
<1> HIDE DEF S
<1> QED
  BY <1>2, <1>3, <1>4, <1>5

(* What is carried in from before the window was held there. *)
LEMMA PreEventIs ==
    ASSUME IInv, NEW p \in Players, p \notin rebased, NEW b \in Nat, Start <= b
    PROVE  PreEventPeak(p) \in Nat /\ PreEventPeak(p) <= TruePeak(p, b)
<1> DEFINE held(i) == Higher(games[p][i].old, games[p][i].new)
           kept == {j \in Earlier(p) : \A k \in Earlier(p) : k >= j => held(k) <= live[p].peak}
           S == {held(i) : i \in kept}
<1>1. ASSUME NEW i \in Earlier(p)
      PROVE  held(i) \in Nat /\ held(i) <= TruePeak(p, b)
  <2>1. i \in DOMAIN games[p] /\ games[p][i].at <= Start /\ games[p][i].at \in Nat
        /\ games[p][i].new \in Nat
    BY GamesAre, PlayerInv, GameType
  <2>2. games[p][i].new <= TruePeak(p, b) /\ TruePeak(p, b) \in Nat
    BY <2>1, TruePeakIs, WindowType
  <2>3. games[p][i].old \in Nat /\ games[p][i].old <= TruePeak(p, b)
    <3>1. CASE games[p][i].old = Account0[p].cur
      BY <2>1, <2>2, <3>1, TruePeakIs, PlayerInv, PlayerType
    <3>2. CASE /\ i - 1 \in DOMAIN games[p] /\ games[p][i].old = games[p][i - 1].new
               /\ games[p][i - 1].at < games[p][i].at
      <4>1. games[p][i - 1].at \in Nat /\ games[p][i - 1].at <= b /\ games[p][i - 1].new \in Nat
        BY <2>1, <3>2, PlayerInv, GameType, WindowType
      <4> QED
        BY <3>2, <4>1, TruePeakIs
    <3> QED
      BY <2>1, <3>1, <3>2, HeldBefore
  <2> QED
    BY <2>1, <2>2, <2>3 DEF Higher
<1>2. TruePeak(p, b) \in Nat
  BY TruePeakIs
<1>3. S \subseteq Nat /\ \A x \in S : x <= TruePeak(p, b)
  <2> HIDE DEF held
  <2> QED
    BY <1>1
<1>4. Highest(S) \in Nat /\ Highest(S) \in S \union {0}
  <2> HIDE DEF S
  <2> QED
    BY <1>2, <1>3, HighestOf
<1>5. PreEventPeak(p) = Highest(S)
  BY DEF PreEventPeak
<1> HIDE DEF S
<1> QED
  BY <1>2, <1>3, <1>4, <1>5

(* Observed by a time, a peak was true then. *)
LEMMA ObservedIsTrue ==
    ASSUME IInv, NEW p \in Players, p \notin rebased, NEW i \in DOMAIN snaps[p], NEW b \in Nat,
           snaps[p][i].at <= b
    PROVE  snaps[p][i].row.peak <= TruePeak(p, b)
<1>1. IsPeakAt(p, snaps[p][i].row.peak, snaps[p][i].at)
  BY PlayerInv DEF PeaksInOrder
<1>2. snaps[p][i].row.peak \in Nat /\ snaps[p][i].at \in Nat
  BY PlayerInv, SnapType
<1> QED
  BY <1>1, <1>2, TruePeakIs

(* Every rating of a player, whatever its peak was lowered to. *)
LEMMA TopIs ==
    ASSUME IInv, NEW p \in Players
    PROVE  \E top \in Nat :
              /\ live[p].peak <= top /\ Account0[p].peak <= top
              /\ \A i \in DOMAIN games[p] : games[p][i].new <= top /\ games[p][i].old <= top
              /\ \A i \in DOMAIN snaps[p] : snaps[p][i].row.peak <= top
<1>1. PICK top \in Ratings \union {0} :
         /\ Account0[p].peak <= top /\ live[p].peak <= top
         /\ \A i \in DOMAIN games[p] : games[p][i].new <= top
         /\ \A i \in DOMAIN snaps[p] : snaps[p][i].row.peak <= top
  BY PlayerInv DEF HasTop
<1>2. top \in Nat
  BY RatingType
<1>3. ASSUME NEW i \in DOMAIN games[p]
      PROVE  games[p][i].old <= top
  <2>1. CASE games[p][i].old = Account0[p].cur
    BY <1>1, <1>2, <2>1, PlayerInv, PlayerType
  <2>2. CASE i - 1 \in DOMAIN games[p] /\ games[p][i].old = games[p][i - 1].new
    BY <1>1, <2>2
  <2> QED
    BY <2>1, <2>2, HeldBefore
<1> QED
  BY <1>1, <1>2, <1>3

LEMMA InEventIs ==
    ASSUME IInv, NEW p \in Players
    PROVE  LET in_event == Highest({games[p][i].new : i \in Charted(p)})
           IN  /\ in_event \in Nat /\ \A i \in Charted(p) : games[p][i].new <= in_event
               /\ in_event = 0 \/ \E i \in Charted(p) : in_event = games[p][i].new
<1> DEFINE S == {games[p][i].new : i \in Charted(p)}
<1>1. PICK top \in Nat : \A i \in DOMAIN games[p] : games[p][i].new <= top
  BY TopIs
<1>2. \A i \in DOMAIN games[p] : games[p][i].new \in Nat
  BY PlayerInv, GameType
<1>3. S \subseteq Nat /\ \A x \in S : x <= top
  BY <1>1, <1>2, GamesAre
<1>4. Highest(S) \in Nat /\ Highest(S) \in S \union {0} /\ \A x \in S : x <= Highest(S)
  <2> HIDE DEF S
  <2> QED
    BY <1>3, HighestOf
<1>5. \A i \in Charted(p) : games[p][i].new \in S
  OBVIOUS
<1>6. \A x \in S : \E i \in Charted(p) : x = games[p][i].new
  OBVIOUS
<1> QED
  BY <1>4, <1>5, <1>6

LEMMA BaselineType ==
    ASSUME IInv, NEW p \in Players
    PROVE  /\ BaselinePeak(p) \in Nat /\ EntryRating(p) \in Nat
           /\ live[p] # NoRow /\ SnapBaseline(p) # 0 => BaselinePeak(p) >= SnapBaseline(p)
           /\ live[p] # NoRow /\ SnapBaseline(p) = 0 =>
                 \/ BaselinePeak(p) >= live[p].peak
                 \/ \E i \in Charted(p) : games[p][i].new >= live[p].peak
<1> DEFINE in_event == Highest({games[p][i].new : i \in Charted(p)})
           carried  == IF live[p].peak > in_event THEN live[p].peak ELSE PreEventPeak(p)
           base     == IF SnapBaseline(p) # 0 THEN SnapBaseline(p) ELSE carried
<1>1. EntryRating(p) \in Nat
  <2>1. CASE Charted(p) = {}
    BY <2>1 DEF EntryRating
  <2>2. CASE Charted(p) # {}
    <3>1. Charted(p) \subseteq Nat
      BY GamesAre, PlayerInv, GameType
    <3>2. Min(Charted(p)) \in Charted(p)
      BY <2>2, <3>1, MinOf
    <3> QED
      BY <2>2, <3>2, GamesAre, PlayerInv, GameType DEF EntryRating
  <2> QED
    BY <2>1, <2>2
<1>2. PreEventPeak(p) \in Nat
  <2> DEFINE held(i) == Higher(games[p][i].old, games[p][i].new)
             kept == {j \in Earlier(p) : \A k \in Earlier(p) : k >= j => held(k) <= live[p].peak}
             S == {held(i) : i \in kept}
  <2>1. PICK top \in Nat : \A i \in DOMAIN games[p] : games[p][i].new <= top /\ games[p][i].old <= top
    BY TopIs
  <2>2. \A i \in DOMAIN games[p] : held(i) \in Nat /\ held(i) <= top
    BY <2>1, PlayerInv, GameType DEF Higher
  <2>3. S \subseteq Nat /\ \A x \in S : x <= top
    <3> HIDE DEF held
    <3> QED
      BY <2>2, GamesAre
  <2>4. Highest(S) \in Nat
    <3> HIDE DEF S
    <3> QED
      BY <2>3, HighestOf
  <2> QED
    BY <2>4 DEF PreEventPeak
<1>3. /\ in_event \in Nat
      /\ in_event = 0 \/ \E i \in Charted(p) : in_event = games[p][i].new
      /\ live[p].peak \in Nat
      /\ live[p] # NoRow => live[p].peak > 0
  BY InEventIs, PlayerInv, PlayerType, RowType
<1>4. SnapBaseline(p) \in Nat
  BY BaselineIs
<1>5. BaselinePeak(p) = IF live[p] = NoRow THEN 0 ELSE Higher(base, EntryRating(p))
  BY DEF BaselinePeak
<1> HIDE DEF in_event
<1>6. base \in Nat
  BY <1>2, <1>3, <1>4
<1>7. SnapBaseline(p) = 0 => base >= live[p].peak \/ in_event >= live[p].peak
  BY <1>2, <1>3
<1>8. SnapBaseline(p) # 0 => base = SnapBaseline(p)
  OBVIOUS
<1> HIDE DEF base
<1>9. live[p] # NoRow => BaselinePeak(p) >= base
  BY <1>1, <1>5, <1>6 DEF Higher
<1> QED
  BY <1>1, <1>3, <1>4, <1>5, <1>6, <1>7, <1>8, <1>9 DEF Higher

(* Without an observation in the window, what is carried in was held by    *)
(* its start when every game is known and none began after its end.        *)
LEMMA CarriedIs ==
    ASSUME IInv, NEW p \in Players, p \notin rebased, NEW b \in Nat, Start <= b,
           recorded[p] = DOMAIN games[p], \A i \in recorded[p] : Began(p, i) <= End,
           live[p].peak > Highest({games[p][i].new : i \in Charted(p)})
    PROVE  live[p].peak <= TruePeak(p, b)
<1> DEFINE in_event == Highest({games[p][i].new : i \in Charted(p)})
<1>1. in_event \in Nat /\ \A i \in Charted(p) : games[p][i].new <= in_event
  BY InEventIs
<1> HIDE DEF in_event
<1>2. /\ live[p].peak \in Nat /\ account[p].peak \in Nat /\ Account0[p].peak \in Nat
      /\ live[p].peak <= account[p].peak /\ IsPeakAt(p, account[p].peak, now)
      /\ TruePeak(p, b) \in Nat /\ live[p].peak > in_event
  BY PlayerInv, PlayerType, TruePeakIs DEF PeaksInOrder, in_event
<1>3. CASE account[p].peak = Account0[p].peak
  BY <1>2, <1>3, TruePeakIs
<1>4. ASSUME NEW i \in DOMAIN games[p], account[p].peak = games[p][i].new
      PROVE  live[p].peak <= TruePeak(p, b)
  <2>1. games[p][i].at \in Nat /\ games[p][i].new \in Nat /\ games[p][i].at <= End + 1
    BY PlayerInv, GameType, WindowType DEF Began
  <2>2. CASE i \in Charted(p)
    BY <1>1, <1>2, <1>4, <2>1, <2>2
  <2>3. CASE i \in Earlier(p)
    <3>1. games[p][i].at <= b
      BY <2>1, <2>3, GamesAre, WindowType
    <3> QED
      BY <1>2, <1>4, <2>1, <3>1, TruePeakIs
  <2> QED
    BY <2>1, <2>2, <2>3, GamesAre, WindowType
<1> QED
  BY <1>2, <1>3, <1>4 DEF IsPeakAt

LEMMA BaselineIsTrue ==
    ASSUME IInv, NEW p \in Players, p \notin rebased, NEW b \in Nat, Start <= b, Peak, Gapless(p),
           \/ SnapsBefore(p) # {}
           \/ /\ SnapsWithin(p) = {} /\ recorded[p] = DOMAIN games[p]
              /\ \A i \in recorded[p] : Began(p, i) <= End
    PROVE  BaselinePeak(p) \in Nat /\ BaselinePeak(p) <= TruePeak(p, b)
<1> DEFINE in_event == Highest({games[p][i].new : i \in Charted(p)})
           carried  == IF live[p].peak > in_event THEN live[p].peak ELSE PreEventPeak(p)
           base     == IF SnapBaseline(p) # 0 THEN SnapBaseline(p) ELSE carried
<1>1. TruePeak(p, b) \in Nat
  BY TruePeakIs
<1>2. EntryRating(p) \in Nat /\ EntryRating(p) <= TruePeak(p, b)
  <2>1. EntryRating(p) \in Nat /\ \/ EntryRating(p) = 0
                                  \/ EntryRating(p) = Account0[p].cur
                                  \/ \E i \in Earlier(p) : EntryRating(p) = games[p][i].new
    BY EntryIs
  <2>2. CASE EntryRating(p) = Account0[p].cur
    BY <1>1, <2>2, TruePeakIs, PlayerInv, PlayerType
  <2>3. ASSUME NEW i \in Earlier(p)
        PROVE  games[p][i].new <= TruePeak(p, b)
    <3>1. i \in DOMAIN games[p] /\ games[p][i].at \in Nat /\ games[p][i].at <= b
      BY GamesAre, PlayerInv, GameType, WindowType
    <3> QED
      BY <3>1, TruePeakIs
  <2> QED
    BY <1>1, <2>1, <2>2, <2>3
<1>3. base \in Nat /\ base <= TruePeak(p, b)
  <2>1. CASE SnapsBefore(p) # {}
    <3>1. PICK i \in SeenByEnd(p) : /\ SnapBaseline(p) = Metric(snaps[p][i].row)
                                    /\ i = Max(SnapsBefore(p)) /\ SnapBaseline(p) > 0
                                    /\ SnapBaseline(p) \in Nat
      BY <2>1, BaselineIs, SnapsAre
    <3>2. i \in DOMAIN snaps[p] /\ snaps[p][i].at <= Start /\ snaps[p][i].at \in Nat
          /\ snaps[p][i].row \in Row
      BY <2>1, <3>1, SnapsAre, PlayerInv, SnapType DEF SnapsBefore
    <3>3. snaps[p][i].row.peak <= TruePeak(p, b)
      BY <3>2, ObservedIsTrue, WindowType
    <3> QED
      BY <3>1, <3>2, <3>3, MetricType
  <2>2. CASE SnapsBefore(p) = {}
    <3>1. SnapBaseline(p) = 0
      BY <2>2, BaselineIs, SnapsAre
    <3>2. CASE live[p].peak > in_event
      <4>1. live[p].peak <= TruePeak(p, b) /\ live[p].peak \in Nat
        BY <2>2, <3>2, CarriedIs, PlayerInv, PlayerType
      <4> HIDE DEF in_event
      <4> QED
        BY <3>1, <3>2, <4>1
    <3>3. CASE ~(live[p].peak > in_event)
      <4>1. PreEventPeak(p) \in Nat /\ PreEventPeak(p) <= TruePeak(p, b)
        BY PreEventIs
      <4> HIDE DEF in_event
      <4> QED
        BY <3>1, <3>3, <4>1
    <3> QED
      BY <3>2, <3>3
  <2> QED
    BY <2>1, <2>2
<1>4. BaselinePeak(p) = IF live[p] = NoRow THEN 0 ELSE Higher(base, EntryRating(p))
  BY DEF BaselinePeak
<1> HIDE DEF base
<1> QED
  BY <1>1, <1>2, <1>3, <1>4 DEF Higher

LEMMA PeaksAreEarned == IInv => NoPeakBeforeItIsEarned
<1> SUFFICES ASSUME IInv, Peak, NEW p \in known \ rebased, NEW b \in Candidates, b >= Start,
                    \/ SnapsBefore(p) # {} /\ Gapless(p)
                    \/ /\ SnapsWithin(p) = {} /\ recorded[p] = DOMAIN games[p]
                       /\ \A i \in recorded[p] : Began(p, i) <= End
             PROVE  PeakAt(p, b) <= TruePeak(p, b)
  BY DEF NoPeakBeforeItIsEarned
<1>1. p \in Players /\ p \notin rebased /\ b \in Nat /\ Start <= b
  BY CandidatesAre, WindowType DEF IInv, TypeOK
<1>2. Gapless(p)
  BY <1>1, PlayerInv, GameType DEF Gapless
<1>3. TruePeak(p, b) \in Nat /\ BaselinePeak(p) \in Nat /\ BaselinePeak(p) <= TruePeak(p, b)
  BY <1>1, <1>2, TruePeakIs, BaselineIsTrue
<1>4. \A i \in ChartedBy(p, b) : games[p][i].new <= TruePeak(p, b)
  BY <1>1, GamesAre, TruePeakIs DEF ChartedBy
<1>5. \A i \in SnapsBy(p, b) : snaps[p][i].row.peak <= TruePeak(p, b)
  BY <1>1, ObservedIsTrue DEF SnapsBy, SnapsWithin
<1>6. PICK peak \in Nat : /\ peak <= TruePeak(p, b)
                          /\ PeakAt(p, b) = IF live[p] # NoRow THEN Lower(peak, live[p].peak) ELSE peak
  BY <1>1, <1>3, <1>4, <1>5, LineIs
<1> QED
  BY <1>1, <1>3, <1>6, PlayerInv, PlayerType DEF Lower

-----------------------------------------------------------------------------
(* The chart ends at the table.                                            *)

(* As of the last bucket everything charted has happened. *)
LEMMA FinalIs ==
    ASSUME IInv
    PROVE  /\ Final \in Nat
           /\ \A p \in known : ChartedBy(p, Final) = Charted(p) /\ SnapsBy(p, Final) = SnapsWithin(p)
<1>1. /\ Candidates \subseteq Nat /\ Candidates # {} /\ EventTimes \subseteq Candidates
      /\ \E b \in Nat : \A t \in Candidates : t <= b
  BY CandidatesAre
<1>2. Final \in Candidates /\ \A t \in Candidates : t <= Final
  BY <1>1, MaxOf DEF Final
<1>3. ASSUME NEW p \in known
      PROVE  ChartedBy(p, Final) = Charted(p) /\ SnapsBy(p, Final) = SnapsWithin(p)
  <2>1. ASSUME NEW i \in Charted(p)
        PROVE  games[p][i].at <= Final
    <3>1. games[p][i].at \in EventTimes
      BY DEF EventTimes
    <3> QED
      BY <1>1, <1>2, <3>1
  <2>2. ASSUME NEW i \in SnapsWithin(p)
        PROVE  snaps[p][i].at <= Final
    <3>1. snaps[p][i].at \in EventTimes
      BY DEF EventTimes
    <3> QED
      BY <1>1, <1>2, <3>1
  <2> QED
    BY <2>1, <2>2 DEF ChartedBy, SnapsBy
<1> QED
  BY <1>1, <1>2, <1>3

(* The games begun by the end, and the last of them. *)
LEMMA BegunIs ==
    ASSUME IInv, NEW p \in Players
    PROVE  /\ Begun(p) \in SUBSET (1..Len(games[p])) /\ Begun(p) = Charted(p) \union Earlier(p)
           /\ \A i \in Earlier(p), j \in Charted(p) : i < j
           /\ Begun(p) # {} => Max(Begun(p)) \in Begun(p) /\ \A i \in Begun(p) : i <= Max(Begun(p))
           /\ Charted(p) # {} => Max(Charted(p)) \in Charted(p) /\ Max(Begun(p)) = Max(Charted(p))
<1>1. /\ DOMAIN games[p] = 1..Len(games[p]) /\ Len(games[p]) \in Nat
      /\ \A i \in DOMAIN games[p] : i \in Nat /\ games[p][i].at \in Nat
      /\ recorded[p] \subseteq DOMAIN games[p]
  BY PlayerInv, GameType DEF GamesInOrder
<1>2. \A i, j \in DOMAIN games[p] : i < j => games[p][i].at < games[p][j].at
  BY PlayerInv DEF GamesInOrder
<1>3. Begun(p) \in SUBSET (1..Len(games[p])) /\ Begun(p) = Charted(p) \union Earlier(p)
  BY <1>1, WindowType DEF Begun, Charted, Earlier, Began
<1>4. ASSUME NEW i \in Earlier(p), NEW j \in Charted(p)
      PROVE  i < j
  <2>1. i \in DOMAIN games[p] /\ j \in DOMAIN games[p] /\ games[p][i].at < games[p][j].at
    <3>1. /\ i \in DOMAIN games[p] /\ games[p][i].at <= Start
          /\ j \in DOMAIN games[p] /\ Start < games[p][j].at
      BY GamesAre
    <3> QED
      BY <1>1, <3>1, WindowType
  <2>2. i = j \/ j < i \/ i < j
    BY <1>1, <2>1
  <2> QED
    BY <1>1, <1>2, <2>1, <2>2
<1>5. Begun(p) # {} => Max(Begun(p)) \in Begun(p) /\ \A i \in Begun(p) : i <= Max(Begun(p))
  BY <1>1, <1>3, LastOf
<1>6. Charted(p) # {} => /\ Max(Charted(p)) \in Charted(p)
                         /\ \A i \in Charted(p) : i <= Max(Charted(p))
  <2>1. Charted(p) \in SUBSET (1..Len(games[p]))
    BY <1>3
  <2> QED
    BY <1>1, <2>1, LastOf
<1>7. ASSUME Charted(p) # {}
      PROVE  Max(Begun(p)) = Max(Charted(p))
  <2> DEFINE m == Max(Charted(p))
  <2>1. m \in Begun(p) /\ \A i \in Charted(p) : i <= m
    BY <1>3, <1>6, <1>7
  <2>2. m \in Charted(p) /\ m \in Nat /\ Begun(p) \subseteq Nat
    BY <1>1, <1>3, <1>6, <1>7
  <2> HIDE DEF m
  <2>3. \A i \in Earlier(p) : i \in Nat /\ i < m
    BY <1>1, <1>3, <1>4, <2>2
  <2>4. \A i \in Begun(p) : i <= m
    BY <1>3, <2>1, <2>2, <2>3
  <2>5. Max(Begun(p)) = m
    BY <2>1, <2>2, <2>4, MaxIs
  <2> QED
    BY <2>5 DEF m
<1> QED
  BY <1>3, <1>4, <1>5, <1>6, <1>7

(* While the window is open, what was observed last is the live row. *)
LEMMA LastSeenIs ==
    ASSUME IInv, ~Closed, NEW p \in Players
    PROVE  /\ SnapsWithin(p) # {} => /\ Max(SnapsWithin(p)) \in SnapsWithin(p)
                                     /\ snaps[p][Max(SnapsWithin(p))].row = live[p]
           /\ SnapsWithin(p) = {} /\ SnapsBefore(p) # {} =>
                    snaps[p][Max(SnapsBefore(p))].row = live[p]
           /\ snaps[p] # <<>> => live[p] \in Row
<1> DEFINE n == Len(snaps[p])
<1>1. /\ DOMAIN snaps[p] = 1..n /\ n \in Nat /\ (snaps[p] # <<>> <=> n > 0) /\ now \in Nat
      /\ \A i \in DOMAIN snaps[p] : i \in Nat /\ snaps[p][i].at \in Nat /\ snaps[p][i].row \in Row
  BY PlayerInv, SnapType, PlayerType
<1>2. /\ \A i \in DOMAIN snaps[p] : snaps[p][i].at <= now
      /\ \A i, j \in DOMAIN snaps[p] : i < j => snaps[p][i].at < snaps[p][j].at
      /\ snaps[p] # <<>> => live[p] = snaps[p][n].row
  BY PlayerInv DEF SnapsInOrder
<1>3. now < End
  BY <1>1, WindowType DEF Closed
<1> HIDE DEF n
<1>4. ASSUME SnapsWithin(p) # {}
      PROVE  Max(SnapsWithin(p)) = n /\ n \in SnapsWithin(p) /\ n > 0
  <2>1. PICK i \in SnapsWithin(p) : TRUE
    BY <1>4
  <2>2. i \in 1..n /\ Start < snaps[p][i].at
    BY <1>1 DEF SnapsWithin
  <2>3. n \in DOMAIN snaps[p] /\ (i = n \/ i < n)
    BY <1>1, <2>2
  <2>4. n \in SnapsWithin(p)
    BY <1>1, <1>2, <1>3, <2>2, <2>3, WindowType DEF SnapsWithin
  <2>5. SnapsWithin(p) \subseteq Nat /\ \A j \in SnapsWithin(p) : j <= n
    BY <1>1 DEF SnapsWithin
  <2> QED
    BY <1>1, <2>2, <2>4, <2>5, MaxIs
<1>5. ASSUME SnapsWithin(p) = {}, SnapsBefore(p) # {}
      PROVE  Max(SnapsBefore(p)) = n /\ n > 0
  <2>1. PICK i \in SnapsBefore(p) : TRUE
    BY <1>5
  <2>2. n > 0 /\ n \in DOMAIN snaps[p]
    BY <1>1, <2>1 DEF SnapsBefore
  <2>3. n \in SnapsBefore(p)
    BY <1>1, <1>2, <1>3, <1>5, <2>2, WindowType DEF SnapsBefore, SnapsWithin
  <2>4. SnapsBefore(p) \subseteq Nat /\ \A j \in SnapsBefore(p) : j <= n
    BY <1>1 DEF SnapsBefore
  <2> QED
    BY <2>2, <2>3, <2>4, MaxIs
<1>6. snaps[p] # <<>> => live[p] \in Row
  BY <1>1, <1>2
<1> QED
  BY <1>1, <1>2, <1>4, <1>5, <1>6

(* While the window is open and the tables have caught up, the last charted *)
(* game is the last game, and gave the live rating.                        *)
LEMMA LastGameIs ==
    ASSUME IInv, ~Closed, NEW p \in Players, CaughtUp(p), Charted(p) # {}
    PROVE  /\ Max(Charted(p)) \in Charted(p) /\ live[p].cur > 0
           /\ games[p][Max(Charted(p))].new = live[p].cur
<1> DEFINE n == Len(games[p])
<1>1. /\ DOMAIN games[p] = 1..n /\ n \in Nat /\ now \in Nat
      /\ \A i \in DOMAIN games[p] : /\ i \in Nat /\ games[p][i].at \in Nat
                                    /\ games[p][i].new \in Nat /\ games[p][i].new > 0
  BY PlayerInv, GameType, PlayerType
<1>2. /\ \A i \in DOMAIN games[p] : games[p][i].at <= now
      /\ \A i, j \in DOMAIN games[p] : i < j => games[p][i].at < games[p][j].at
      /\ account[p].cur = RatingAfter(p, n)
  BY PlayerInv DEF GamesInOrder
<1>3. recorded[p] = DOMAIN games[p] /\ live[p] = account[p]
  BY DEF CaughtUp
<1>4. now < End
  BY <1>1, WindowType DEF Closed
<1> HIDE DEF n
<1>5. PICK i \in Charted(p) : TRUE
  OBVIOUS
<1>6. i \in 1..n /\ Start < games[p][i].at
  BY <1>1, GamesAre
<1>7. n \in DOMAIN games[p] /\ (i = n \/ i < n) /\ n # 0
  BY <1>1, <1>6
<1>8. Start < games[p][n].at /\ games[p][n].at <= now
  BY <1>1, <1>2, <1>6, <1>7, WindowType
<1>9. n \in Charted(p)
  BY <1>1, <1>3, <1>4, <1>7, <1>8, WindowType DEF Charted, Began
<1>10. Charted(p) \subseteq Nat /\ \A j \in Charted(p) : j <= n
  BY <1>1, GamesAre
<1>11. Max(Charted(p)) = n
  BY <1>9, <1>10, MaxIs
<1>12. games[p][n].new = live[p].cur
  BY <1>2, <1>3, <1>7 DEF RatingAfter
<1> QED
  BY <1>1, <1>7, <1>9, <1>11, <1>12

(* Whom upstream has no rating of has neither games nor snapshots. *)
LEMMA NothingIs ==
    ASSUME IInv, NEW p \in Players, CaughtUp(p), live[p] = NoRow
    PROVE  Charted(p) = {} /\ SnapsWithin(p) = {} /\ SnapsBefore(p) = {}
<1> DEFINE n == Len(games[p])
<1>1. /\ DOMAIN games[p] = 1..n /\ n \in Nat
      /\ \A i \in DOMAIN games[p] : games[p][i].new \in Nat /\ games[p][i].new > 0
  BY PlayerInv, GameType
<1>2. account[p].cur = RatingAfter(p, n) /\ account[p].cur = 0
  BY PlayerInv, RowType DEF GamesInOrder, CaughtUp
<1> HIDE DEF n
<1>3. n = 0
  <2> SUFFICES ASSUME n # 0
               PROVE  FALSE
    OBVIOUS
  <2>1. n \in DOMAIN games[p]
    BY <1>1
  <2> QED
    BY <1>1, <1>2, <2>1 DEF RatingAfter
<1>4. Charted(p) = {}
  BY <1>1, <1>3, GamesAre
<1>5. snaps[p] = <<>>
  <2> SUFFICES ASSUME snaps[p] # <<>>
               PROVE  FALSE
    OBVIOUS
  <2>1. live[p] = snaps[p][Len(snaps[p])].row
    BY PlayerInv DEF SnapsInOrder
  <2>2. Len(snaps[p]) \in DOMAIN snaps[p]
    BY PlayerInv, SnapType
  <2>3. live[p] \in Row
    BY <2>1, <2>2, PlayerInv, SnapType
  <2> QED
    BY <2>3, RowType
<1>6. DOMAIN snaps[p] = {}
  BY <1>5
<1> QED
  BY <1>4, <1>6 DEF SnapsWithin, SnapsBefore

LEMMA LineEndsAtLive ==
    ASSUME IInv, ~Closed, NEW p \in Players, p \in known, CaughtUp(p), Peak
    PROVE  PeakAt(p, Final) = live[p].peak
<1>1. /\ Final \in Nat /\ ChartedBy(p, Final) = Charted(p) /\ SnapsBy(p, Final) = SnapsWithin(p)
      /\ live[p].peak \in Nat /\ live[p] \in Row \union {NoRow}
  BY FinalIs, PlayerInv, PlayerType
<1>2. CASE live[p] = NoRow
  <2>1. Charted(p) = {} /\ SnapsWithin(p) = {} /\ BaselinePeak(p) = 0
    BY <1>2, NothingIs DEF BaselinePeak
  <2>2. PICK peak \in Nat : peak <= 0 /\ PeakAt(p, Final) = peak
    BY <1>1, <1>2, <2>1, LineIs
  <2> QED
    BY <1>2, <2>2, RowType
<1>3. CASE live[p] # NoRow
  <2>1. PICK top0 \in Nat : /\ \A i \in DOMAIN games[p] : games[p][i].new <= top0
                            /\ \A i \in DOMAIN snaps[p] : snaps[p][i].row.peak <= top0
    BY TopIs
  <2>2. BaselinePeak(p) \in Nat
    BY BaselineType
  <2>3. /\ \A i \in DOMAIN games[p] : games[p][i].new \in Nat
        /\ \A i \in DOMAIN snaps[p] : snaps[p][i].row.peak \in Nat
    BY PlayerInv, GameType, SnapType
  <2>4. PICK top \in Nat : /\ BaselinePeak(p) <= top /\ top0 <= top
    <3>1. Higher(BaselinePeak(p), top0) \in Nat /\ BaselinePeak(p) <= Higher(BaselinePeak(p), top0)
          /\ top0 <= Higher(BaselinePeak(p), top0)
      BY <2>1, <2>2 DEF Higher
    <3> QED
      BY <3>1
  <2>5. /\ \A i \in ChartedBy(p, Final) : games[p][i].new <= top
        /\ \A i \in SnapsBy(p, Final) : snaps[p][i].row.peak <= top
    BY <1>1, <2>1, <2>3, <2>4, GamesAre DEF SnapsWithin
  <2>6. PICK peak \in Nat : /\ BaselinePeak(p) <= peak
                            /\ \A i \in Charted(p) : games[p][i].new <= peak
                            /\ \A i \in SnapsWithin(p) : snaps[p][i].row.peak <= peak
                            /\ PeakAt(p, Final) = Lower(peak, live[p].peak)
    BY <1>1, <1>3, <2>2, <2>4, <2>5, LineIs
  <2>7. live[p].peak <= peak
    <3>1. CASE SnapsWithin(p) # {}
      BY <1>1, <2>6, <3>1, LastSeenIs
    <3>2. CASE SnapsWithin(p) = {} /\ SnapsBefore(p) # {}
      <4>1. SnapBaseline(p) = live[p].peak /\ SnapBaseline(p) # 0
        BY <1>1, <3>2, LastSeenIs, BaselineIs, SnapsAre, MetricType DEF SnapBaseline
      <4> QED
        BY <1>1, <1>3, <2>2, <2>6, <4>1, BaselineType
    <3>3. CASE SnapsWithin(p) = {} /\ SnapsBefore(p) = {}
      <4>1. SnapBaseline(p) = 0
        BY <3>3 DEF SnapBaseline
      <4>2. \/ BaselinePeak(p) >= live[p].peak
            \/ \E i \in Charted(p) : games[p][i].new >= live[p].peak
        BY <1>3, <4>1, BaselineType
      <4> QED
        BY <1>1, <2>2, <2>3, <2>6, <4>2, GamesAre
    <3> QED
      BY <3>1, <3>2, <3>3
  <2> QED
    BY <1>1, <2>6, <2>7 DEF Lower
<1> QED
  BY <1>2, <1>3

LEMMA RatingEndsAtLive ==
    ASSUME IInv, ~Closed, NEW p \in Players, p \in known, CaughtUp(p), ~Peak
    PROVE  CurrentAt(p, Final) = live[p].cur
<1>1. /\ Final \in Nat /\ ChartedBy(p, Final) = Charted(p) /\ SnapsBy(p, Final) = SnapsWithin(p)
      /\ live[p].cur \in Nat /\ live[p] \in Row \union {NoRow}
  BY FinalIs, PlayerInv, PlayerType
<1>2. Charted(p) # {} => LastRating(p, Final) = live[p].cur
  BY <1>1, LastGameIs DEF LastRating
<1>3. SnapsWithin(p) # {} => snaps[p][Max(SnapsWithin(p))].row.cur = live[p].cur
  BY LastSeenIs
<1>4. ASSUME Charted(p) = {}, SnapsWithin(p) = {}
      PROVE  BaselineCurrent(p) = live[p].cur
  <2>1. EntryRating(p) = 0
    BY <1>4 DEF EntryRating
  <2>2. SnapBaseline(p) \in {0, live[p].cur}
    <3>1. CASE SnapsBefore(p) # {}
      BY <1>1, <1>4, <3>1, LastSeenIs, MetricType DEF SnapBaseline
    <3>2. CASE SnapsBefore(p) = {}
      BY <1>4, <3>2 DEF SnapBaseline
    <3> QED
      BY <3>1, <3>2
  <2> QED
    BY <1>1, <2>1, <2>2, RowType DEF BaselineCurrent, FirstOf
<1> QED
  BY <1>1, <1>2, <1>3, <1>4 DEF CurrentAt

(* So every row ranks on the same at the end of the chart and in the table. *)
LEMMA KeysAgree ==
    ASSUME IInv, ~Closed, \A p \in Players : CaughtUp(p)
    PROVE  KeysAt(Final) = TableKeys
<1>1. ASSUME NEW e \in Visible
      PROVE  /\ MetricAt(e, Final) = RankMetric(e)
             /\ OtherAt(e, Final) = IF e \in Placeholders THEN 0 ELSE Other(live[e])
  <2>1. CASE e \in Placeholders
    BY <2>1 DEF MetricAt, OtherAt, RankMetric
  <2>2. CASE e \notin Placeholders
    <3>1. e \in known /\ e \in Players /\ CaughtUp(e)
      BY <2>2 DEF Visible, IInv, TypeOK
    <3>2. live[e].cur \in Nat /\ live[e].peak \in Nat /\ live[e] \in Row \union {NoRow}
      BY <3>1, PlayerInv, PlayerType
    <3>3. CASE Peak
      <4>1. LastRating(e, Final) \in {0, live[e].cur}
        BY <3>1, FinalIs, LastGameIs DEF LastRating
      <4>2. OtherAt(e, Final) = live[e].cur
        BY <2>2, <3>2, <3>3, <4>1 DEF OtherAt, FirstOf
      <4>3. MetricAt(e, Final) = live[e].peak
        BY <2>2, <3>1, <3>3, LineEndsAtLive DEF MetricAt
      <4>4. RankMetric(e) = live[e].peak
        BY <2>2, <3>2, <3>3, MetricType DEF RankMetric
      <4> QED
        BY <2>2, <3>2, <3>3, <4>2, <4>3, <4>4, MetricType
    <3>4. CASE ~Peak
      <4>1. MetricAt(e, Final) = live[e].cur
        BY <2>2, <3>1, <3>4, RatingEndsAtLive DEF MetricAt
      <4>2. RankMetric(e) = live[e].cur
        BY <2>2, <3>2, <3>4, MetricType DEF RankMetric
      <4> QED
        BY <2>2, <3>2, <3>4, <4>1, <4>2, MetricType DEF OtherAt
    <3> QED
      BY <3>3, <3>4
  <2> QED
    BY <2>1, <2>2
<1> QED
  BY <1>1 DEF KeysAt, TableKeys

(* What upstream had as a player's peak did not fall between observations. *)
LEMMA PeaksGrow ==
    ASSUME IInv, NEW p \in Players, p \notin rebased,
           NEW i \in DOMAIN snaps[p], NEW j \in DOMAIN snaps[p], i <= j
    PROVE  snaps[p][i].at <= snaps[p][j].at /\ snaps[p][i].row.peak <= snaps[p][j].row.peak
<1>1. /\ i \in Nat /\ j \in Nat /\ snaps[p][i].at \in Nat /\ snaps[p][j].at \in Nat
      /\ snaps[p][i].row.peak \in Nat /\ snaps[p][j].row.peak \in Nat
      /\ \A k \in DOMAIN games[p] : games[p][k].at \in Nat
  BY PlayerInv, SnapType, GameType
<1>2. snaps[p][i].at <= snaps[p][j].at
  <2>1. \A k, l \in DOMAIN snaps[p] : k < l => snaps[p][k].at < snaps[p][l].at
    BY PlayerInv DEF SnapsInOrder
  <2> QED
    BY <1>1, <2>1
<1>3. IsPeakAt(p, snaps[p][i].row.peak, snaps[p][i].at) /\ IsPeakAt(p, snaps[p][j].row.peak, snaps[p][j].at)
  BY PlayerInv DEF PeaksInOrder
<1> QED
  BY <1>1, <1>2, <1>3 DEF IsPeakAt

(* Observed after the last game begun by the end, the rating is that       *)
(* game's: what follows it in a complete log had not ended by then.        *)
LEMMA LastHeldIs ==
    ASSUME IInv, NEW p \in Players, recorded[p] = DOMAIN games[p], NEW s \in SeenByEnd(p),
           Begun(p) # {}, games[p][Max(Begun(p))].at <= snaps[p][s].at
    PROVE  snaps[p][s].row.cur = games[p][Max(Begun(p))].new
<1> DEFINE m == Max(Begun(p))
<1>1. m \in Begun(p) /\ \A i \in Begun(p) : i <= m
  BY BegunIs
<1>2. s \in DOMAIN snaps[p] /\ snaps[p][s].at <= End /\ snaps[p][s].at \in Nat
  BY PlayerInv, SnapType DEF SeenByEnd
<1>3. /\ DOMAIN games[p] = 1..Len(games[p]) /\ Len(games[p]) \in Nat
      /\ \A i \in DOMAIN games[p] : i \in Nat /\ games[p][i].at \in Nat
  BY PlayerInv, GameType
<1>4. PICK n \in 0..Len(games[p]) : /\ snaps[p][s].row.cur = RatingAfter(p, n)
                                    /\ \A j \in DOMAIN games[p] :
                                          games[p][j].at <= snaps[p][s].at <=> j <= n
  BY <1>2, PlayerInv DEF SnapsInOrder
<1>5. m \in DOMAIN games[p] /\ games[p][m].at <= snaps[p][s].at
  BY <1>1, BegunIs, <1>3
<1> HIDE DEF m
<1>6. m <= n /\ n # 0 /\ n \in DOMAIN games[p] /\ n \in Nat
  BY <1>3, <1>4, <1>5
<1>7. games[p][n].at <= snaps[p][s].at /\ games[p][n].at \in Nat
  BY <1>3, <1>4, <1>6
<1>8. n \in Begun(p)
  BY <1>2, <1>6, <1>7, WindowType DEF Begun, Began
<1>9. n = m
  BY <1>1, <1>3, <1>5, <1>6, <1>8
<1>10. snaps[p][s].row.cur = games[p][n].new
  BY <1>4, <1>6 DEF RatingAfter
<1> QED
  BY <1>9, <1>10 DEF m

(* After the window: every peak the chart has is one the table has, and    *)
(* the other way round, when an observation has those from before it.      *)
LEMMA LineEndsAtFrozen ==
    ASSUME IInv, NEW p \in known \ rebased, Peak, recorded[p] = DOMAIN games[p], EntryObserved(p)
    PROVE  PeakAt(p, Final) = FrozenPeak(p)
<1> DEFINE S == {snaps[p][i].row.peak : i \in SeenByEnd(p)} \union {games[p][i].new : i \in Begun(p)}
           frozen == Highest(S)
<1>0. p \in Players /\ p \notin rebased
  BY DEF IInv, TypeOK
<1>1. /\ Final \in Nat /\ ChartedBy(p, Final) = Charted(p) /\ SnapsBy(p, Final) = SnapsWithin(p)
      /\ live[p].peak \in Nat /\ live[p] \in Row \union {NoRow}
      /\ Begun(p) = Charted(p) \union Earlier(p)
      /\ SeenByEnd(p) = SnapsBefore(p) \union SnapsWithin(p)
      /\ BaselinePeak(p) \in Nat /\ EntryRating(p) \in Nat
  BY <1>0, FinalIs, PlayerInv, PlayerType, BegunIs, SnapsAre, BaselineType
<1>2. /\ \A i \in DOMAIN games[p] : games[p][i].new \in Nat /\ games[p][i].at \in Nat
      /\ \A i \in DOMAIN snaps[p] : /\ i \in Nat /\ snaps[p][i].row.peak \in Nat
                                    /\ snaps[p][i].row.peak > 0 /\ snaps[p][i].at \in Nat
                                    /\ snaps[p][i].row \in Row
      /\ SeenByEnd(p) \subseteq DOMAIN snaps[p] /\ Begun(p) \subseteq DOMAIN games[p]
  BY <1>0, PlayerInv, GameType, SnapType, SnapsAre, BegunIs
<1>3. PICK seen \in SeenByEnd(p) : \A j \in Earlier(p) : games[p][j].at <= snaps[p][seen].at
  BY DEF EntryObserved
<1>4. live[p] # NoRow
  <2>1. snaps[p] # <<>> /\ Len(snaps[p]) \in DOMAIN snaps[p]
    BY <1>0, <1>2, <1>3, PlayerInv, SnapType
  <2> QED
    BY <1>0, <1>2, <2>1, PlayerInv, RowType DEF SnapsInOrder
<1>5. /\ frozen \in Nat /\ frozen \in S \union {0}
      /\ \A i \in SeenByEnd(p) : snaps[p][i].row.peak <= frozen
      /\ \A i \in Begun(p) : games[p][i].new <= frozen
  <2>1. PICK top \in Nat : /\ \A i \in DOMAIN games[p] : games[p][i].new <= top
                           /\ \A i \in DOMAIN snaps[p] : snaps[p][i].row.peak <= top
    BY <1>0, TopIs
  <2>2. S \subseteq Nat /\ \A x \in S : x <= top
    BY <1>2, <2>1
  <2>3. /\ \A i \in SeenByEnd(p) : snaps[p][i].row.peak \in S
        /\ \A i \in Begun(p) : games[p][i].new \in S
    OBVIOUS
  <2>4. Highest(S) \in Nat /\ Highest(S) \in S \union {0} /\ \A x \in S : x <= Highest(S)
    <3> HIDE DEF S
    <3> QED
      BY <2>2, HighestOf
  <2> HIDE DEF S
  <2> QED
    BY <2>3, <2>4
<1>6. frozen > 0 /\ FrozenPeak(p) = Lower(frozen, live[p].peak)
  <2>1. frozen > 0
    BY <1>2, <1>3, <1>5
  <2>2. FrozenPeak(p) = Lower(FirstOf(frozen, live[p].peak, 0), live[p].peak)
    BY <1>4 DEF FrozenPeak
  <2> HIDE DEF frozen
  <2> QED
    BY <2>1, <2>2 DEF FirstOf
<1>7. frozen = 0 \/ (\E i \in SeenByEnd(p) : frozen = snaps[p][i].row.peak)
                 \/ (\E i \in Begun(p) : frozen = games[p][i].new)
  BY <1>5
<1> HIDE DEF frozen, S
<1>8. PICK first \in SeenByEnd(p) :
         /\ SnapBaseline(p) = snaps[p][first].row.peak /\ SnapBaseline(p) # 0
         /\ first = IF SnapsBefore(p) # {} THEN Max(SnapsBefore(p)) ELSE Min(SnapsWithin(p))
  <2>1. PICK i \in SeenByEnd(p) :
           /\ SnapBaseline(p) = Metric(snaps[p][i].row) /\ SnapBaseline(p) > 0
           /\ SnapBaseline(p) \in Nat
           /\ i = IF SnapsBefore(p) # {} THEN Max(SnapsBefore(p)) ELSE Min(SnapsWithin(p))
    BY <1>0, <1>3, BaselineIs
  <2>2. Metric(snaps[p][i].row) = snaps[p][i].row.peak
    BY <1>2, MetricType
  <2> QED
    BY <2>1, <2>2
<1>9. SnapBaseline(p) <= BaselinePeak(p)
  BY <1>0, <1>2, <1>4, <1>8, <1>1, BaselineType
<1>10. BaselinePeak(p) <= frozen
  <2>1. EntryRating(p) <= frozen
    <3>1. Gapless(p)
      BY <1>0, PlayerInv, GameType DEF Gapless
    <3>2. Account0[p].cur <= frozen
      <4>1. IsPeakAt(p, snaps[p][seen].row.peak, snaps[p][seen].at)
        BY <1>0, <1>2, <1>3, PlayerInv DEF PeaksInOrder
      <4> QED
        BY <1>0, <1>2, <1>3, <1>5, <4>1, PlayerInv, PlayerType DEF IsPeakAt
    <3> QED
      BY <1>0, <1>1, <1>5, <3>1, <3>2, EntryIs
  <2>2. SnapBaseline(p) <= frozen
    BY <1>5, <1>8
  <2>3. BaselinePeak(p) = Higher(SnapBaseline(p), EntryRating(p))
    BY <1>4, <1>8 DEF BaselinePeak
  <2> QED
    BY <2>1, <2>2, <2>3 DEF Higher
<1>11. PICK peak \in Nat : /\ peak <= frozen /\ BaselinePeak(p) <= peak
                           /\ \A i \in Charted(p) : games[p][i].new <= peak
                           /\ \A i \in SnapsWithin(p) : snaps[p][i].row.peak <= peak
                           /\ PeakAt(p, Final) = Lower(peak, live[p].peak)
  <2>1. /\ \A i \in ChartedBy(p, Final) : games[p][i].new <= frozen
        /\ \A i \in SnapsBy(p, Final) : snaps[p][i].row.peak <= frozen
    BY <1>1, <1>5
  <2> QED
    BY <1>0, <1>1, <1>4, <1>5, <1>10, <2>1, LineIs
<1>12. \A i \in SeenByEnd(p) : snaps[p][i].row.peak <= peak
  <2>1. ASSUME NEW i \in SnapsBefore(p)
        PROVE  snaps[p][i].row.peak <= peak
    <3>1. first = Max(SnapsBefore(p)) /\ i <= first
      <4>1. i \in 1..Len(snaps[p]) /\ Len(snaps[p]) \in Nat /\ SnapsBefore(p) \in SUBSET (1..Len(snaps[p]))
        BY <1>0, PlayerInv, SnapType, SnapsAre
      <4> QED
        BY <1>8, <4>1, LastOf
    <3>2. snaps[p][i].row.peak <= snaps[p][first].row.peak
      BY <1>0, <1>1, <1>2, <3>1, PeaksGrow
    <3> QED
      BY <1>1, <1>2, <1>8, <1>9, <1>11, <3>2
  <2> QED
    BY <1>1, <1>11, <2>1
<1>13. \A i \in Begun(p) : games[p][i].new <= peak
  <2>1. ASSUME NEW i \in Earlier(p)
        PROVE  games[p][i].new <= peak
    <3>1. games[p][i].new <= snaps[p][seen].row.peak
      <4>1. IsPeakAt(p, snaps[p][seen].row.peak, snaps[p][seen].at)
        BY <1>0, <1>2, <1>3, PlayerInv DEF PeaksInOrder
      <4>2. i \in DOMAIN games[p] /\ games[p][i].at <= snaps[p][seen].at
        BY <1>1, <1>2, <1>3
      <4> QED
        BY <4>1, <4>2 DEF IsPeakAt
    <3>2. i \in DOMAIN games[p] /\ seen \in DOMAIN snaps[p] /\ snaps[p][seen].row.peak <= peak
      BY <1>1, <1>2, <1>3, <1>12
    <3> QED
      BY <1>2, <3>1, <3>2
  <2> QED
    BY <1>1, <1>11, <2>1
<1>14. frozen <= peak
  BY <1>7, <1>11, <1>12, <1>13
<1>15. frozen = peak
  BY <1>5, <1>11, <1>14
<1> QED
  BY <1>6, <1>11, <1>15

LEMMA RatingEndsAtFrozen ==
    ASSUME IInv, NEW p \in known \ rebased, ~Peak, recorded[p] = DOMAIN games[p], EntryObserved(p)
    PROVE  CurrentAt(p, Final) = FrozenCurrent(p)
<1>0. p \in Players /\ p \notin rebased
  BY DEF IInv, TypeOK
<1>1. /\ ChartedBy(p, Final) = Charted(p) /\ SnapsBy(p, Final) = SnapsWithin(p)
      /\ live[p].cur \in Nat /\ live[p] \in Row \union {NoRow}
      /\ Begun(p) = Charted(p) \union Earlier(p)
      /\ SeenByEnd(p) = SnapsBefore(p) \union SnapsWithin(p)
  BY <1>0, FinalIs, PlayerInv, PlayerType, BegunIs, SnapsAre
<1>2. /\ \A i \in DOMAIN games[p] : /\ games[p][i].new \in Nat /\ games[p][i].new > 0
                                    /\ games[p][i].at \in Nat
      /\ \A i \in DOMAIN snaps[p] : /\ i \in Nat /\ snaps[p][i].row \in Row /\ snaps[p][i].at \in Nat
                                    /\ snaps[p][i].row.cur \in Nat /\ snaps[p][i].row.cur > 0
      /\ SeenByEnd(p) \in SUBSET (1..Len(snaps[p])) /\ DOMAIN snaps[p] = 1..Len(snaps[p])
      /\ Len(snaps[p]) \in Nat
      /\ Begun(p) \subseteq DOMAIN games[p]
  BY <1>0, PlayerInv, GameType, SnapType, SnapsAre, BegunIs
<1>3. PICK seen \in SeenByEnd(p) : \A j \in Earlier(p) : games[p][j].at <= snaps[p][seen].at
  BY DEF EntryObserved
<1> DEFINE s == Max(SeenByEnd(p))
           g == Max(Begun(p))
<1>4. s \in SeenByEnd(p) /\ s \in DOMAIN snaps[p] /\ \A i \in SeenByEnd(p) : i <= s
  <2>1. s \in SeenByEnd(p) /\ \A i \in SeenByEnd(p) : i <= s
    BY <1>2, <1>3, LastOf
  <2> QED
    BY <1>2, <2>1
<1>5. Begun(p) # {} => g \in Begun(p) /\ g \in DOMAIN games[p]
  BY <1>0, <1>2, BegunIs
<1>6. /\ SnapsWithin(p) # {} => Max(SnapsWithin(p)) = s
      /\ SnapsWithin(p) = {} => Max(SnapsBefore(p)) = s /\ SnapsBefore(p) # {}
  <2> HIDE DEF s
  <2>1. SeenByEnd(p) \subseteq Nat /\ \A i \in SnapsBefore(p), j \in SnapsWithin(p) : i < j
    BY <1>0, <1>2, SnapsAre
  <2>2. ASSUME SnapsWithin(p) # {}
        PROVE  Max(SnapsWithin(p)) = s
    <3>1. s \in SnapsWithin(p)
      <4>1. PICK j \in SnapsWithin(p) : TRUE
        BY <2>2
      <4>2. j \in SeenByEnd(p) /\ j <= s /\ j \in Nat /\ s \in Nat
        BY <1>1, <1>4, <2>1
      <4>3. s \notin SnapsBefore(p)
        BY <2>1, <4>2
      <4> QED
        BY <1>1, <1>4, <4>3
    <3> QED
      BY <1>1, <1>4, <2>1, <3>1, MaxIs
  <2>3. ASSUME SnapsWithin(p) = {}
        PROVE  Max(SnapsBefore(p)) = s /\ SnapsBefore(p) # {}
    <3>1. SnapsBefore(p) = SeenByEnd(p)
      BY <1>1, <2>3
    <3> QED
      BY <1>4, <3>1 DEF s
  <2> QED
    BY <2>2, <2>3
<1>7. live[p] # NoRow
  <2>1. snaps[p] # <<>> /\ Len(snaps[p]) \in DOMAIN snaps[p]
    BY <1>0, <1>2, <1>3, PlayerInv, SnapType
  <2> QED
    BY <1>0, <1>2, <2>1, PlayerInv, RowType DEF SnapsInOrder
<1> DEFINE rating == snaps[p][s].row.cur
           last == games[p][g].new
<1>8. Begun(p) # {} /\ games[p][g].at <= snaps[p][s].at => rating = last
  BY <1>0, <1>4, LastHeldIs
<1>9. FrozenCurrent(p) = IF Begun(p) = {} THEN rating ELSE last
  <2>1. SeenByEnd(p) # {} /\ rating > 0 /\ rating \in Nat
    BY <1>2, <1>3, <1>4
  <2>2. Begun(p) # {} => last > 0 /\ last \in Nat
    BY <1>2, <1>5
  <2>3. FrozenCurrent(p) = FirstOf(IF Begun(p) = {} THEN 0 ELSE last, rating, live[p].cur)
    BY <2>1 DEF FrozenCurrent
  <2> HIDE DEF rating, last
  <2> QED
    BY <2>1, <2>2, <2>3 DEF FirstOf
<1>10. CASE Charted(p) # {}
  <2>1. Max(Charted(p)) = g /\ Begun(p) # {}
    BY <1>0, <1>1, <1>10, BegunIs
  <2>2. LastRating(p, Final) = last
    BY <1>1, <1>10, <2>1 DEF LastRating
  <2>3. CASE SnapsWithin(p) # {} => games[p][g].at >= snaps[p][s].at
    <3>1. CurrentAt(p, Final) = LastRating(p, Final)
      BY <1>1, <1>6, <1>10, <2>1, <2>3 DEF CurrentAt
    <3> QED
      BY <1>9, <2>1, <2>2, <3>1
  <2>4. CASE SnapsWithin(p) # {} /\ ~(games[p][g].at >= snaps[p][s].at)
    <3>1. games[p][g].at <= snaps[p][s].at
      BY <1>2, <1>4, <1>5, <2>1, <2>4
    <3>2. CurrentAt(p, Final) = rating
      BY <1>1, <1>6, <2>1, <2>4 DEF CurrentAt
    <3> QED
      BY <1>8, <1>9, <2>1, <3>1, <3>2
  <2> QED
    BY <2>3, <2>4
<1>11. CASE Charted(p) = {}
  <2>1. CurrentAt(p, Final) = rating
    <3>1. CASE SnapsWithin(p) # {}
      BY <1>1, <1>6, <1>11, <3>1 DEF CurrentAt
    <3>2. CASE SnapsWithin(p) = {}
      <4>1. EntryRating(p) = 0 /\ CurrentAt(p, Final) = BaselineCurrent(p)
        BY <1>1, <1>11, <3>2 DEF EntryRating, CurrentAt
      <4>2. SnapBaseline(p) = Metric(snaps[p][s].row)
        BY <1>6, <3>2 DEF SnapBaseline
      <4>3. Metric(snaps[p][s].row) = rating /\ rating > 0 /\ rating \in Nat
        BY <1>2, <1>4, MetricType
      <4> HIDE DEF rating
      <4> QED
        BY <1>7, <4>1, <4>2, <4>3 DEF BaselineCurrent, FirstOf
    <3> QED
      BY <3>1, <3>2
  <2>2. CASE Begun(p) # {}
    <3>1. g \in Earlier(p)
      BY <1>1, <1>5, <1>11, <2>2
    <3>2. games[p][g].at <= snaps[p][seen].at /\ seen <= s
      BY <1>3, <1>4, <3>1
    <3>3. snaps[p][seen].at <= snaps[p][s].at
      <4>1. \A k, l \in DOMAIN snaps[p] : k < l => snaps[p][k].at < snaps[p][l].at
        BY <1>0, PlayerInv DEF SnapsInOrder
      <4>2. seen \in DOMAIN snaps[p] /\ (seen = s \/ seen < s)
        BY <1>2, <1>4, <3>2
      <4> QED
        BY <1>2, <1>4, <4>1, <4>2
    <3>4. games[p][g].at <= snaps[p][s].at
      BY <1>2, <1>4, <1>5, <2>2, <3>2, <3>3
    <3> QED
      BY <1>8, <1>9, <2>1, <2>2, <3>4
  <2> QED
    BY <1>9, <2>1, <2>2
<1> QED
  BY <1>10, <1>11

LEMMA ChartEnds == IInv => ChartEndsAtTable
<1>1. ASSUME IInv, ~Closed, \A p \in Players : CaughtUp(p)
      PROVE  /\ Vector(Final)[1] = Standings
             /\ TeamKeys(KeysAt(Final)) = TeamStandings
  <2>1. KeysAt(Final) = TableKeys
    BY <1>1, KeysAgree
  <2>2. Vector(Final) = <<Ranked(KeysAt(Final)), RankedTeams(KeysAt(Final))>>
    BY DEF Vector
  <2> QED
    BY <2>1, <2>2 DEF Standings, TeamStandings
<1>2. ASSUME IInv, Closed, NEW p \in known \ rebased, recorded[p] = DOMAIN games[p], EntryObserved(p)
      PROVE  MetricAt(p, Final) = RankMetric(p)
  <2>1. p \notin Placeholders
    BY <1>2, ConstantsAssumption DEF IInv, TypeOK
  <2>2. CASE Peak
    BY <1>2, <2>1, <2>2, LineEndsAtFrozen DEF MetricAt, RankMetric
  <2>3. CASE ~Peak
    BY <1>2, <2>1, <2>3, RatingEndsAtFrozen DEF MetricAt, RankMetric
  <2> QED
    BY <2>2, <2>3
<1> QED
  BY <1>1, <1>2 DEF ChartEndsAtTable

-----------------------------------------------------------------------------
(* What is charted is settled.                                             *)

(* What a step changes of what a line is made of. *)
LEMMA MovesAre ==
    ASSUME IInv, Next, NEW p \in Players
    PROVE  /\ rank_by' = rank_by
           /\ \A i \in DOMAIN games[p] : i \in DOMAIN games'[p] /\ games'[p][i] = games[p][i]
           /\ \/ recorded'[p] = recorded[p]
              \/ \E i \in DOMAIN games[p] \ recorded[p] : recorded'[p] = recorded[p] \union {i}
           /\ \/ snaps'[p] = snaps[p]
              \/ snaps'[p] = Append(snaps[p], [at |-> now + 1, row |-> account[p]])
           /\ live'[p] = live[p] \/ (live'[p] = account[p] /\ account[p] # NoRow)
<1>1. /\ TypeOK /\ games[p] \in Seq(Game) /\ Len(games[p]) \in Nat /\ now \in Nat
      /\ DOMAIN games[p] = 1..Len(games[p]) /\ recorded \in [Players -> SUBSET Nat]
  BY PlayerInv, GameType, PlayerType DEF TypeOK
<1>2. CASE Quiet
  BY <1>2 DEF Quiet, config
<1>3. CASE Poll
  BY <1>3 DEF Poll, config
<1>4. ASSUME NEW q \in Players, NEW rating \in Ratings, Finish(q, rating)
      PROVE  /\ rank_by' = rank_by /\ recorded' = recorded /\ snaps' = snaps /\ live' = live
             /\ \A i \in DOMAIN games[p] : i \in DOMAIN games'[p] /\ games'[p][i] = games[p][i]
  <2>1. rank_by' = rank_by /\ recorded' = recorded /\ snaps' = snaps /\ live' = live
    BY <1>4 DEF Finish, config
  <2>2. CASE q = p
    <3> DEFINE game == [at |-> now + 1, old |-> account[p].cur, new |-> rating]
    <3>1. games'[p] = Append(games[p], game)
      BY <1>1, <1>4, <2>2 DEF Finish, TypeOK
    <3> HIDE DEF game
    <3> QED
      BY <1>1, <2>1, <3>1
  <2>3. CASE q # p
    BY <1>1, <1>4, <2>1, <2>3 DEF Finish, TypeOK
  <2> QED
    BY <2>1, <2>2, <2>3
<1>5. ASSUME NEW q \in Players, Rebase(q)
      PROVE  rank_by' = rank_by /\ games' = games /\ recorded' = recorded /\ snaps' = snaps /\ live' = live
  BY <1>5 DEF Rebase, config
<1>6. ASSUME NEW q \in Players, NEW i \in 1..MaxGames[q], Record(q, i)
      PROVE  /\ rank_by' = rank_by /\ games' = games /\ snaps' = snaps /\ live' = live
             /\ \/ recorded'[p] = recorded[p]
                \/ \E j \in DOMAIN games[p] \ recorded[p] : recorded'[p] = recorded[p] \union {j}
  BY <1>1, <1>6 DEF Record, config
<1> QED
  BY <1>2, <1>3, <1>4, <1>5, <1>6 DEF Next

(* What was observed by a time that has been is not observed again. *)
LEMMA SeenStays ==
    ASSUME IInv, Next, NEW p \in Players, NEW b \in Nat, b <= now, Start < now, SnapsBefore(p) # {}
    PROVE  /\ SnapBaseline(p)' = SnapBaseline(p)
           /\ SnapsBy(p, b)' = SnapsBy(p, b)
           /\ \A i \in SnapsBy(p, b) : snaps'[p][i] = snaps[p][i]
<1> DEFINE snap == [at |-> now + 1, row |-> account[p]]
           n == Len(snaps[p])
<1>1. /\ snaps[p] \in Seq(Snap) /\ n \in Nat /\ DOMAIN snaps[p] = 1..n /\ now \in Nat
      /\ rank_by' = rank_by
      /\ snaps'[p] = snaps[p] \/ snaps'[p] = Append(snaps[p], snap)
  BY PlayerInv, SnapType, PlayerType, MovesAre
<1>2. SnapsBefore(p)' = SnapsBefore(p) /\ SnapsBy(p, b)' = SnapsBy(p, b)
      /\ \A i \in DOMAIN snaps[p] : snaps'[p][i] = snaps[p][i]
  <2>1. CASE snaps'[p] = snaps[p]
    BY <2>1 DEF SnapsBefore, SnapsBy, SnapsWithin
  <2>2. CASE snaps'[p] = Append(snaps[p], snap)
    <3>1. /\ DOMAIN snaps'[p] = 1..(n + 1) /\ snaps'[p][n + 1] = snap
          /\ \A i \in 1..n : snaps'[p][i] = snaps[p][i]
      <4> HIDE DEF snap
      <4> QED
        BY <1>1, <2>2
    <3>2. snap.at = now + 1
      OBVIOUS
    <3> HIDE DEF snap, n
    <3>3. SnapsBefore(p)' = SnapsBefore(p)
      BY <1>1, <3>1, <3>2, WindowType DEF SnapsBefore
    <3>4. SnapsBy(p, b)' = SnapsBy(p, b)
      BY <1>1, <3>1, <3>2, WindowType DEF SnapsBy, SnapsWithin
    <3> QED
      BY <1>1, <3>1, <3>3, <3>4
  <2> QED
    BY <1>1, <2>1, <2>2
<1>3. PICK k \in DOMAIN snaps[p] : k = Max(SnapsBefore(p))
  BY SnapsAre, <1>1
<1>4. SnapBaseline(p) = IF Peak THEN snaps[p][k].row.peak ELSE snaps[p][k].row.cur
  BY <1>3 DEF SnapBaseline, Metric
<1>5. SnapBaseline(p)' = IF Peak THEN snaps'[p][k].row.peak ELSE snaps'[p][k].row.cur
  <2>1. SnapsBefore(p)' # {} /\ Max(SnapsBefore(p)') = k /\ (Peak' <=> Peak)
    BY <1>1, <1>2, <1>3 DEF Peak
  <2> QED
    BY <2>1 DEF SnapBaseline, Metric
<1>6. SnapsBy(p, b) \subseteq DOMAIN snaps[p]
  BY DEF SnapsBy, SnapsWithin
<1> QED
  BY <1>2, <1>3, <1>4, <1>5, <1>6

(* What was observed by the start, and since, is not above the live peak.  *)
LEMMA SeenIsLow ==
    ASSUME IInv, NEW p \in Players, p \notin rebased, SnapsBefore(p) # {}, Peak
    PROVE  /\ live[p] \in Row /\ live[p].peak <= account[p].peak
           /\ SnapBaseline(p) \in Nat /\ SnapBaseline(p) > 0
           /\ Account0[p].cur <= SnapBaseline(p) /\ SnapBaseline(p) <= live[p].peak
           /\ \A i \in DOMAIN snaps[p] : snaps[p][i].row.peak <= live[p].peak
<1> DEFINE n == Len(snaps[p])
<1>1. /\ DOMAIN snaps[p] = 1..n /\ n \in Nat
      /\ \A i \in DOMAIN snaps[p] : i \in Nat /\ snaps[p][i].row \in Row /\ snaps[p][i].row.peak \in Nat
      /\ Account0[p].cur \in Nat /\ Account0[p].peak \in Nat /\ Account0[p].cur <= Account0[p].peak
  BY PlayerInv, SnapType, PlayerType
<1>2. PICK k \in DOMAIN snaps[p] : /\ SnapBaseline(p) = Metric(snaps[p][k].row)
                                   /\ SnapBaseline(p) \in Nat /\ SnapBaseline(p) > 0
  BY <1>1, SnapsAre, BaselineIs
<1>3. n \in DOMAIN snaps[p] /\ snaps[p] # <<>>
  BY <1>1, <1>2, PlayerInv, SnapType
<1>4. live[p] = snaps[p][n].row /\ live[p].peak <= account[p].peak
  BY <1>3, PlayerInv DEF SnapsInOrder, PeaksInOrder
<1>5. ASSUME NEW i \in DOMAIN snaps[p]
      PROVE  snaps[p][i].row.peak <= live[p].peak
  BY <1>1, <1>3, <1>4, PeaksGrow
<1>6. SnapBaseline(p) = snaps[p][k].row.peak
  BY <1>1, <1>2, MetricType
<1>7. Account0[p].peak <= snaps[p][k].row.peak
  BY PlayerInv DEF PeaksInOrder, IsPeakAt
<1> QED
  BY <1>1, <1>2, <1>3, <1>4, <1>5, <1>6, <1>7

(* A game written late that ended since does not change what was charted,  *)
(* nor with a complete log before it where the line begins.                *)
LEMMA ChartedStays ==
    ASSUME IInv, Next, NEW p \in Players, p \notin rebased, NEW b \in Nat, Start <= b, Peak,
           SnapsBefore(p) # {}, PeakSeenByStart(p), Gapless(p), Gapless(p)',
           SnapBaseline(p)' = SnapBaseline(p),
           \A i \in recorded'[p] \ recorded[p] : games[p][i].at > b
    PROVE  /\ ChartedBy(p, b)' = ChartedBy(p, b)
           /\ \A i \in ChartedBy(p, b) : games'[p][i] = games[p][i]
           /\ Higher(SnapBaseline(p), EntryRating(p)') = Higher(SnapBaseline(p), EntryRating(p))
<1>1. /\ \A i \in DOMAIN games[p] : /\ games'[p][i] = games[p][i] /\ i \in Nat
                                    /\ games[p][i].at \in Nat /\ games[p][i].new \in Nat
      /\ recorded[p] \subseteq DOMAIN games[p]
      /\ \/ recorded'[p] = recorded[p]
         \/ \E i \in DOMAIN games[p] \ recorded[p] : recorded'[p] = recorded[p] \union {i}
  BY MovesAre, PlayerInv, GameType DEF GamesInOrder
<1>2. Charted(p) \subseteq DOMAIN games[p] /\ Charted(p) \subseteq Nat
      /\ \A i \in ChartedBy(p, b) : games'[p][i] = games[p][i]
  BY <1>1 DEF Charted, ChartedBy
<1>3. CASE recorded'[p] = recorded[p]
  <2>1. Charted(p)' = Charted(p)
    BY <1>1, <1>3 DEF Charted, Began
  <2>2. ChartedBy(p, b)' = ChartedBy(p, b)
    BY <1>1, <1>2, <2>1 DEF ChartedBy
  <2>3. EntryRating(p)' = EntryRating(p)
    <3>1. CASE Charted(p) = {}
      BY <2>1, <3>1 DEF EntryRating
    <3>2. CASE Charted(p) # {}
      <4>1. PICK k \in DOMAIN games[p] : k = Min(Charted(p))
        BY <1>2, <3>2, MinOf
      <4> QED
        BY <1>1, <2>1, <3>2, <4>1 DEF EntryRating
    <3> QED
      BY <3>1, <3>2
  <2> QED
    BY <1>2, <2>2, <2>3
<1>4. ASSUME NEW i \in DOMAIN games[p] \ recorded[p], recorded'[p] = recorded[p] \union {i}
      PROVE  /\ ChartedBy(p, b)' = ChartedBy(p, b)
             /\ Higher(SnapBaseline(p), EntryRating(p)') = Higher(SnapBaseline(p), EntryRating(p))
  <2>1. games[p][i].at > b /\ games[p][i].at \in Nat /\ games'[p][i] = games[p][i] /\ i \in Nat
    BY <1>1, <1>4
  <2>2. Charted(p)' \in {Charted(p), Charted(p) \union {i}}
    <3>1. Charted(p)' = Charted(p) \union {j \in {i} : Start <= Began(p, j) /\ Began(p, j) <= End}
      BY <1>1, <1>4 DEF Charted, Began
    <3> QED
      BY <3>1
  <2>3. ChartedBy(p, b)' = ChartedBy(p, b)
    BY <1>1, <1>2, <2>1, <2>2 DEF ChartedBy
  <2>4. CASE Charted(p)' = Charted(p) /\ Charted(p) = {}
    BY <2>3, <2>4 DEF EntryRating
  <2>5. CASE Charted(p)' = Charted(p) /\ Charted(p) # {}
    <3>1. PICK k \in DOMAIN games[p] : k = Min(Charted(p))
      BY <1>2, <2>5, MinOf
    <3>2. EntryRating(p)' = EntryRating(p)
      BY <1>1, <2>5, <3>1 DEF EntryRating
    <3> QED
      BY <2>3, <3>2
  <2>6. CASE Charted(p)' = Charted(p) \union {i} /\ Charted(p) # {}
    <3>1. PICK k \in Charted(p) : k = Min(Charted(p)) /\ \A j \in Charted(p) : k <= j
      BY <1>2, <2>6, MinOf
    <3>2. k \in Nat /\ k \in recorded[p] /\ k \in DOMAIN games[p]
      BY <1>1, <1>2 DEF Charted
    <3>3. k <= i
      <4> SUFFICES ASSUME i < k
                   PROVE  FALSE
        BY <2>1, <3>2
      <4>1. i \in 1..k /\ 1..k \subseteq recorded[p]
        BY <2>1, <1>4, <3>2, PlayerInv, GameType DEF Gapless
      <4> QED
        BY <1>4, <4>1
    <3>4. Min(Charted(p)') = k
      <4>1. Min(Charted(p)') \in Charted(p)' /\ \A j \in Charted(p)' : Min(Charted(p)') <= j
        <5>1. Charted(p)' \subseteq Nat /\ Charted(p)' # {}
          BY <1>2, <2>1, <2>6
        <5> QED
          BY <5>1, MinOf
      <4>2. k \in Charted(p)' /\ \A j \in Charted(p)' : k <= j /\ j \in Nat
        BY <1>2, <2>1, <2>6, <3>1, <3>3
      <4> QED
        BY <4>1, <4>2
    <3>5. EntryRating(p)' = EntryRating(p)
      BY <1>1, <2>6, <3>1, <3>2, <3>4 DEF EntryRating
    <3> QED
      BY <2>3, <3>5
  <2>7. CASE Charted(p)' = {i} /\ Charted(p) = {} /\ i \notin Charted(p)
    <3>1. EntryRating(p) = 0
      BY <2>7 DEF EntryRating
    <3>2. EntryRating(p)' = games[p][i].old
      <4>1. Min({i}) = i
        BY <2>1, MinOf
      <4> QED
        BY <1>1, <2>7, <4>1 DEF EntryRating
    <3>3. SnapBaseline(p) \in Nat /\ Account0[p].cur <= SnapBaseline(p) /\ Account0[p].cur \in Nat
      BY SeenIsLow, PlayerInv, PlayerType
    <3>4. games[p][i].old \in Nat /\ games[p][i].old <= SnapBaseline(p)
      <4>1. CASE games[p][i].old = Account0[p].cur
        BY <3>3, <4>1
      <4>2. CASE /\ i - 1 \in DOMAIN games[p] /\ games[p][i].old = games[p][i - 1].new
                 /\ games[p][i - 1].at < games[p][i].at
        <5>1. i - 1 \in recorded[p]
          <6>1. i \in recorded'[p] /\ i - 1 \in 1..i /\ i - 1 # i
            BY <1>4, <2>1, <4>2, PlayerInv, GameType
          <6>2. 1..i \subseteq recorded'[p]
            BY <6>1 DEF Gapless
          <6> QED
            BY <1>4, <6>1, <6>2
        <5>2. Began(p, i) <= End /\ Began(p, i)' = Began(p, i)
          BY <1>1, <2>1, <2>7 DEF Charted, Began
        <5>3. Began(p, i - 1) < Start
          <6>1. ~(Start <= Began(p, i - 1) /\ Began(p, i - 1) <= End)
            BY <2>7, <5>1 DEF Charted
          <6>2. games[p][i - 1].at \in Nat
            BY <1>1, <4>2
          <6> QED
            BY <2>1, <4>2, <5>2, <6>1, <6>2, WindowType DEF Began
        <5>4. games[p][i - 1].new <= SnapBaseline(p) /\ games[p][i - 1].new \in Nat
          BY <1>1, <4>2, <5>3 DEF PeakSeenByStart
        <5> QED
          BY <4>2, <5>4
      <4> QED
        BY <1>4, <3>3, <4>1, <4>2, HeldBefore
    <3> QED
      BY <2>3, <3>1, <3>2, <3>3, <3>4 DEF Higher
  <2> QED
    BY <1>4, <2>2, <2>4, <2>5, <2>6, <2>7 DEF Charted
<1> QED
  BY <1>1, <1>2, <1>3, <1>4

(* A poll raises the live row only, which the line was under already.      *)
LEMMA LineStays ==
    ASSUME IInv, Next, NEW p \in known \ rebased, NEW b \in Start..now,
           Peak, SnapsBefore(p) # {}, PeakSeenByStart(p), Start < now, Gapless(p), Gapless(p)',
           \A i \in Charted(p) : games[p][i].at <= b => games[p][i].new <= live[p].peak,
           \A i \in recorded'[p] \ recorded[p] : games[p][i].at > b
    PROVE  PeakAt(p, b)' = PeakAt(p, b)
<1> DEFINE S == {Higher(SnapBaseline(p), EntryRating(p))}
                    \union {games[p][i].new : i \in ChartedBy(p, b)}
                    \union {snaps[p][i].row.peak : i \in SnapsBy(p, b)}
<1>1. /\ p \in Players /\ p \notin rebased /\ now \in Nat /\ Start \in Nat /\ b \in Nat
      /\ Start <= b /\ b <= now
      /\ live[p].peak \in Nat /\ account[p].peak \in Nat
  BY PlayerInv, PlayerType, WindowType DEF IInv, TypeOK
<1>2. /\ SnapBaseline(p)' = SnapBaseline(p)
      /\ SnapsBy(p, b)' = SnapsBy(p, b)
      /\ \A i \in SnapsBy(p, b) : snaps'[p][i] = snaps[p][i]
  BY <1>1, SeenStays
<1>3. /\ ChartedBy(p, b)' = ChartedBy(p, b)
      /\ \A i \in ChartedBy(p, b) : games'[p][i] = games[p][i]
      /\ Higher(SnapBaseline(p), EntryRating(p)') = Higher(SnapBaseline(p), EntryRating(p))
  BY <1>1, <1>2, ChartedStays
<1>4. /\ live[p] \in Row /\ live[p].peak <= account[p].peak
      /\ SnapBaseline(p) \in Nat /\ SnapBaseline(p) > 0
      /\ Account0[p].cur <= SnapBaseline(p) /\ SnapBaseline(p) <= live[p].peak
      /\ \A i \in DOMAIN snaps[p] : snaps[p][i].row.peak <= live[p].peak
  BY <1>1, SeenIsLow
<1>5. live[p] # NoRow /\ live'[p] # NoRow
      /\ (live'[p] = live[p] \/ live'[p].peak = account[p].peak)
  BY <1>1, <1>4, RowType, MovesAre
<1>6. PeakAt(p, b) = Lower(Highest(S), live[p].peak)
  <2>1. BaselinePeak(p) = Higher(SnapBaseline(p), EntryRating(p))
    BY <1>4, <1>5 DEF BaselinePeak
  <2>2. PeakAt(p, b) = Lower(Highest({BaselinePeak(p)}
                            \union {games[p][i].new : i \in ChartedBy(p, b)}
                            \union {snaps[p][i].row.peak : i \in SnapsBy(p, b)}), live[p].peak)
    BY <1>5 DEF PeakAt
  <2> QED
    BY <2>1, <2>2
<1>7. PeakAt(p, b)' = Lower(Highest(S), live'[p].peak)
  <2>1. S = {Higher(SnapBaseline(p)', EntryRating(p)')}
                \union {games'[p][i].new : i \in ChartedBy(p, b)'}
                \union {snaps'[p][i].row.peak : i \in SnapsBy(p, b)'}
    BY <1>2, <1>3
  <2>2. BaselinePeak(p)' = Higher(SnapBaseline(p)', EntryRating(p)')
    BY <1>2, <1>4, <1>5 DEF BaselinePeak
  <2>3. PeakAt(p, b)' = Lower(Highest({BaselinePeak(p)'}
                            \union {games'[p][i].new : i \in ChartedBy(p, b)'}
                            \union {snaps'[p][i].row.peak : i \in SnapsBy(p, b)'}), live'[p].peak)
    BY <1>5 DEF PeakAt
  <2> HIDE DEF S
  <2> QED
    BY <2>1, <2>2, <2>3
<1>8. S \subseteq Nat /\ \A x \in S : x <= live[p].peak
  <2>1. EntryRating(p) \in Nat /\ EntryRating(p) <= live[p].peak
    <3>1. ASSUME NEW i \in Earlier(p)
          PROVE  games[p][i].new <= live[p].peak
      <4>1. i \in DOMAIN games[p] /\ Began(p, i) < Start /\ games[p][i].new \in Nat
        BY <1>1, GamesAre, PlayerInv, GameType DEF Earlier
      <4>2. games[p][i].new <= SnapBaseline(p)
        BY <4>1 DEF PeakSeenByStart
      <4> QED
        BY <1>1, <1>4, <4>1, <4>2
    <3>2. Account0[p].cur \in Nat /\ Account0[p].cur <= live[p].peak
      BY <1>1, <1>4, PlayerInv, PlayerType
    <3> QED
      BY <1>1, <3>1, <3>2, EntryIs
  <2>2. Higher(SnapBaseline(p), EntryRating(p)) \in Nat
        /\ Higher(SnapBaseline(p), EntryRating(p)) <= live[p].peak
    BY <1>1, <1>4, <2>1 DEF Higher
  <2>3. ASSUME NEW i \in ChartedBy(p, b)
        PROVE  games[p][i].new \in Nat /\ games[p][i].new <= live[p].peak
    <3>1. i \in Charted(p) /\ games[p][i].at <= b
      BY DEF ChartedBy
    <3> QED
      BY <1>1, <3>1, GamesAre, PlayerInv, GameType
  <2>4. ASSUME NEW i \in SnapsBy(p, b)
        PROVE  snaps[p][i].row.peak \in Nat /\ snaps[p][i].row.peak <= live[p].peak
    BY <1>1, <1>4, PlayerInv, SnapType DEF SnapsBy, SnapsWithin
  <2> QED
    BY <2>2, <2>3, <2>4
<1> HIDE DEF S
<1>9. Highest(S) \in Nat /\ Highest(S) <= live[p].peak
  <2>1. Highest(S) \in Nat /\ Highest(S) \in S \union {0}
    BY <1>1, <1>8, HighestOf
  <2> QED
    BY <1>1, <1>8, <2>1
<1>10. live'[p].peak \in Nat /\ live[p].peak <= live'[p].peak
  BY <1>1, <1>4, <1>5
<1> QED
  BY <1>1, <1>6, <1>7, <1>9, <1>10 DEF Lower

-----------------------------------------------------------------------------
(* Every change of positions is in the chart, at the time it happened.     *)
THEOREM EveryOrderIsAlwaysCharted == Spec => []EveryOrderIsCharted
  BY Invariance, ChartIsComplete, PTL

(* A line never stands above the peak its player had by then.              *)
THEOREM PeaksAreAlwaysEarned == Spec => []NoPeakBeforeItIsEarned
  BY Invariance, PeaksAreEarned, PTL

(* The last bucket of the chart is the table: while the window is open of  *)
(* all rows and teams, afterwards of whoever's log is complete.            *)
THEOREM ChartAlwaysEndsAtTable == Spec => []ChartEndsAtTable
  BY Invariance, ChartEnds, PTL

(* The value of a line at a time that has been moves again only by a game  *)
(* of then that is written late, a gap in the log, a live row behind what  *)
(* is charted, or a peak that upstream lowers.                             *)
THEOREM PastStaysSettled == Spec => PastIsSettled
<1>1. IInv /\ [Next]_vars =>
         [\A p \in known \ rebased : \A b \in Start..now :
             (/\ Peak /\ SnapsBefore(p) # {} /\ PeakSeenByStart(p)
              /\ Start < now /\ Gapless(p) /\ Gapless(p)'
              /\ \A i \in Charted(p) : games[p][i].at <= b => games[p][i].new <= live[p].peak
              /\ \A i \in recorded'[p] \ recorded[p] : games[p][i].at > b)
             => PeakAt(p, b)' = PeakAt(p, b)]_vars
  BY LineStays
<1> QED
  BY <1>1, Invariance, PTL DEF Spec, PastIsSettled
=============================================================================
