------------------------------ MODULE History ------------------------------
(***************************************************************************)
(* The standings, the team standings and the bump chart of positions over  *)
(* time (get_standings, get_team_standings and get_standings_history of    *)
(* src/app/routers/tournaments.py), while upstream, the stats poller with  *)
(* its snapshot log and the match log move on.                             *)
(*                                                                         *)
(* The tournament has both its dates.  A game takes one unit of time; 0 is *)
(* no rating.  The chart's sweep keeps a cursor per series; here each      *)
(* series is asked for its value as of a time.                             *)
(***************************************************************************)
EXTENDS Integers, Sequences, FiniteSets, SequencesExt, FiniteSetsExt

CONSTANTS
    Players,       \* roster rows linked to a profile
    Placeholders,  \* roster rows that are not
    Name,          \* [rows -> Nat], how the names sort
    Teams,         \* numbers
    TeamOf,        \* [rows -> Teams]
    Ratings,       \* positive naturals
    Account0,      \* what upstream reports of each player at time 0
    Live0,         \* player_ratings at time 0
    Modes,         \* values of rank_by to be checked
    Recorders,     \* times the ticks may begin to take snapshots at
    Start, End,    \* start_date and end_date
    Day,           \* length of a day
    Horizon,       \* bound on time
    MaxGames       \* bound on the games of each player

Rows  == Players \union Placeholders
NoRow == [cur |-> 0, peak |-> 0]
Row   == [cur : Ratings, peak : Ratings]

ASSUME ConstantsAssumption ==
    /\ Players \cap Placeholders = {}
    /\ Name \in [Rows -> Nat] /\ \A e, f \in Rows : Name[e] = Name[f] => e = f
    /\ Teams \subseteq Nat /\ TeamOf \in [Rows -> Teams]
    /\ Ratings \subseteq Nat \ {0}
    /\ {Account0, Live0} \subseteq [Players -> Row \union {NoRow}]
    /\ \A p \in Players : Account0[p].cur <= Account0[p].peak
                            /\ Live0[p] \in {NoRow, Account0[p]}
    /\ Modes \subseteq {"peak_rating", "current_rating"}
    /\ Start \in Nat /\ End \in Nat /\ Start < End /\ Day \in Nat \ {0}
    /\ Horizon \in Nat /\ Recorders \subseteq Nat /\ MaxGames \in [Players -> Nat]

VARIABLES
    rank_by,
    recorder,   \* when the stats poller began to take snapshots
    now,
    account,    \* upstream: current rating and highestrating
    rebased,    \* players whose peak upstream has lowered
    games,      \* finished games of each player, in order
    recorded,   \* which of them are in match_players
    known,      \* players with a players row
    live,       \* player_ratings
    snaps       \* player_rating_snapshots
config == <<rank_by, recorder>>
vars   == <<config, now, account, rebased, games, recorded, known, live, snaps>>

-----------------------------------------------------------------------------
Higher(a, b) == IF a >= b THEN a ELSE b
Lower(a, b)  == IF a <= b THEN a ELSE b
Highest(S)   == Max(S \union {0})

(* The first of some values that is one. *)
FirstOf(a, b, c) == IF a # 0 THEN a ELSE IF b # 0 THEN b ELSE c

Peak == rank_by = "peak_rating"
Metric(row) == IF Peak THEN row.peak ELSE row.cur
Other(row)  == IF Peak THEN row.cur ELSE row.peak

Began(p, i) == games[p][i].at - 1

(* Slip: the chart ends at the end of the window. *)
ChartedToEnd(p) == {i \in recorded[p] : Start <= Began(p, i) /\ games[p][i].at <= End}

(* Games begun in the window: one in flight at its end is charted when it  *)
(* is over, after the end.                                                 *)
Charted(p)  == {i \in recorded[p] : Start <= Began(p, i) /\ Began(p, i) <= End}
Earlier(p)  == {i \in recorded[p] : Began(p, i) < Start}

SnapsBefore(p) == {i \in DOMAIN snaps[p] : snaps[p][i].at <= Start}
SnapsWithin(p) == {i \in DOMAIN snaps[p] : Start < snaps[p][i].at /\ snaps[p][i].at <= End}

ChartedBy(p, b) == {i \in Charted(p) : games[p][i].at <= b}
SnapsBy(p, b)   == {i \in SnapsWithin(p) : snaps[p][i].at <= b}

(* Of roster rows, those linked to a profile not polled yet are held back. *)
Visible == Placeholders \union known

-----------------------------------------------------------------------------
(* Slip: what was observed last. *)
SnapBaselineLast(p) ==
    IF snaps[p] # <<>> THEN Metric(snaps[p][Len(snaps[p])].row) ELSE 0

(* Where a line begins: what was observed by the start, else observed      *)
(* first.                                                                  *)
SnapBaseline(p) ==
    IF SnapsBefore(p) # {} THEN Metric(snaps[p][Max(SnapsBefore(p))].row)
    ELSE IF SnapsWithin(p) # {} THEN Metric(snaps[p][Min(SnapsWithin(p))].row)
    ELSE 0

(* The rating held entering the window. *)
EntryRating(p) == IF Charted(p) = {} THEN 0 ELSE games[p][Min(Charted(p))].old

(* The peak of the games before the window that follow the last one above  *)
(* today's peak: that one is from before a rebase.                         *)
PreEventPeak(p) ==
    LET held(i) == Higher(games[p][i].old, games[p][i].new)
    IN  Highest({held(i) : i \in {j \in Earlier(p) :
                    \A k \in Earlier(p) : k >= j => held(k) <= live[p].peak}})

(* Slip: without an observation the live peak is carried in. *)
BaselineLive(p) ==
    LET base == IF SnapBaseline(p) # 0 THEN SnapBaseline(p) ELSE live[p].peak
    IN  IF live[p] = NoRow THEN 0 ELSE Higher(base, EntryRating(p))

BaselinePeak(p) ==
    LET in_event == Highest({games[p][i].new : i \in Charted(p)})
        carried  == IF live[p].peak > in_event THEN live[p].peak ELSE PreEventPeak(p)
        base     == IF SnapBaseline(p) # 0 THEN SnapBaseline(p) ELSE carried
    IN  IF live[p] = NoRow THEN 0 ELSE Higher(base, EntryRating(p))

BaselineCurrent(p) ==
    IF live[p] = NoRow THEN 0 ELSE FirstOf(EntryRating(p), SnapBaseline(p), live[p].cur)

LastRating(p, b) == IF ChartedBy(p, b) = {} THEN 0 ELSE games[p][Max(ChartedBy(p, b))].new

PeakAt(p, b) ==
    LET peak == Highest({BaselinePeak(p)} \union {games[p][i].new : i \in ChartedBy(p, b)}
                            \union {snaps[p][i].row.peak : i \in SnapsBy(p, b)})
    IN  IF live[p] # NoRow THEN Lower(peak, live[p].peak) ELSE peak

(* The last of games and observations; a game wins a tie.                  *)
CurrentAt(p, b) ==
    LET game == ChartedBy(p, b)
        snap == SnapsBy(p, b)
    IN  IF game # {} /\ (snap # {} => games[p][Max(game)].at >= snaps[p][Max(snap)].at)
        THEN LastRating(p, b)
        ELSE IF snap # {} THEN snaps[p][Max(snap)].row.cur ELSE BaselineCurrent(p)

MetricAt(e, b) ==
    IF e \in Placeholders THEN 0
    ELSE IF Peak THEN PeakAt(e, b)
    ELSE CurrentAt(e, b)

OtherAt(e, b) ==
    IF e \in Placeholders THEN 0
    ELSE IF Peak THEN FirstOf(LastRating(e, b), live[e].cur, 0)
    ELSE live[e].peak

(* Every visible row with what it ranks on as of a time.                   *)
KeysAt(b) == {[metric |-> MetricAt(e, b), other |-> OtherAt(e, b), row |-> e] : e \in Visible}

(* Metric, then the other rating, then name; who has none comes last. *)
Ahead(k, l) ==
    \/ k.metric > l.metric
    \/ k.metric = l.metric /\ k.other > l.other
    \/ k.metric = l.metric /\ k.other = l.other /\ Name[k.row] < Name[l.row]

Listed(S) == FoldSet(LAMBDA x, s : Append(s, x), <<>>, S)

TeamKeys(keys) ==
    {[team |-> t, sum |-> MapThenSumSet(LAMBDA k : k.metric, {k \in keys : TeamOf[k.row] = t})]
        : t \in Teams}
TeamAhead(t, u) == t.sum > u.sum \/ (t.sum = u.sum /\ t.team < u.team)

Ranked(keys) ==
    LET rows == SortSeq(Listed(keys), Ahead)  IN  [i \in DOMAIN rows |-> rows[i].row]

RankedTeams(keys) ==
    LET sums == SortSeq(Listed(TeamKeys(keys)), TeamAhead)  IN  [i \in DOMAIN sums |-> sums[i].team]

(* All positions as of a time. *)
Vector(b) == LET keys == KeysAt(b)  IN  <<Ranked(keys), RankedTeams(keys)>>

(* Midnights from the start to the last event, and the events. *)
EventTimes ==
    UNION {{games[p][i].at : i \in Charted(p)} \union {snaps[p][i].at : i \in SnapsWithin(p)}
              : p \in known}
EndDay  == (IF EventTimes = {} THEN Start ELSE Max(EventTimes)) \div Day
Anchors == {d * Day : d \in Lower(Start \div Day, EndDay)..EndDay}
Candidates == Anchors \union EventTimes
Final      == Max(Candidates)

Orders     == {[at |-> b, order |-> Vector(b)] : b \in Candidates}

(* Slip: a bucket is emitted at the anchors and the end only. *)
EmittedDaily(o, orders, kept) == o.at \in kept

(* A bucket is emitted at an anchor, at the end, and when positions are    *)
(* not those of the bucket before.                                         *)
Emitted(o, orders, kept) ==
    \/ o.at \in kept
    \/ \E q \in orders :
           /\ q.at < o.at /\ q.order # o.order
           /\ \A r \in orders : r.at < o.at => r.at <= q.at

Buckets(orders) ==
    LET kept == Anchors \union {Final}  IN  {o \in orders : Emitted(o, orders, kept)}

-----------------------------------------------------------------------------
(* The table: live until the end, then as of the end (see Freeze).         *)
Closed == now >= End

Begun(p)     == {i \in recorded[p] : Began(p, i) <= End}
SeenByEnd(p) == {i \in DOMAIN snaps[p] : snaps[p][i].at <= End}

FrozenPeak(p) ==
    LET known_by == {snaps[p][i].row.peak : i \in SeenByEnd(p)}
                        \union {games[p][i].new : i \in Begun(p)}
        peak     == FirstOf(Highest(known_by), live[p].peak, 0)
    IN  IF live[p] # NoRow THEN Lower(peak, live[p].peak) ELSE peak

FrozenCurrent(p) ==
    FirstOf(IF Begun(p) = {} THEN 0 ELSE games[p][Max(Begun(p))].new,
            IF SeenByEnd(p) = {} THEN 0 ELSE snaps[p][Max(SeenByEnd(p))].row.cur,
            live[p].cur)

RankMetric(e) ==
    IF e \in Placeholders THEN 0
    ELSE IF ~Closed THEN Metric(live[e])
    ELSE IF Peak THEN FrozenPeak(e)
    ELSE FrozenCurrent(e)

TableKeys ==
    {[metric |-> RankMetric(e), row |-> e,
      other |-> IF e \in Placeholders THEN 0 ELSE Other(live[e])] : e \in Visible}

Standings == Ranked(TableKeys)

TeamStandings == TeamKeys(TableKeys)

-----------------------------------------------------------------------------
Init ==
    /\ rank_by \in Modes
    /\ recorder \in Recorders
    /\ now = 0
    /\ account = Account0
    /\ rebased = {}
    /\ games = [p \in Players |-> <<>>]
    /\ recorded = [p \in Players |-> {}]
    /\ known = {p \in Players : Live0[p] # NoRow}
    /\ live = Live0
    /\ snaps = [p \in Players |-> <<>>]

Passes == now < Horizon /\ now' = now + 1

(* Nothing happens, or a tick fails. *)
Quiet == Passes /\ UNCHANGED <<config, account, rebased, games, recorded, known, live, snaps>>

(* A game of a player ends upstream. *)
Finish(p, rating) ==
    /\ Passes
    /\ Len(games[p]) < MaxGames[p]
    /\ games' = [games EXCEPT ![p] =
                    Append(@, [at |-> now + 1, old |-> account[p].cur, new |-> rating])]
    /\ account' = [account EXCEPT ![p] = [cur |-> rating, peak |-> Higher(@.peak, rating)]]
    /\ UNCHANGED <<config, rebased, recorded, known, live, snaps>>

(* Upstream lowers a peak it reports to the current rating. *)
Rebase(p) ==
    /\ p \notin rebased /\ account[p].cur < account[p].peak
    /\ account' = [account EXCEPT ![p].peak = account[p].cur]
    /\ rebased' = rebased \union {p}
    /\ UNCHANGED <<config, now, games, recorded, known, live, snaps>>

(* The recent-matches poller writes a game. *)
Record(p, i) ==
    /\ i \in DOMAIN games[p] \ recorded[p]
    /\ recorded' = [recorded EXCEPT ![p] = @ \union {i}]
    /\ UNCHANGED <<config, now, account, rebased, games, known, live, snaps>>

LastSnap(p) == IF snaps[p] = <<>> THEN NoRow ELSE snaps[p][Len(snaps[p])].row

(* A tick of the stats poller: a snapshot of each rating that differs from *)
(* the last, and the live rows.                                            *)
Poll ==
    /\ Passes
    /\ known' = Players
    /\ live' = [p \in Players |-> IF account[p] # NoRow THEN account[p] ELSE live[p]]
    /\ snaps' = [p \in Players |->
                    IF account[p] \in {NoRow, LastSnap(p)} \/ now + 1 < recorder THEN snaps[p]
                    ELSE Append(snaps[p], [at |-> now + 1, row |-> account[p]])]
    /\ UNCHANGED <<config, account, rebased, games, recorded>>

Next ==
    \/ Quiet
    \/ Poll
    \/ \E p \in Players, r \in Ratings : Finish(p, r)
    \/ \E p \in Players : Rebase(p)
    \/ \E p \in Players : \E i \in 1..MaxGames[p] : Record(p, i)

Spec == Init /\ [][Next]_vars

-----------------------------------------------------------------------------
Game == [at : Nat, old : Ratings \union {0}, new : Ratings]
Snap == [at : Nat, row : Row]

TypeOK ==
    /\ rank_by \in Modes
    /\ recorder \in Nat /\ now \in Nat
    /\ account \in [Players -> Row \union {NoRow}]
    /\ rebased \subseteq Players
    /\ games \in [Players -> Seq(Game)]
    /\ recorded \in [Players -> SUBSET Nat]
    /\ known \subseteq Players
    /\ live \in [Players -> Row \union {NoRow}]
    /\ snaps \in [Players -> Seq(Snap)]

(* The rating after so many games. *)
RatingAfter(p, n) == IF n = 0 THEN Account0[p].cur ELSE games[p][n].new

(* The games of a player follow one another up to what upstream reports.   *)
GamesInOrder(p) ==
    /\ \A i \in DOMAIN games[p] :
          /\ games[p][i].at <= now
          /\ games[p][i].old = RatingAfter(p, i - 1)
    /\ \A i, j \in DOMAIN games[p] : i < j => games[p][i].at < games[p][j].at
    /\ account[p].cur = RatingAfter(p, Len(games[p]))
    /\ recorded[p] \subseteq DOMAIN games[p]

(* The peak of a player by a time, when upstream has not lowered it.       *)
IsPeakAt(p, x, b) ==
    /\ Account0[p].peak <= x
    /\ \A i \in DOMAIN games[p] : games[p][i].at <= b => games[p][i].new <= x
    /\ \/ x = Account0[p].peak
       \/ \E i \in DOMAIN games[p] : games[p][i].at <= b /\ x = games[p][i].new

(* A snapshot has the ratings of its time, and the last is the live row.   *)
SnapsInOrder(p) ==
    /\ \A i \in DOMAIN snaps[p] :
          /\ snaps[p][i].at <= now
          /\ \E n \in 0..Len(games[p]) :
                /\ snaps[p][i].row.cur = RatingAfter(p, n)
                /\ \A j \in DOMAIN games[p] : games[p][j].at <= snaps[p][i].at <=> j <= n
    /\ \A i, j \in DOMAIN snaps[p] : i < j => snaps[p][i].at < snaps[p][j].at
    /\ snaps[p] # <<>> => recorder <= now /\ live[p] = snaps[p][Len(snaps[p])].row

PeaksInOrder(p) ==
    p \notin rebased =>
        /\ IsPeakAt(p, account[p].peak, now)
        /\ live[p].peak <= account[p].peak
        /\ \A i \in DOMAIN snaps[p] : IsPeakAt(p, snaps[p][i].row.peak, snaps[p][i].at)

(* No rating of a player is above a greatest one.                          *)
HasTop(p) ==
    \E top \in Ratings \union {0} :
        /\ Account0[p].peak <= top /\ account[p].peak <= top /\ live[p].peak <= top
        /\ \A i \in DOMAIN games[p] : games[p][i].new <= top
        /\ \A i \in DOMAIN snaps[p] : snaps[p][i].row.peak <= top

IInv ==
    /\ TypeOK
    /\ \A p \in Players : GamesInOrder(p) /\ SnapsInOrder(p) /\ PeaksInOrder(p) /\ HasTop(p)

-----------------------------------------------------------------------------
(* The tables have all there is of a player. *)
CaughtUp(p) == live[p] = account[p] /\ recorded[p] = DOMAIN games[p]

(* By the end a tick has come after the last game from before the window. *)
EntryObserved(p) ==
    \E i \in SeenByEnd(p) : \A j \in Earlier(p) : games[p][j].at <= snaps[p][i].at

(* "The latest bucket therefore always equals the live /standings order"   *)
(* (tournaments.py:2146): it does when the window is open and the tables   *)
(* have caught up with upstream, in either mode, for players and for the   *)
(* sums of teams, through rebases, gaps in polling and late games.  After  *)
(* the end the values ranked on agree, also by a game in flight at the     *)
(* end: the frozen table counts it (:1036-1053) and the chart does         *)
(* (:2239-2249), although the docstring of the frozen peak says that such  *)
(* a game lifts the table above the final bucket, "which is capped at the  *)
(* bound by construction" (:971-974).                                      *)
ChartEndsAtTable ==
    /\ (~Closed /\ \A p \in Players : CaughtUp(p)) =>
           /\ Vector(Final)[1] = Standings
           /\ TeamKeys(KeysAt(Final)) = TeamStandings
    /\ Closed => \A p \in known \ rebased :
           (recorded[p] = DOMAIN games[p] /\ EntryObserved(p)) =>
               MetricAt(p, Final) = RankMetric(p)

(* Every order the table went through is in the chart: at any time of an   *)
(* event, positions are those of the last bucket emitted                   *)
(* (tournaments.py:2558-2577).                                             *)
EveryOrderIsCharted ==
    LET orders  == Orders
        emitted == Buckets(orders)
    IN  \A o \in orders : \E c \in emitted :
            /\ c.at <= o.at /\ c.order = o.order
            /\ \A d \in emitted : d.at <= o.at => d.at <= c.at

(* What upstream's peak was at a time. *)
TruePeak(p, b) ==
    Highest({Account0[p].peak} \union {games[p][i].new : i \in {j \in DOMAIN games[p] : games[p][j].at <= b}})

(* The match log has no game that follows one it does not have.            *)
Gapless(p) == \A i \in recorded[p] : 1..i \subseteq recorded[p]

(* No peak is shown before it is earned: a line never stands above the     *)
(* peak its player had by then, when observed by the start (and the log    *)
(* has no gap, or the rating before its first game is of a later time) or, *)
(* without any observation in the window, when the log has every game and  *)
(* none began after the window (tournaments.py:2371-2414).                 *)
NoPeakBeforeItIsEarned ==
    Peak => \A p \in known \ rebased : \A b \in Candidates :
        (/\ b >= Start
         /\ \/ SnapsBefore(p) # {} /\ Gapless(p)
            \/ /\ SnapsWithin(p) = {} /\ recorded[p] = DOMAIN games[p]
               /\ \A i \in recorded[p] : Began(p, i) <= End)
        => PeakAt(p, b) <= TruePeak(p, b)

PeakSeenByStart(p) ==
    \A i \in DOMAIN games[p] : Began(p, i) < Start => games[p][i].new <= SnapBaseline(p)

(* What is charted is settled: the value of a line at a past time moves    *)
(* again only if a game that ended by then is written late, the log has a  *)
(* gap, a game from before the window ended after the last observation     *)
(* by the start, the live row had not yet caught up with the games charted *)
(* by then, or upstream has lowered the peak, under which the line is then *)
(* clamped while it climbs anew ("past buckets stay stable", :2147).       *)
PastIsSettled ==
    [][\A p \in known \ rebased : \A b \in Start..now :
          (/\ Peak /\ SnapsBefore(p) # {} /\ PeakSeenByStart(p)
           /\ Start < now /\ Gapless(p) /\ Gapless(p)'
           /\ \A i \in Charted(p) : games[p][i].at <= b => games[p][i].new <= live[p].peak
           /\ \A i \in recorded'[p] \ recorded[p] : games[p][i].at > b)
          => PeakAt(p, b)' = PeakAt(p, b)]_vars
=============================================================================
