----------------------------- MODULE MatchStats -----------------------------
(***************************************************************************)
(* What the read endpoints fold out of the match log: win/loss records,    *)
(* streaks, recent matchups, civilization counts, head-to-head games,      *)
(* rating progression and the summary cards                                *)
(* (src/app/routers/tournaments.py:571-944 and :1561-2090), while the      *)
(* poller goes on writing games, in any order.  GET /summary reads the log *)
(* in several statements, each of which sees what is committed by then.    *)
(*                                                                         *)
(* A game is named by the time it started at; no player is in two at once, *)
(* so its completion has the same place in the order.                      *)
(***************************************************************************)
EXTENDS Integers, Sequences, FiniteSets, FiniteSetsExt

CONSTANTS
    Profiles,    \* ladder players, of whom the tournament has
    Entrants,    \* these as linked roster rows; numbers, as in the database
    Plays,       \* [set of times -> the games that may be played then]
    Start, End,  \* the tournament's window, None when open
    Unknown,     \* UNKNOWN_CIVILIZATION_ID
    Limit,       \* _RECENT_RESULTS_LIMIT
    MinGames,    \* win_rate_min_games
    None

Times == DOMAIN Plays

ASSUME ConstantsAssumption ==
    /\ Entrants \subseteq Profiles /\ Profiles \subseteq Nat /\ IsFiniteSet(Entrants)
    /\ Times \subseteq Nat
    /\ {Start, End} \subseteq Nat \union {None} /\ None \notin Nat
    /\ Limit \in Nat \ {0} /\ MinGames \in Nat \ {0}

VARIABLES
    log,      \* matches and match_players: the games recorded
    request   \* GET /summary between its statements
vars == <<log, request>>

(* A game: whether it is on the tournament's leaderboard and is completed, *)
(* and each player's team, outcome, new rating and civilization.           *)
Games == UNION {Plays[t] : t \in Times}

-----------------------------------------------------------------------------
(* The window, its bounds included; a null bound is open.                  *)
InWindow(t) == (Start # None => t >= Start) /\ (End # None => t <= End)

Side(t, p)   == log[t].sides[p]
Played(p)    == {t \in DOMAIN log : log[t].ours /\ p \in DOMAIN log[t].sides}
Settled(p)   == {t \in Played(p) : Side(t, p).outcome # None}

Counted(p) == {t \in Settled(p) : InWindow(t)}
Won(p)     == {t \in Counted(p) : Side(t, p).outcome = "win"}

(* Games in order: the i-th has i - 1 before it. *)
NewestFirst(S) ==
    [i \in 1..Cardinality(S) |-> CHOOSE t \in S : Cardinality({u \in S : u > t}) = i - 1]
OldestFirst(S) ==
    [i \in 1..Cardinality(S) |-> CHOOSE t \in S : Cardinality({u \in S : u < t}) = i - 1]
Capped(s) == SubSeq(s, 1, IF Len(s) < Limit THEN Len(s) ELSE Limit)

(* The lifetime form of a standings row. *)
RecentResults(p) == Capped([i \in DOMAIN NewestFirst(Settled(p)) |->
                                Side(NewestFirst(Settled(p))[i], p).outcome])

(* One game of the pass from newest to oldest: best is the longest run so  *)
(* far with its oldest and newest win, run and last are of the current one.*)
NoRun == [best |-> 0, from |-> None, to |-> None, run |-> 0, last |-> None]

(* Slip: a run as long as the best one replaces it. *)
PassAtLeast(acc, t, win) ==
    IF ~win THEN [acc EXCEPT !.run = 0]
    ELSE LET r == acc.run + 1
             e == IF acc.run = 0 THEN t ELSE acc.last
         IN  IF r >= acc.best THEN [best |-> r, from |-> t, to |-> e, run |-> r, last |-> e]
             ELSE [acc EXCEPT !.run = r, !.last = e]

Pass(acc, t, win) ==
    IF ~win THEN [acc EXCEPT !.run = 0]
    ELSE LET r == acc.run + 1
             e == IF acc.run = 0 THEN t ELSE acc.last
         IN  IF r > acc.best THEN [best |-> r, from |-> t, to |-> e, run |-> r, last |-> e]
             ELSE [acc EXCEPT !.run = r, !.last = e]

(* Down the games C, of which W are won: scan[t] has seen t and later. *)
LongestRun(C, W) ==
    LET newest == Max(C)
        scan[t \in 0..(newest + 1)] ==
            IF t = newest + 1 THEN NoRun
            ELSE IF t \in C THEN Pass(scan[t + 1], t, t \in W) ELSE scan[t + 1]
    IN  IF C = {} THEN NoRun ELSE scan[0]

(* Slip: the window is left out of the second query. *)
LongestWinRunEver(p) ==
    LongestRun(Settled(p), {t \in Settled(p) : Side(t, p).outcome = "win"})

LongestWinRun(p) == LongestRun(Counted(p), Won(p))

(* The leading run of one outcome: positive for wins. *)
Streak(p) ==
    LET lead == Side(Max(Counted(p)), p).outcome
        run  == {t \in Counted(p) :
                    \A u \in Counted(p) : u >= t => Side(u, p).outcome = lead}
    IN  IF Counted(p) = {} THEN 0
        ELSE IF lead = "win" THEN Cardinality(run) ELSE -Cardinality(run)

(* The other side of a game; who has no team opposes everyone. *)
Opponents(t, p) ==
    {q \in DOMAIN log[t].sides \ {p} :
        None \in {Side(t, q).team, Side(t, p).team} \/ Side(t, q).team # Side(t, p).team}

(* A matchup: the opponents, linked to their roster rows, and the one      *)
(* opponent of a duel.                                                     *)
Matchup(t, p) ==
    LET opps == Opponents(t, p)
    IN  [game |-> t, outcome |-> Side(t, p).outcome, opponents |-> opps,
         linked |-> opps \cap Entrants,
         single |-> IF Cardinality(opps) = 1 THEN CHOOSE q \in opps : TRUE ELSE None]

RecentMatchups(p) ==
    LET rows == Capped(NewestFirst(Counted(p)))
    IN  [i \in DOMAIN rows |-> Matchup(rows[i], p)]

Highest(S) == IF S = {} THEN None ELSE Max(S)

Record(p) ==
    [games_played |-> Cardinality(Counted(p)), wins |-> Cardinality(Won(p)),
     losses |-> Cardinality(Counted(p)) - Cardinality(Won(p)),
     streak |-> Streak(p), longest |-> LongestWinRun(p).best,
     peak |-> Highest({Side(t, p).rating : t \in Counted(p)} \ {None}),
     latest |-> Highest(Counted(p))]

(* Per mille, as win_pct rounds it. *)
WinPct(r) ==
    IF r.games_played = 0 THEN None
    ELSE (1000 * r.wins + r.games_played \div 2) \div r.games_played

(* From the first rated game of the window to the last. *)
NetRatingChange(p) ==
    LET rated == {t \in Counted(p) : Side(t, p).rating # None}
    IN  IF Cardinality(rated) < 2 THEN None
        ELSE Side(Max(rated), p).rating - Side(Min(rated), p).rating

(* The points of a rating chart, oldest first. *)
Progression(p) ==
    LET rated == {t \in Played(p) : log[t].done /\ InWindow(t) /\ Side(t, p).rating # None}
    IN  [i \in 1..Cardinality(rated) |-> Side(OldestFirst(rated)[i], p).rating]

(* Picks and wins of a player with each civilization; the sentinel is not  *)
(* one.                                                                    *)
CivCounts(p) ==
    LET on(c) == {t \in Counted(p) : Side(t, p).civ = c}
    IN  [c \in {Side(t, p).civ : t \in Counted(p)} \ {Unknown} |->
            [picks |-> Cardinality(on(c)), wins |-> Cardinality(on(c) \cap Won(p))]]

(* The sum of f over the players S. *)
Total(f, S) ==
    LET last == Max(S)
        sum[p \in 0..(last + 1)] ==
            IF p = last + 1 THEN 0
            ELSE IF p \in S THEN sum[p + 1] + f[p] ELSE sum[p + 1]
    IN  IF S = {} THEN 0 ELSE sum[0]

(* The counts of several players together: all entrants, or a team. *)
Merged(S) ==
    LET with(c) == {p \in S : c \in DOMAIN CivCounts(p)}
    IN  [c \in UNION {DOMAIN CivCounts(p) : p \in S} |->
            [picks |-> Total([p \in with(c) |-> CivCounts(p)[c].picks], with(c)),
             wins  |-> Total([p \in with(c) |-> CivCounts(p)[c].wins], with(c))]]

(* Slip: two entrants are enough, be they on one team. *)
HeadToHeadAllies ==
    {t \in DOMAIN log :
        /\ log[t].ours /\ log[t].done /\ InWindow(t)
        /\ Cardinality(Entrants \cap DOMAIN log[t].sides) >= 2}

(* Completed games with entrants on two sides at least. *)
HeadToHead ==
    {t \in DOMAIN log :
        LET us == Entrants \cap DOMAIN log[t].sides
        IN  /\ log[t].ours /\ log[t].done /\ InWindow(t)
            /\ Cardinality(us) >= 2
            /\ Cardinality({Side(t, p).team : p \in us} \ {None}) >= 2}

-----------------------------------------------------------------------------
(* The leader of a card: the highest value, then the most games, then the  *)
(* older roster row.                                                       *)
Above(value, record, p, q) ==
    \/ value[p] > value[q]
    \/ /\ value[p] = value[q]
       /\ \/ record[p].games_played > record[q].games_played
          \/ record[p].games_played = record[q].games_played /\ p < q

PickLeader(value, record) ==
    LET able == {p \in Entrants : value[p] # None}
    IN  IF able = {} THEN None
        ELSE CHOOSE p \in able : \A q \in able \ {p} : Above(value, record, p, q)

PositiveOrNone(n) == IF n > 0 THEN n ELSE None

Idle == [pc |-> "idle"]

Init == log = <<>> /\ request = Idle

(* The poller commits a game. *)
Commit(t, g) ==
    /\ t \notin DOMAIN log
    /\ log' = [u \in DOMAIN log \union {t} |-> IF u = t THEN g ELSE log[u]]
    /\ UNCHANGED request

(* The records, and what the cards make of them. *)
ReadRecords ==
    /\ request.pc = "idle"
    /\ LET record == [p \in Entrants |-> Record(p)]
           runs   == [p \in Entrants |-> PositiveOrNone(record[p].longest)]
           played == [p \in Entrants |-> PositiveOrNone(record[p].games_played)]
           pct    == [p \in Entrants |-> IF record[p].games_played >= MinGames
                                         THEN WinPct(record[p]) ELSE None]
           leader == PickLeader(runs, record)
       IN  request' = [pc |-> "climb", record |-> record, asOf |-> DOMAIN log,
                       streak |-> leader,
                       value |-> IF leader = None THEN 0 ELSE runs[leader],
                       most_games_played |-> PickLeader(played, record),
                       best_win_rate |-> PickLeader(pct, record)]
    /\ UNCHANGED log

(* The rating changes: the biggest climber, ties by the records of before. *)
ReadChanges ==
    /\ request.pc = "climb"
    /\ LET change == [p \in Entrants |-> NetRatingChange(p)]
       IN  request' = [pc |-> "dates", asOf |-> request.asOf, record |-> request.record,
                       streak |-> request.streak, value |-> request.value,
                       most_games_played |-> request.most_games_played,
                       best_win_rate |-> request.best_win_rate,
                       biggest_climber |-> PickLeader(change, request.record)]
    /\ UNCHANGED log

(* The dates of the streak leader's run, in a query of its own. *)
ReadDates ==
    /\ request.pc = "dates"
    /\ LET run == LongestWinRun(request.streak)
       IN  request' = [pc |-> "answered", asOf |-> request.asOf,
                       streak |-> request.streak, value |-> request.value,
                       from |-> IF request.streak = None THEN None ELSE run.from,
                       to   |-> IF request.streak = None THEN None ELSE run.to]
    /\ UNCHANGED log

Answer ==
    /\ request.pc = "answered"
    /\ request' = Idle
    /\ UNCHANGED log

Next ==
    \/ \E t \in Times : \E g \in Plays[t] : Commit(t, g)
    \/ ReadRecords
    \/ ReadChanges
    \/ ReadDates
    \/ Answer

Spec == Init /\ [][Next]_vars

-----------------------------------------------------------------------------
(* A win streak is what it is called: no interval of a player's games that *)
(* are all wins is longer than the run the one-pass scan returns, its      *)
(* dates delimit exactly that many wins and no other game, and of two runs *)
(* as long the later one is reported; the current streak is never above it *)
(* (tournaments.py:571-601, :797-812).  Of the log alone, so looked at      *)
(* between requests, as is ViewsAgree.                                     *)
Between(p, a, b) == {t \in Counted(p) : a <= t /\ t <= b}
RunLengths(p, S) == {Cardinality(Between(p, w[1], w[2])) :
                        w \in {v \in S \X S : Between(p, v[1], v[2]) \subseteq Won(p)}}

RunsAreLongest ==
    request = Idle => \A p \in Entrants :
        LET run == LongestWinRun(p)
        IN  /\ run.best = Max({0} \union RunLengths(p, Won(p)))
            /\ run.best > 0 =>
                   /\ {run.from, run.to} \subseteq Won(p)
                   /\ Between(p, run.from, run.to) \subseteq Won(p)
                   /\ Cardinality(Between(p, run.from, run.to)) = run.best
                   /\ run.best \notin RunLengths(p, {t \in Won(p) : t > run.from})
            /\ Streak(p) <= run.best

(* The streak card is true of one moment: its dates delimit the run of the *)
(* length it states, unless a game of the leader was committed between the *)
(* two queries that it is read by (tournaments.py:871-880 says the lengths *)
(* are equal; the second query comes at :1860-1862).                       *)
CardSpansItsValue ==
    \A p \in Entrants :
        (request.pc = "answered" /\ request.streak = p /\ Counted(p) \subseteq request.asOf)
        => request.value = Cardinality(Between(p, request.from, request.to))

(* The views of one game agree: two entrants of a head-to-head game each   *)
(* find an entrant among their opponents, and entrants who oppose each     *)
(* other with teams known are in the feed once the game is over; the       *)
(* lifetime form of who has played in the window only is that of the       *)
(* matchups; the merged counts have the civilizations played, the unknown  *)
(* one aside, and each pick and win once; the climber's change is the      *)
(* chart's, when the games over are those with an outcome                  *)
(* (tournaments.py:437-471, :739-754, :1600-1700, :1934-1953, :899-944,    *)
(* :2006-2090).                                                            *)
HeadToHeadIsMutual ==
    \A t \in HeadToHead : \E p, q \in Entrants \cap DOMAIN log[t].sides :
        p \in Opponents(t, q) /\ q \in Opponents(t, p)

OpponentsMeet ==
    \A p \in Entrants : \A t \in Counted(p) : \A q \in Opponents(t, p) \cap Entrants :
        log[t].done => t \in HeadToHead \/ None \in {Side(t, p).team, Side(t, q).team}

FormsAgree ==
    \A p \in Entrants : Settled(p) = Counted(p) =>
        RecentResults(p) = [i \in DOMAIN RecentMatchups(p) |-> RecentMatchups(p)[i].outcome]

CountsAddUp ==
    \A S \in SUBSET Entrants :
        LET known == {k \in (DOMAIN log) \X S :
                         k[1] \in Counted(k[2]) /\ Side(k[1], k[2]).civ # Unknown}
            on(c) == {k \in known : Side(k[1], k[2]).civ = c}
        IN  /\ DOMAIN Merged(S) = {Side(k[1], k[2]).civ : k \in known}
            /\ \A c \in DOMAIN Merged(S) :
                   /\ Merged(S)[c].picks = Cardinality(on(c))
                   /\ Merged(S)[c].wins = Cardinality({k \in on(c) : k[1] \in Won(k[2])})

ClimbsAsCharted ==
    \A p \in Entrants :
        LET chart == Progression(p)
        IN  (\A t \in Played(p) : log[t].done <=> Side(t, p).outcome # None)
            => NetRatingChange(p) = IF Len(chart) < 2 THEN None
                                    ELSE chart[Len(chart)] - chart[1]

ViewsAgree ==
    request = Idle =>
        HeadToHeadIsMutual /\ OpponentsMeet /\ FormsAgree /\ CountsAddUp /\ ClimbsAsCharted

-----------------------------------------------------------------------------
(* The inductive invariant of the streak card: until the dates are read,   *)
(* the value is the longest run of the leader's games as of the first      *)
(* query.                                                                  *)
LogIsBounded ==
    DOMAIN log \subseteq Times /\ \E b \in DOMAIN log \union {0} : \A t \in DOMAIN log : t <= b

Steps == {"idle", "climb", "dates", "answered"}

ValueIsAsOf ==
    \A p \in Entrants :
        request.pc \in {"climb", "dates"} /\ request.streak = p
        => LET run == LongestRun(Counted(p) \cap request.asOf, Won(p) \cap request.asOf)
           IN  request.value = run.best /\ run.best > 0

IInv ==
    /\ LogIsBounded
    /\ request.pc \in Steps
    /\ request.pc # "idle" => request.asOf \subseteq DOMAIN log
    /\ ValueIsAsOf
    /\ CardSpansItsValue
=============================================================================
