------------------------------- MODULE Freeze -------------------------------
(***************************************************************************)
(* The ratings a tournament ranks on, and how they freeze when its window  *)
(* ends: the stats poller with its snapshot log (src/app/poller/           *)
(* player_stats.py, upserts.py) and what the standings read from it once   *)
(* the end is past (_frozen_peak_by_profile and _frozen_current_by_profile *)
(* of src/app/routers/tournaments.py).                                     *)
(*                                                                         *)
(* One tournament, one leaderboard.  Ratings move upstream while games are *)
(* played, the poller and the match log follow with a delay, and the end   *)
(* comes at any time: between a game's start and its finish, or while a    *)
(* tick is under way.  A rating of 0 is none.                              *)
(***************************************************************************)
EXTENDS Naturals, Sequences, FiniteSets

CONSTANTS
    Players,
    Ratings,      \* positive naturals
    Account0,     \* what upstream reports of each player at the start
    Rebasable,    \* players whose reported peak upstream may lower, once
    MaxGames      \* games of a player

NoRow == [cur |-> 0, peak |-> 0]
Row   == [cur : Ratings, peak : Ratings]

ASSUME ConstantsAssumption ==
    /\ Ratings \subseteq Nat \ {0}
    /\ Account0 \in [Players -> Row \union {NoRow}]
    /\ \A p \in Players : Account0[p].peak >= Account0[p].cur
    /\ Rebasable \subseteq Players
    /\ MaxGames \in Nat

VARIABLES
    closed,     \* end_date is past
    account,    \* upstream: current rating and highestrating of each player
    asOf,       \* what the player has reached by games begun by the end
    rebased,    \* players whose peak was lowered
    playing,    \* a game is on: it began "early", before the end, or "late"
    games,      \* finished games of each player, in the order they began
    recorded,   \* which of them are in match_players
    tracked,    \* the roster
    polled,     \* players asked for by a tick written before the end
    tick,       \* the tick of the stats poller
    live,       \* player_ratings
    log         \* player_rating_snapshots

upstream == <<account, asOf, rebased, playing, games>>
poller   == <<polled, tick, live, log>>
vars     == <<closed, upstream, recorded, tracked, poller>>

-----------------------------------------------------------------------------
Higher(a, b) == IF a >= b THEN a ELSE b

Highest(S) == CHOOSE x \in S : \A y \in S : y <= x

EarlyGames(p)     == {i \in DOMAIN games[p] : games[p][i].early}
EarlySnapshots(p) == {i \in DOMAIN log[p] : log[p][i].early}

(* What is known of the window when it has ended: observations made by the *)
(* end, and games begun by it.                                             *)
Observed(p) == {log[p][i].row.peak : i \in EarlySnapshots(p)}
Settled(p)  == {games[p][i].rating : i \in EarlyGames(p) \cap recorded[p]}

(* Slip: a game in progress at the end does not count. *)
FrozenPeakNoGames(p) ==
    LET peak == IF Observed(p) = {} THEN live[p].peak ELSE Highest(Observed(p))  IN
    IF live[p] # NoRow /\ peak > live[p].peak THEN live[p].peak ELSE peak

(* Slip: a recorded peak is final, whatever upstream says now. *)
FrozenPeakUnclamped(p) ==
    LET known == Observed(p) \union Settled(p)  IN
    IF known = {} THEN live[p].peak ELSE Highest(known)

(* The clamp to the live row is for values from before a rebase. *)
FrozenPeak(p) ==
    LET known == Observed(p) \union Settled(p)
        peak  == IF known = {} THEN live[p].peak ELSE Highest(known)
    IN
    IF live[p] # NoRow /\ peak > live[p].peak THEN live[p].peak ELSE peak

(* Slip: the observations come first. *)
FrozenCurrentObserved(p) ==
    LET from_log == EarlyGames(p) \cap recorded[p]  IN
    IF EarlySnapshots(p) # {} THEN log[p][Highest(EarlySnapshots(p))].row.cur
    ELSE IF from_log # {} THEN games[p][Highest(from_log)].rating
    ELSE live[p].cur

FrozenCurrent(p) ==
    LET from_log == EarlyGames(p) \cap recorded[p]  IN
    IF from_log # {} THEN games[p][Highest(from_log)].rating
    ELSE IF EarlySnapshots(p) # {} THEN log[p][Highest(EarlySnapshots(p))].row.cur
    ELSE live[p].cur

(* The peak the standings rank on: live until the end. *)
RankPeak(p) == IF closed THEN FrozenPeak(p) ELSE live[p].peak

-----------------------------------------------------------------------------
Idle == [pc |-> "idle", early |-> FALSE, asked |-> {}, seen |-> [p \in Players |-> NoRow]]

Init ==
    /\ closed = FALSE
    /\ account = Account0
    /\ asOf = Account0
    /\ rebased = {}
    /\ playing = [p \in Players |-> "no"]
    /\ games = [p \in Players |-> <<>>]
    /\ recorded = [p \in Players |-> {}]
    /\ tracked = Players
    /\ polled = {}
    /\ tick = Idle
    /\ live = [p \in Players |-> NoRow]
    /\ log = [p \in Players |-> <<>>]

(* end_date passes. *)
Close ==
    /\ ~closed
    /\ closed' = TRUE
    /\ UNCHANGED <<upstream, recorded, tracked, poller>>

-----------------------------------------------------------------------------
(* Upstream.                                                               *)
StartGame(p) ==
    /\ playing[p] = "no"
    /\ Len(games[p]) < MaxGames
    /\ playing' = [playing EXCEPT ![p] = IF closed THEN "late" ELSE "early"]
    /\ UNCHANGED <<closed, account, asOf, rebased, games, recorded, tracked, poller>>

FinishGame(p, rating) ==
    /\ playing[p] # "no"
    /\ playing' = [playing EXCEPT ![p] = "no"]
    /\ games' = [games EXCEPT ![p] = Append(@, [early |-> playing[p] = "early", rating |-> rating])]
    /\ account' = [account EXCEPT ![p] = [cur |-> rating, peak |-> Higher(@.peak, rating)]]
    /\ asOf' = IF playing[p] = "late" THEN asOf
               ELSE [asOf EXCEPT ![p] = [cur |-> rating, peak |-> Higher(@.peak, rating)]]
    /\ UNCHANGED <<closed, rebased, recorded, tracked, poller>>

(* Upstream lowers the peak it reports, or omits it (0). *)
Rebase(p, peak) ==
    /\ p \in Rebasable \ rebased
    /\ peak < account[p].peak
    /\ account' = [account EXCEPT ![p].peak = peak]
    /\ rebased' = rebased \union {p}
    /\ UNCHANGED <<closed, asOf, playing, games, recorded, tracked, poller>>

-----------------------------------------------------------------------------
(* The rest of the service: owners edit the roster, and the recent-matches *)
(* poller writes finished games to the match log, through this player's    *)
(* history or through an opponent's.                                       *)
Track(p) ==
    /\ tracked' = IF p \in tracked THEN tracked \ {p} ELSE tracked \union {p}
    /\ UNCHANGED <<closed, upstream, recorded, poller>>

Record(p) ==
    /\ \E new \in SUBSET (DOMAIN games[p] \ recorded[p]) \ {{}} :
          recorded' = [recorded EXCEPT ![p] = @ \union new]
    /\ UNCHANGED <<closed, upstream, tracked, poller>>

-----------------------------------------------------------------------------
(* tick_player_stats.  A snapshot is stamped with the beginning of the     *)
(* transaction, after upstream has answered.                               *)

(* The parser: a player off the ladder has no row, a peak is floored at    *)
(* the current rating.                                                     *)
Parsed(p) == [cur |-> account[p].cur, peak |-> Higher(account[p].peak, account[p].cur)]

StatsFetch ==
    /\ tick.pc = "idle"
    /\ tracked # {}
    /\ tick' = [pc    |-> "fetched",
                early |-> FALSE,
                asked |-> tracked,
                seen  |-> [p \in Players |-> IF p \in tracked THEN Parsed(p) ELSE NoRow]]
    /\ UNCHANGED <<closed, upstream, recorded, tracked, polled, live, log>>

StatsBegin ==
    /\ tick.pc = "fetched"
    /\ tick' = [tick EXCEPT !.pc = "open", !.early = ~closed]
    /\ UNCHANGED <<closed, upstream, recorded, tracked, polled, live, log>>

Latest(p) == IF log[p] = <<>> THEN NoRow ELSE log[p][Len(log[p])].row

(* Slip: only a new peak is recorded, as before current was rankable. *)
ChangedPeakOnly(p) == tick.seen[p] # NoRow /\ tick.seen[p].peak # Latest(p).peak

Changed(p) == tick.seen[p] # NoRow /\ tick.seen[p] # Latest(p)

StatsCommit ==
    /\ tick.pc = "open"
    /\ log' = [p \in Players |->
                  IF Changed(p)
                  THEN Append(log[p], [early |-> tick.early, row |-> tick.seen[p]])
                  ELSE log[p]]
    /\ live' = [p \in Players |-> IF tick.seen[p] # NoRow THEN tick.seen[p] ELSE live[p]]
    /\ polled' = IF tick.early THEN polled \union tick.asked ELSE polled
    /\ tick' = Idle
    /\ UNCHANGED <<closed, upstream, recorded, tracked>>

(* Anything that raises: the transaction is rolled back. *)
StatsFail ==
    /\ tick.pc # "idle"
    /\ tick' = Idle
    /\ UNCHANGED <<closed, upstream, recorded, tracked, polled, live, log>>

-----------------------------------------------------------------------------
Next ==
    \/ Close
    \/ \E p \in Players : StartGame(p) \/ Track(p) \/ Record(p)
    \/ \E p \in Players, rating \in Ratings : FinishGame(p, rating)
    \/ \E p \in Players, peak \in Ratings \union {0} : Rebase(p, peak)
    \/ StatsFetch \/ StatsBegin \/ StatsCommit \/ StatsFail

(* The pollers go round for ever and an answer keeps coming now and then; a *)
(* game that has begun ends.                                               *)
Fairness ==
    /\ WF_vars(StatsFetch) /\ SF_vars(StatsBegin) /\ SF_vars(StatsCommit)
    /\ \A p \in Players :
          /\ WF_vars(p \in tracked /\ Record(p))
          /\ WF_vars(\E rating \in Ratings : FinishGame(p, rating))

Safety == Init /\ [][Next]_vars

Spec == Safety /\ Fairness

-----------------------------------------------------------------------------
Game == [early : BOOLEAN, rating : Ratings]

(* The kind of every variable: a row of the ladder has both ratings, and   *)
(* only finished games are in the match log.                               *)
TypeOK ==
    /\ closed \in BOOLEAN
    /\ account \in [Players -> [cur : Ratings, peak : Ratings \union {0}] \union {NoRow}]
    /\ asOf \in [Players -> Row \union {NoRow}]
    /\ rebased \subseteq Rebasable
    /\ playing \in [Players -> {"no", "early", "late"}]
    /\ games \in [Players -> Seq(Game)] /\ recorded \in [Players -> SUBSET Nat]
    /\ \A p \in Players : recorded[p] \subseteq DOMAIN games[p]
    /\ tracked \subseteq Players /\ polled \subseteq Players
    /\ tick \in [pc : {"idle", "fetched", "open"}, early : BOOLEAN, asked : SUBSET Players,
                 seen : [Players -> Row \union {NoRow}]]
    /\ live \in [Players -> Row \union {NoRow}]
    /\ log \in [Players -> Seq([early : BOOLEAN, row : Row])]

(* The snapshot log is the exact history of the live row: it ends with the *)
(* row, repeats nothing, and what was observed by the end comes first      *)
(* (upserts.py, "append whenever either rating changed").                  *)
LogFollowsLive ==
    \A p \in Players :
        /\ Latest(p) = live[p]
        /\ \A i \in DOMAIN log[p] \ {1} :
              /\ log[p][i].row # log[p][i - 1].row
              /\ log[p][i].early => log[p][i - 1].early

(* Nothing of the window is still to come: no game of it is being played   *)
(* or missing from the match log, no tick begun in it is uncommitted.      *)
WindowOver(p) ==
    /\ closed
    /\ ~tick.early
    /\ playing[p] # "early"
    /\ EarlyGames(p) \subseteq recorded[p]

(* The frozen peak is the peak of the window, games that outlasted the end  *)
(* included, as far as the live row knows of it: whatever is played later, *)
(* and in whatever order pollers and games went (_frozen_peak_by_profile). *)
PeakIsTrue ==
    \A p \in Players \ rebased :
        WindowOver(p) /\ EarlySnapshots(p) # {} =>
            FrozenPeak(p) = IF asOf[p].peak <= live[p].peak THEN asOf[p].peak ELSE live[p].peak

(* The frozen current rating is the rating after the last game begun in    *)
(* the window (_frozen_current_by_profile).                                *)
CurrentIsTrue ==
    \A p \in Players :
        WindowOver(p) /\ EarlySnapshots(p) # {} => FrozenCurrent(p) = asOf[p].cur

(* What a row observed by the end can say. *)
SeenByEnd(p, row) ==
    /\ row.peak <= asOf[p].peak
    /\ p \notin rebased => Account0[p].peak <= row.peak
    /\ EarlyGames(p) = {} => row.cur = Account0[p].cur

(* Early games come first, and asOf is what they lead to. *)
WindowAccount(p) ==
    /\ playing[p] = "early" => \A i \in DOMAIN games[p] : games[p][i].early
    /\ asOf[p].cur <= asOf[p].peak /\ Account0[p].peak <= asOf[p].peak
    /\ \A i \in EarlyGames(p) : games[p][i].rating <= asOf[p].peak
    /\ \/ asOf[p].peak = Account0[p].peak
       \/ \E i \in EarlyGames(p) : games[p][i].rating = asOf[p].peak
    /\ asOf[p].cur = IF EarlyGames(p) = {} THEN Account0[p].cur
                     ELSE games[p][Highest(EarlyGames(p))].rating

(* Until the end everything is early, and upstream has nothing else. *)
StillOpen(p) ==
    /\ playing[p] # "late" /\ \A i \in DOMAIN games[p] : games[p][i].early
    /\ tick.pc = "open" => tick.early
    /\ \A i \in DOMAIN log[p] : log[p][i].early
    /\ account[p].cur = asOf[p].cur /\ account[p].peak <= asOf[p].peak

(* The inductive invariant: what each snapshot, each tick under way and    *)
(* each game can contribute to the frozen table.                           *)
IInv ==
    /\ TypeOK
    /\ LogFollowsLive
    /\ tick.early => tick.pc = "open"
    /\ \A p \in Players :
          /\ WindowAccount(p)
          /\ ~closed => StillOpen(p)
          /\ p \notin rebased => Account0[p].peak <= account[p].peak
          /\ \A i \in EarlySnapshots(p) : SeenByEnd(p, log[p][i].row)
          /\ tick.early => \A i \in DOMAIN log[p] : log[p][i].early
          /\ tick.early \/ (tick.pc = "fetched" /\ ~closed) =>
                tick.seen[p] = NoRow \/ SeenByEnd(p, tick.seen[p])

(* At the instant of the end the table does not move: what was ranked on   *)
(* live is what is ranked on frozen.                                       *)
CloseMovesNoPeak ==
    [][~closed /\ closed' => \A p \in Players : live[p] # NoRow => RankPeak(p)' = RankPeak(p)]_vars

(* The final table comes to rest at the peaks of the window: for a player   *)
(* who was observed by the end, stays tracked, and keeps the peak.         *)
TableSettles ==
    \A p \in Players :
        \/ []<>(p \notin tracked)
        \/ <>[](\/ p \in rebased
                \/ closed /\ EarlySnapshots(p) # {} => FrozenPeak(p) = asOf[p].peak)

(* All of the window is in, and nothing else is under way. *)
AtRest(p) ==
    /\ WindowOver(p)
    /\ p \in polled
    /\ tick = Idle /\ live[p] = Parsed(p)

(* The frozen peak of a player who was polled by the end and is at rest    *)
(* never rises again: "the final table must stop moving ... a post-window  *)
(* all-time high would reorder a result" (tournaments.py:959).             *)
NoLatePeak ==
    \A p \in Players, v \in Ratings \union {0} :
        [](AtRest(p) /\ FrozenPeak(p) = v => [](FrozenPeak(p) <= v))
=============================================================================
