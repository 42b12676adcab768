------------------------------ MODULE MatchLog ------------------------------
(***************************************************************************)
(* How a finished match gets its leaderboard and its result: the loader of *)
(* upstream's leaderboards (src/app/poller/leaderboards.py), the matchtype *)
(* map it keeps for the recent-matches poller (started by lifespan.py,     *)
(* floored by parsers.py), the parser that tags a match with it, and the   *)
(* upserts: a match is overwritten on every pass, a player's result is     *)
(* inserted once.  Whatever is scoped to a tournament filters on the tag.  *)
(*                                                                         *)
(* Loader and poller are tasks of one process; each awaits upstream and    *)
(* the database while the other goes on, and a restart loses both and the  *)
(* map.  A tick has one answer per profile, each of a moment of its own.   *)
(* The live poller inserts matches too; the rest of it, who plays, and     *)
(* when a feed lists what, is left to MatchFeed.  Of a match's players     *)
(* one is followed.                                                        *)
(***************************************************************************)
EXTENDS Naturals

CONSTANTS
    Matches,
    Tracked,       \* the profiles whose histories are asked for
    Matchtypes,
    Leaderboards,
    Floor,         \* DEFAULT_MATCHTYPE_TO_LEADERBOARD
    Payloads,      \* the maps upstream may publish, the empty one included
    Null,
    MaxFaults      \* bound on failed loads, requests, ticks and restarts

(* Functions on some of S. *)
Partial(S, T) == UNION {[U -> T] : U \in SUBSET S}

Maps == Partial(Matchtypes, Leaderboards)

ASSUME LogAssumption ==
    /\ Floor \in Maps /\ Payloads \subseteq Maps
    /\ Null \notin Leaderboards \union {"none", "result"}
    /\ "none" \notin Leaderboards
    /\ MaxFaults \in Nat

VARIABLES
    published,    \* upstream: matchtype to leaderboard
    matchtype,    \* upstream: of each match
    histories,    \* upstream: the matches a profile's history lists
    stats,        \* upstream: whether a match has ended, and the player's report
    map,          \* matchtype_map, in the worker's memory
    loader,       \* run_leaderboards_loader
    tick,         \* tick_recent_matches
    tagged,       \* bookkeeping: the types this worker has tagged a match of
    matches,      \* the matches table: completed, and the tag
    outcomes,     \* match_players: none, Null or the result
    boards,       \* the leaderboards table
    failures, restarts

upstream == <<published, matchtype, histories, stats>>
db       == <<matches, outcomes, boards>>
counts   == <<failures, restarts>>
logVars  == <<upstream, map, loader, tick, tagged, db, counts>>

-----------------------------------------------------------------------------
(* {**low, **high} *)
Over(high, low) ==
    [t \in DOMAIN high \union DOMAIN low |-> IF t \in DOMAIN high THEN high[t] ELSE low[t]]

NoRow    == [completed |-> FALSE, tag |-> "none"]
Nothing  == [x \in {} |-> Null]
Loading  == [pc |-> "idle", payload |-> Nothing]

(* The answers fetched so far, the profiles whose answer is parsed, and    *)
(* what the transaction has written.                                       *)
IdleTick == [answers |-> Nothing, parsed |-> {}, rows |-> Nothing, results |-> Nothing]

Fetched == DOMAIN tick.answers = Tracked

LogInit ==
    /\ published \in Payloads
    /\ matchtype \in [Matches -> Matchtypes]
    /\ histories = [p \in Tracked |-> {}]
    /\ stats = [m \in Matches |-> [completed |-> FALSE, report |-> Null]]
    /\ map = Floor
    /\ loader = Loading
    /\ tick = IdleTick
    /\ tagged = {}
    /\ matches = [m \in Matches |-> NoRow]
    /\ outcomes = [m \in Matches |-> "none"]
    /\ boards = {}
    /\ failures = 0 /\ restarts = 0

-----------------------------------------------------------------------------
(* Upstream: leaderboards are published anew, or without their matchtypes; *)
(* a history comes to list other matches.                                  *)
Publish(p) ==
    /\ p # published
    /\ published' = p
    /\ UNCHANGED <<matchtype, histories, stats, map, loader, tick, tagged, db, counts>>

Relist(p, S) ==
    /\ histories[p] # S
    /\ histories' = [histories EXCEPT ![p] = S]
    /\ UNCHANGED <<published, matchtype, stats, map, loader, tick, tagged, db, counts>>

(* A match ends; its player, who was reported without a result (a drop, or *)
(* not yet), is with it.  Neither waits for the other, or ever comes.      *)
Advance(m) ==
    /\ \/ ~stats[m].completed /\ stats' = [stats EXCEPT ![m].completed = TRUE]
       \/ stats[m].report = Null /\ stats' = [stats EXCEPT ![m].report = "result"]
    /\ UNCHANGED <<published, matchtype, histories, map, loader, tick, tagged, db, counts>>

-----------------------------------------------------------------------------
(* load_leaderboards: fetch; then upsert the rows, commit, and update the  *)
(* map, with nothing awaited after the commit.                             *)
LoaderFetch ==
    /\ loader.pc = "idle"
    /\ loader' = [pc |-> "fetched", payload |-> published]
    /\ UNCHANGED <<upstream, map, tick, tagged, db, counts>>

(* Slip: what upstream says replaces the map. *)
LoadedReplaced == loader.payload

(* The payload over the floor, over what was there (dict.update). *)
Loaded == Over(Over(loader.payload, Floor), map)

LoaderUpdate ==
    /\ loader.pc = "fetched"
    /\ boards' = boards \union {loader.payload[t] : t \in DOMAIN loader.payload}
    /\ map' = Loaded
    /\ loader' = Loading
    /\ UNCHANGED <<upstream, tick, tagged, matches, outcomes, counts>>

LoaderFails ==
    /\ failures + restarts < MaxFaults
    /\ failures' = failures + 1
    /\ loader' = Loading
    /\ UNCHANGED <<upstream, map, tick, tagged, db, restarts>>

-----------------------------------------------------------------------------
(* The live poller inserts a match it does not find.  Of one that is there *)
(* it updates the state alone, if at all, and for one the tick is about to *)
(* insert it waits.                                                        *)
LiveInserts(m) ==
    /\ matches[m] = NoRow /\ m \notin DOMAIN tick.rows
    /\ matches' = [matches EXCEPT ![m] = [completed |-> FALSE, tag |-> Null]]
    /\ UNCHANGED <<upstream, map, loader, tick, tagged, outcomes, boards, counts>>

-----------------------------------------------------------------------------
(* tick_recent_matches: the histories, each at a moment of its own; one    *)
(* whose request fails is skipped.                                         *)
Answered(p, answer) ==
    tick' = [tick EXCEPT !.answers = [q \in DOMAIN @ \union {p} |-> IF q = p THEN answer ELSE @[q]]]

TickFetch(p) ==
    /\ p \notin DOMAIN tick.answers
    /\ Answered(p, [m \in histories[p] |-> stats[m]])
    /\ UNCHANGED <<upstream, map, loader, tagged, db, counts>>

FetchFails(p) ==
    /\ p \notin DOMAIN tick.answers
    /\ failures + restarts < MaxFaults
    /\ failures' = failures + 1
    /\ Answered(p, Nothing)
    /\ UNCHANGED <<upstream, map, loader, tagged, db, restarts>>

(* A match is tagged by the map as it is when the answer is parsed. *)
Tag(m) == IF matchtype[m] \in DOMAIN map THEN map[matchtype[m]] ELSE Null

Parsed(answer) == [m \in DOMAIN answer |-> [completed |-> answer[m].completed, tag |-> Tag(m)]]

Reports(answer) == [m \in DOMAIN answer |-> answer[m].report]

(* One answer after the other, once all are there, in the order of the     *)
(* roster: matches overwrite what an earlier answer said, a player's row   *)
(* stays as it was first inserted.                                         *)
TickUpsert(p) ==
    /\ Fetched /\ p \notin tick.parsed
    /\ tick' = [answers |-> [tick.answers EXCEPT ![p] = Nothing],
                parsed  |-> tick.parsed \union {p},
                rows    |-> Over(Parsed(tick.answers[p]), tick.rows),
                results |-> Over(tick.results, Reports(tick.answers[p]))]
    /\ UNCHANGED <<upstream, map, loader, tagged, db, counts>>

(* Slip: a match that is there already is left as it is. *)
UpsertedOnce(m) ==
    IF matches[m] = NoRow /\ m \in DOMAIN tick.rows THEN tick.rows[m] ELSE matches[m]

(* upsert_match_from_recent: every column. *)
Upserted(m) == IF m \in DOMAIN tick.rows THEN tick.rows[m] ELSE matches[m]

(* Slip: players are inserted with their match. *)
OutcomeOfNew(m) ==
    IF matches[m] = NoRow /\ m \in DOMAIN tick.results THEN tick.results[m] ELSE outcomes[m]

(* upsert_match_player: insert, or nothing. *)
Outcome(m) ==
    IF outcomes[m] = "none" /\ m \in DOMAIN tick.results THEN tick.results[m] ELSE outcomes[m]

TickCommit ==
    /\ Fetched /\ tick.parsed = Tracked
    /\ matches'  = [m \in Matches |-> Upserted(m)]
    /\ outcomes' = [m \in Matches |-> Outcome(m)]
    /\ tagged' = tagged \union
           {matchtype[m] : m \in {x \in DOMAIN tick.rows : tick.rows[x].tag \in Leaderboards}}
    /\ tick' = IdleTick
    /\ UNCHANGED <<upstream, map, loader, boards, counts>>

TickFails ==
    /\ Fetched
    /\ failures + restarts < MaxFaults
    /\ failures' = failures + 1
    /\ tick' = IdleTick
    /\ UNCHANGED <<upstream, map, loader, tagged, db, restarts>>

(* lifespan: the map begins as the floor; neither task waits for the other.*)
Restart ==
    /\ failures + restarts < MaxFaults
    /\ restarts' = restarts + 1
    /\ map' = Floor /\ loader' = Loading /\ tick' = IdleTick /\ tagged' = {}
    /\ UNCHANGED <<upstream, db, failures>>

-----------------------------------------------------------------------------
LoaderStep == LoaderFetch \/ LoaderUpdate
TickStep   == TickCommit \/ \E p \in Tracked : TickFetch(p) \/ TickUpsert(p)

LogNext ==
    \/ \E p \in Payloads : Publish(p)
    \/ \E p \in Tracked, S \in SUBSET Matches : Relist(p, S)
    \/ \E m \in Matches : Advance(m)
    \/ LoaderStep \/ LoaderFails
    \/ \E m \in Matches : LiveInserts(m)
    \/ TickStep \/ TickFails
    \/ \E p \in Tracked : FetchFails(p)
    \/ Restart

(* Both loops go on whatever the last round ended with. *)
Fairness == WF_logVars(LoaderStep) /\ WF_logVars(TickStep)

Safety == LogInit /\ [][LogNext]_logVars

LogSpec == Safety /\ Fairness

-----------------------------------------------------------------------------
Outcomes == {"result", Null}
Stat     == [completed : BOOLEAN, report : Outcomes]
Row      == [completed : BOOLEAN, tag : Leaderboards \union {Null}]

Ticks == [answers : Partial(Tracked, Partial(Matches, Stat)), parsed : SUBSET Tracked,
          rows : Partial(Matches, Row), results : Partial(Matches, Outcomes)]

TypeOK ==
    /\ published \in Maps
    /\ matchtype \in [Matches -> Matchtypes]
    /\ histories \in [Tracked -> SUBSET Matches]
    /\ stats \in [Matches -> Stat]
    /\ map \in Maps
    /\ loader \in [pc : {"idle", "fetched"}, payload : Maps]
    /\ tick \in Ticks
    /\ tagged \subseteq Matchtypes
    /\ matches \in [Matches -> Row \union {NoRow}]
    /\ outcomes \in [Matches -> Outcomes \union {"none"}]
    /\ boards \subseteq Leaderboards
    /\ {failures, restarts} \subseteq Nat

(* The map is never below the floor, and so no completed match of a        *)
(* floored type is ever without its leaderboard, however little upstream   *)
(* publishes and whenever the worker restarts (parsers.py:355-391,         *)
(* lifespan.py:81, leaderboards.py:91-98: "never regresses below that      *)
(* floor").                                                                *)
Floored(m, tag) == matchtype[m] \in DOMAIN Floor => tag # Null

FloorHolds ==
    /\ DOMAIN Floor \subseteq DOMAIN map
    /\ \A m \in DOMAIN tick.rows : Floored(m, tick.rows[m].tag)
    /\ \A m \in Matches : matches[m].completed => Floored(m, matches[m].tag)

(* A match is lost to its leaderboard only by a restart: its tag goes back *)
(* to null when a tick parses it before the loader has come round again,   *)
(* and never because of what upstream leaves out.  A type of the floor is  *)
(* never lost, nor one that the worker has tagged a match of since it      *)
(* started.                                                                *)
TagLostOnlyByRestart ==
    [][\A m \in Matches :
          matches[m].tag \in Leaderboards /\ matches'[m].tag = Null =>
              restarts > 0 /\ matchtype[m] \notin tagged \union DOMAIN Floor]_logVars

(* The inductive invariant behind the two: what the worker has tagged, and *)
(* a row under way, is of a type the map knows; a row under way is not     *)
(* without a tag if the worker has tagged its type; and without a restart  *)
(* whatever has a tag has it from this worker.                             *)
TagsAreMapped ==
    /\ tagged \subseteq DOMAIN map
    /\ \A m \in DOMAIN tick.rows :
          /\ tick.rows[m].tag \in Leaderboards => matchtype[m] \in DOMAIN map
          /\ matchtype[m] \in tagged => tick.rows[m].tag # Null
    /\ restarts = 0 =>
          \A m \in Matches : matches[m].tag \in Leaderboards => matchtype[m] \in tagged

LogIInv == TypeOK /\ FloorHolds /\ TagsAreMapped

-----------------------------------------------------------------------------
(* Upstream stands still, and the worker is not restarted any more. *)
Steady == <>[][FALSE]_<<upstream, restarts>>

Right(m) == IF matchtype[m] \in DOMAIN published
            THEN matches[m].tag = published[matchtype[m]]
            ELSE matches[m].tag = Tag(m)

InHistory(m) == \E p \in Tracked : m \in histories[p]

(* Matches settle: one that has ended and stays in a history comes to be   *)
(* completed, with the leaderboard upstream publishes for its type, or     *)
(* else one published before or the floor's, whatever was first written of *)
(* it, by the live poller or from another answer.                          *)
MatchesSettle ==
    \A m \in Matches :
        Steady /\ <>[](InHistory(m) /\ stats[m].completed) =>
            <>[](matches[m].completed /\ Right(m))

SeenEarly(m) ==
    \E p \in DOMAIN tick.answers :
        m \in DOMAIN tick.answers[p] /\ tick.answers[p][m].report = Null

(* A player's row is inserted once and never mended, so that an answer     *)
(* without the result, if it is the first written, is the last word        *)
(* (upserts.py:274-284 against 232-246).  Nothing else keeps a result out: *)
(* of a match that stays in a history with the result, and that no answer  *)
(* had without it, it comes to be recorded and stays, whichever poller     *)
(* came first, whether or not the match has ended, and whatever failed     *)
(* requests, failed ticks and restarts there were before.                  *)
ResultsSettle ==
    \A m \in Matches :
        Steady /\ <>[](InHistory(m) /\ stats[m].report = "result") /\ []~SeenEarly(m) =>
            <>[](outcomes[m] = "result")
=============================================================================
