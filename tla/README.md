# Verification of aoe2-live-standings-api

TLA+ modules that model the program under `src/`, TLC runs that check them on
small instances, and proofs checked by TLAPS that hold for every size.
`PROJECT.json` names, for each definition, the source lines it stands for, and
lists the hazards the properties are aimed at.

## 1. The system

The program serves live standings of Age of Empires II tournaments. One code
base runs as two services over one Postgres database:

- the **worker**, a single instance, polls an upstream game backend and the
  streaming platforms and writes what it finds;
- the **api**, autoscaled instances, serves `/v1` reads and management writes
  and one SSE stream per viewer, `/v1/stream`.

They share no memory and exchange no messages: a small table, `nudge_versions`,
carries the signal "this slice changed, refetch" from one to the other.

### Inventory

| Component | State | Operations | Interacts through | Hard part | What makes it correct |
|---|---|---|---|---|---|
| Refetch signal (`events.py`, `routers/stream.py`) | row per event: version and scope; `last_seen` of each instance; queue per viewer | emit, poll, publish, subscribe, deliver, unsubscribe | table, queues | several writer tasks, silent first poll, full queues, recycled instances | a viewer with an out-of-date copy is told, or the loss is one the code accepts; versions only advance |
| Match pollers (`live_matches.py`, `recent_matches.py`) | matches, match players, live links | 15 s and 60 s ticks, upserts | tables | two feeds race on one match; roster read before an await; matches listed before they are settled | a completed match stays completed; the live table is the last snapshot; a match comes to be complete and tagged |
| Ratings (`player_stats.py`, snapshots) | rating per player, snapshot log | 30 s tick | tables | rebase, first observation after the window | the log is exactly the changes; the table stops moving after the window |
| Standings and statistics (`routers/tournaments.py`) | none | reads, in several statements | tables | frozen metrics, history against current, statements of different moments | the chart ends where the table is and does not move behind one; views of one game agree; runs and their dates are right |
| Idempotency keys (`middleware/idempotency.py`) | key, fingerprint, response | lookup, execute, store | table, connection pool | concurrent retries, crash between two commits, a pool of two | once a client has its answer no retry executes, and retries see one answer |
| Management (`owners.py`, `players.py`, `teams.py`) | owners, roster, teams, captains | about twenty handlers | tables | check, then act | no orphans, one captain, ownerless or above a ceiling only by overlapping requests (or a grant, which no ceiling stops) |
| Broadcast pollers (`live_streams.py`, `broadcast.py`) | live rows per platform, Twitch token, YouTube id cache | ticks per platform | tables | foreign keys of removed entries, cached failures, outages | the tables come to say who is on air; an outage takes nobody off it |
| Loader and lifespan (`leaderboards.py`, `lifespan.py`) | matchtype map, tasks | load, start, stop | shared dict | upstream empty or failing, restarts | the map never falls below its floor, a tag is not lost |
| Authentication (`auth/`) | cached key, cached identities | verify, refetch, look up | HTTP | key rotation, overlapping fetches | a sound token is not refused |
| Edge and caches (`cache.py`, the names kept by `tournaments.py`) | shared copies | serve, refresh | headers | copies of copies | an answer is no older than the lifetimes add up to |
| Parsers | none | conversion | - | when a match is complete, its tag | inside the models that use them |
| Schemas, logging, configuration | none | validation, output | - | - | left out |

## 2. Modules

| Module | Models |
|---|---|
| `Nudges` | the refetch signal: emit in a tick's transaction, poll loops, hub, streams, pages |
| `ViewerSignal` | what the signal promises a viewer, with tables, loops and queues left out |
| `NudgesProofs` | the proofs about `Nudges` and `ViewerSignal` |
| `MCNudges`, `MCNudgesLive` | its instances for TLC |
| `Idempotency` | keyed writes: lookup, handler, store, and the connection pool both draw on |
| `KeyedWrites` | what a key promises a client, with instances, pool and middleware left out |
| `IdempotencyProofs`, `MCIdempotency` | the proofs about both, its instance |
| `MatchFeed` | the live and recent match pollers, the games they watch, roster edits |
| `MatchFeedProofs`, `MCMatchFeed` | the proofs about it, its instance |
| `Management` | the routes that write: tournaments, owners, roster, links, teams, members, captains |
| `ManagementProofs`, `MCManagement` | the proofs about it, its instances |
| `Freeze` | the rating poller and its snapshot log, the match log's settled games, and the ratings a table is ranked on before and after its end |
| `FreezeProofs`, `MCFreeze` | the proofs about it, its instances |
| `LiveStreams`, `MCLiveStreams` | the broadcast pollers and their clients of Twitch and YouTube |
| `MatchStats`, `MCMatchStats` | what the read endpoints fold out of the match log, and the statements of a summary |
| `MatchStatsProofs` | the proofs about the match log: `MatchStats`, and `MatchLog` below |
| `History`, `MCHistory` | standings, team standings and the chart of positions over time, with the pollers behind them |
| `HistoryProofs` | the proofs about it |
| `MatchLog`, `MCMatchLog` | leaderboard loader, matchtype map, parser and upserts: how a match gets its tag and its outcomes |
| `ReadPath`, `MCReadPath` | reads through the edge's copies, the cached key and the caches of names |
| `ReadPathProofs` | the proofs about what is copied from outside: `ReadPath`, and `LiveStreams` above |

### Nudges

State and code: `row` is `nudge_versions` (version 0: no such row); `tx` the open
transaction of each worker task, `stamped` once `emit_nudge` has taken `now`,
`loaded` once `session.get` has returned; `seen`, `ready` are the `last_seen`
and `initialized` of `poll_for_nudges`; `reading`, `batch` the rows between its
await and its loop; `conn`, `queue` the hub's subscribers. On the viewer's side
`todo` is what the page is about to refetch and `stale` what changed since it
last did; `missed` is history: what a viewer was not told of at a full queue or
a first poll. No data travels with a nudge, so none is modelled.

- `Stamp`, `LoadRow`, `Commit`, `Rollback` are the end of a tick. They are
  separate because `emit_nudge` and the commit await: the tasks of the worker
  interleave there. A commit writes the columns that differ from the row as
  loaded; the insert of a row that another task inserted meanwhile fails.
- `PollRead`, then `PollPublish` or (the first time) `FirstPoll`: the read
  awaits, the loop over the rows does not. The rows come in any order.
- `Subscribe`, `Deliver`, `Unsubscribe` are `_event_stream`. `Refetch` is the
  page, which is not in this repository: it fetches everything when its stream
  opens, then what each nudge that concerns it names. A read returns committed
  data; the shared cache in front of the api (up to 15 s old) is left out.
- `Restart` recycles an instance with its loop state, hub and streams.

### Idempotency

A request is one delivery of a write; a client's retry is another one with the
same key. `pc` is where it is: `waiting` for a connection to look its key up,
`entering` (the handler waits for its own connection), `handling`, `handled`
(back in the middleware), `done`. `store` is `idempotency_keys`; `effects` is
what handlers have committed; `answer` is what the client got. `Free` is the
pool of an instance: the middleware's session holds a connection from its lookup
until it is closed, and the handler's session holds another.

- `Arrive` sends a request without a key straight on; `Lookup` misses, replays,
  or answers 422 to another body under the key. `Proceed`: a request may be
  refused before it needs a session (token, body, rate limit), and that refusal
  is cached as well.
- `Handle` stands for any handler: it commits or not, and answers. `Store` keeps
  what is below 500 (`Caches`); a key stored meanwhile violates the primary key,
  and the client gets a 5xx.
- `Timeout` is the pool's, a 5xx. `Crash` takes an instance away with its
  requests; what was committed stays.
- `Promise` is `KeyedWrites` of the store, the answers and the effects, with the requests
  that have reached their handler (`Inside`) for all else.

### MatchFeed

`matches` and `links` are `matches` and `live_match_players`; `live` and `recent`
the two loops, one tick each at a time: `tracked` the roster as it was read,
`seen` what upstream answered, `todo` and `held` the rows still to be upserted
and those locked. `game` is upstream, `roster` what owners edit meanwhile.

- `LiveStart`, `LiveFetch`, `LiveUpsert`, `LiveCommit` are `tick_live_matches`;
  `RecentStart`, `RecentFetch` and `RecentFetchFails` (one per profile, in any
  order), `RecentUpsert`, `RecentCommit` are `tick_recent_matches`. An upsert
  takes the row's lock, and waits for one the other tick holds; since a locked
  row cannot change, its new value is computed at the commit (`FromLive`,
  `Completed`).
- `LiveFail`, `RecentFail`: anything that raises, and the victim of a deadlock.
  The transaction is rolled back and the loop sleeps and goes on.
- `LiveQuery`, `RecentQuery` are the query for the nudge's scope, after the last upsert.
  It sees the rosters of its moment (`rosters`, kept with the tick), and owners may edit
  them before the commit; `LiveScope` and `RecentScope` are what it returned. Emitting the
  nudge and committing are `Nudges`; here they are one step.
- Of upstream: a history lists finished matches only. What happens to one that is
  listed before it is settled, and the results, are `MatchLog`'s.

### Management

The tables are sets of rows, the relations of owners and of members sets of
pairs, as their keys say; `captains` are the members with `is_captain`. A row
that a request inserts is named after the request, since ids are never used
again. `req` is where a request is: `gated` by `require_tournament_owner`,
`checked`, then `waiting` and `locked` in the routes that lock rows in one
statement and commit after another, and how it ended. `row` is the tournament as
the gate loaded it, which is what a patch is checked against; `entry` the roster row a link
has read, `snap` the owner rows a create has counted (`Counted`).

- `Gate`, `Check`, then the action named after the route. Postgres runs at READ
  COMMITTED, so what `Gate` and `Check` have read binds nobody; at the write only
  foreign keys, primary keys and unique constraints are left, and a write they
  refuse is an error. An UPDATE of a row that is gone is one too, a DELETE is not.
- `Start`, `Lock`: the conditional DELETE of a revoke and the UPDATE that clears
  captains. A statement takes a snapshot, waits for rows others have locked, and
  works on those that still qualify; the count in the revoke's subquery stays
  that of the snapshot (`Target`). `Free` is the wait.
- `DeleteTournament`, `RemovePlayer`, `DeleteTeam` take along what the cascades do.
- `Fail`: anything that raises before the commit.

The reads of one handler are one step; they are only used for refusing.

### Freeze

One tournament and one leaderboard. `live` and `log` are `player_ratings` and
`player_rating_snapshots`, of which only the two ratings are kept, with whether
`observed_at` is by the end of the window (`early`); `recorded` says which games
are settled in `match_players`. `tick` is the one tick of the stats poller.
`account` is upstream, `playing` and `games` the games on it; `asOf` is history:
what a player has reached by games *begun* by the end, which is what the code
means by the window. `FrozenPeak`, `FrozenCurrent` and `RankPeak` are what a
request reads in one state.

- `StatsFetch`, `StatsBegin`, `StatsCommit` are `tick_player_stats`. Upstream
  answers, then the transaction begins, and `now()` is its beginning; so data from
  before the end can be stamped after it, and an observation stamped before it can
  be committed after it. `Parsed` is the parser's floor; a player off the ladder
  has no row at all. `StatsFail`: anything that raises.
- `Record` is the recent-matches poller (module `MatchFeed`), reduced to the games
  that get settled, in any order.
- `Close` is the clock passing `end_date`, at any time. `Track` is the roster.
- `StartGame`, `FinishGame`: a player plays one game at a time, a rating changes
  when one ends. `Rebase`: upstream lowers, or omits, the peak it reports.

### LiveStreams

`rows` and `hosts` are `live_streams` and `host_live_streams`, per platform; `tick`
is each platform's loop with the links it has read, the channels still to be asked
about and the answers; `token` is the cached Twitch token, `ids` the cache of
YouTube channel ids, which keeps failures too. `onAir`, `present` and `links` are the
platforms and what owners edit meanwhile.

- `Start`, the asking, `Apply`: links are read in a session that is closed before the
  platform is awaited, so what is applied may be of entries that are gone; the
  foreign key then rolls the tick back (`Writable`), the nudge with it. `Apply` writes
  both tables or, if nothing changed, none.
- `TakeToken`, `Unauthorized`, `AskTwitch` are `_live_batch`: a 401 mints a token and
  tries once more. `LookUp`, `AskYouTube` are `_live_meta`. Where Twitch's client
  raises, YouTube's takes the channel for offline (`OnError`).
- A URL is the channel it parses to, and a batch of logins is asked one by one, which
  allows more answers of different moments than the code has.

### MatchStats

`log` is `matches` and `match_players`, to which the poller commits games in any
order (`Commit`); a game is named by its time. `Record`, `RecentMatchups`,
`CivCounts`, `Merged`, `HeadToHead`, `NetRatingChange`, `Progression` are the folds of
the code; `LongestRun` is the scan for the longest run, newest game first, and `Pass` one
round of its loop. `request` is GET
/summary, which reads in three statements: `ReadRecords`, `ReadChanges`, `ReadDates`,
and Postgres gives each what is committed by then. An average, the favourite
civilization and the serialisation of rows are left out.

### History

`games` are those that have ended upstream, `recorded` says which of them are in
`match_players`, `live` and `snaps` are the two tables of ratings, `recorder` the time
since which there are snapshots at all. The sweep of the endpoint keeps a cursor per
series; `PeakAt` and `CurrentAt` say what it holds as of a time, and `Vector` the order
of players and of teams. `Candidates` are the bucket times (midnights, games,
observations), `Emitted` picks those that are sent. `RankMetric`, `Standings`,
`TeamStandings` are the tables, live and frozen. `Finish`, `Rebase` are upstream;
`Record`, `Poll` the two pollers, whose inner steps are in `MatchFeed` and `Freeze`;
`Quiet` is a gap in polling. Both dates are set. `ConstantsAssumption` has a player's first
rating not above the first peak, as the parser's floor makes it.

### MatchLog

`map` is the dict that loader and poller share in the worker's memory, `published` what
upstream serves, `histories` what each tracked player's history lists, `stats` what it
says of a match: whether it has a `completiontime`, and whether the `resulttype` of the
player that is followed is a win or a loss. The two come in either order, or never.
`LoaderFetch`, `LoaderUpdate` are `load_leaderboards`. `TickFetch` (one profile's answer,
at a moment of its own), `FetchFails` (that profile is skipped), `TickUpsert` (parse one
answer with the map as it is, and upsert its matches and players) and `TickCommit` are
`tick_recent_matches`: within a tick a later answer overwrites the rows of an earlier one
(`tick.rows`), and the first stands for players (`tick.results`). The order of the roster
is any, as its query has none. `Upserted` overwrites every column of a match; `Outcome`
inserts a player's row once. `LiveInserts` is the live poller's insert, which normally comes
first; on a row that is there it changes nothing that is modelled, and it waits for a
row the tick has inserted. `Restart` loses the map and both tasks. `tagged` is
bookkeeping for `TagLostOnlyByRestart`: the types the worker has tagged since it started.

### ReadPath

Two routes stand for the others: `stats`, public, whose answer holds civilization
names, and `owners`, which needs a token and holds people's names. Of each copy only
its lag is kept: 0 while it is true, then the time since its source changed. `edge` is
the shared cache with the rule that lets it answer whoever sends no cookie (outside
`src/`: `infra/README.md`), `Header` what the code tells it. `Verify`, `FetchKey`,
`HaveKey` are `get_current_user_id` with the cached key and its one refetch;
`TakeNames` to `StoreNames` the cache of civilization names, under its lock with the
second look; `TakeUsers` to `StoreUsers` that of identities, without one. A token is the
key that signed it. `Fail`: a call that raises; only the identities are done without.

## 3. Runs

| Run | Asks | Bounds |
|---|---|---|
| `nudges_sole_writer` | with one writer per event, is a viewer with an out-of-date copy always about to be told, told in the end, or openly given up on; do versions only advance; is `ViewerSignal` implemented | 2 events and tasks, 1 tournament, 1 instance, 1 viewer, queue of 1, 3 stamps |
| `nudges_live_scope` | (violated) may ticks that do not overlap hide one another's scope | 1 event, 2 tasks, 2 tournaments, 2 stamps |
| `idempotency` | is there one answer per key, is every success committed, does an answered key never execute again, does every request end; is `KeyedWrites` implemented | 3 deliveries of one key, one of them with another body, and a request without a key; 2 instances, pool of 2 |
| `matchfeed` | does a completed match stay completed; is every page that changes told; is every game recorded and every link dropped in the end | 2 matches, 2 players, 2 tournaments, 1 roster edit, 1 failure |
| `management` | is nothing orphaned; has a team one captain; is a profile on a roster once; how far can a roster pass its ceiling; when can the last owner go, a window be inverted, a link be replaced, an account own more than its ceiling | 3 requests; a tournament with 2 owners, a full roster of 2, a team of both; a second slug, a ceiling of 1 tournament |
| `freeze` | is the frozen table that of the window; does it not jump at the end; does it come to rest | 1 player rated 2, ratings 1 to 3, 2 games, 1 rebase |
| `freeze_unrated` | (violated) does no game begun after the end raise the frozen peak | 1 player without a rating, 2 games |
| `livestreams` | do the tables come to follow the air; does an outage take nobody off it; is no live row left of what is gone | a row with a Twitch channel, its tournament with a YouTube handle; 2 titles, 1 edit, 2 failures |
| `matchstats` | is the longest run what it says; is the streak card true of one moment; do the views of one game agree | 2 entrants, 1 ladder opponent, 6 times with up to 5 games to choose from, window of 4 |
| `history` | does the chart end where the table is; does it show every order, and no peak too early; does the past stay as it was | 1 player polled before there were snapshots, 1 not polled yet, 1 placeholder; 3 ratings, 3 games, 5 units of time, both modes |
| `matchlog` | is a tag lost by nothing but a restart; is a result kept out by nothing but an answer without it; does every match come to be complete and tagged | 1 match, of a floored type or of another; 2 profiles; 1 failure or restart |
| `readpath` | is a sound token never refused; how old can an answer be | 2 requests, all lifetimes 1, 2 rotations, lags up to 6 |

Bounds. Instances share nothing but the table, which they only read, and viewers
share nothing but their instance's poll, so one of each sees every behaviour one
of them can see. Two events are needed for one to crowd the other out of a queue
of one; three stamps for a version before the first poll, one published and one
dropped. `CHECK_DEADLOCK FALSE`: once the stamps are used up and every viewer is
up to date, only the reads go on.

`Idempotency` needs no bound: each delivery happens once. Three deliveries are
enough for two that overlap and one after them, two instances for a crash that
leaves the other working, and with a pool of two (the api tier's) two keyed
writes exhaust one. `MatchFeed`: two matches and two feeds are what a deadlock
takes, two players of one match are what it takes for one to be answered and the
other not, and two tournaments for one to be told and the other not. One edit, of the
player who is in both matches, falls at every point of both ticks: he leaves his roster,
or joins the other one. Each
passing run of these two says `CHECK_DEADLOCK FALSE` since requests end and games
end.

`Management` needs no bound either, a request happens once. Two requests race,
and a third deletes what they work on or makes room for both: that is how the
roster exceeds its ceiling of two. The second slug is for an account that creates two
tournaments at once, or creates one and is granted the other. Each operation is there for the rows for
which it can conflict. Requests are symmetric.

`Freeze`: players share only the tick, which treats each by itself, so one of them
sees every behaviour; ratings below, at and above the first one, and two games, so
that one may be of the window and one not, or both on one side. The log grows by
one row at most for each change upstream, so it needs no bound. The proofs are for
any players.

`LiveStreams`: the platforms share no state but the entries, so one channel of each,
one on a roster row and one on a tournament, meets every branch of both clients; two
titles for a change while on air, two failures for a revoked token and a failed
request in one tick. `MatchStats`: six times are a run, a loss and a run with a game
outside the window on each side; the games at a time differ in outcome, in who is in
them, in a missing team, rating, civilization, end or leaderboard. `History`: a window of
three units with one before and one after it, and two games of one player, so that one
may straddle each bound; the day is three units, for a midnight inside the window. The
snapshots may begin before anything or inside the window. `MatchLog`: matches share only the
map and the tick's transaction, so one of them, of either kind of type, sees every
behaviour; two profiles for two answers of different moments on it; one fault is one for
each disjunct that fails, and the proofs are for any number. `ReadPath`: two requests
overlap; the routes share only the table, so a behaviour asks for one of them. The
lifetimes and a flight are 1, and each bound of `AnswersAreRecent` is met exactly by some behaviour;
`MaxLag` is above every bound, two rotations make a key older than the one before.
Each of these runs but `matchlog`, which never stops, says `CHECK_DEADLOCK FALSE`: games,
failures and time are bounded.

Fairness of `Nudges`: the poll loop sleeps two seconds and polls again
whatever happened (a failed poll is caught), the stream hands on what is queued,
the page refetches what it was told to. The worker, new viewers and restarts are
not fair: nothing is promised that needs them. Of `Idempotency`: a request that
has what it waits for goes on, and the pool's timeout fires; clients and crashes
are not fair. Of `MatchFeed`: both loops go on whatever a tick ended with, Postgres
ends a deadlock, and a released row goes to who waits for it (Postgres queues
for a row lock, hence SF); failures end at some time (`MaxFailures`): a backend
that never answers again is promised nothing. Of `Freeze`: the stats poller goes
round whatever happened, and a tick that is tried again and again succeeds (SF,
since each may fail); a game ends, and of a tracked player it gets settled. The end
of the window, games and roster edits are not fair. Of `LiveStreams`: each platform's
loop goes on whatever a tick ended with; streams, edits and failures are not fair. Of
`MatchLog`: loader and poller go round. `MatchStats`, `History` and `ReadPath` have only
safety properties and no fairness.

## 4. Findings

- **Scope of the live event** (`nudges_live_scope`). The twitch and youtube
  tasks emit unscoped when a stream goes on or off air; `live_matches` emits
  every 15 s, scoped to the tournaments in a game. Both write the one `live`
  row. If both commit between two polls, only the second scope is published and
  viewers of other tournaments are not told. Nothing repeats the first nudge.
- **First game after the end** (`freeze_unrated`). A tracked player without a rating
  at the end has no observation of the window, although every poll asked for it. The
  first game after the end makes the frozen peak fall back to the live one, and
  post-window games raise it; the docstring excludes that for a window that closes
  while polling is live.
- **A game in flight at the end, in the chart** (`history`, `ChartEndsAtTable`). The
  docstring of the frozen peak has such a game lift the table above the chart's final
  bucket, "which is capped at the bound by construction — an in-flight game has no
  pre-bound data point to chart" (`tournaments.py:971-974`). The chart's query bounds
  only when games begin (`tournaments.py:2239-2242`), so the game is charted where it ends, after the end,
  and chart and table agree. The run has such games, the property holds, and it is
  violated if the chart's games are cut at the end (`ChartedToEnd`). The docstring of
  the chart ("the latest bucket therefore always equals", `:2146`) is the one that is right here.

Behaviours that a reader of the code may not expect, which the properties describe or
allow:

- Live ticks that overlap can commit in the order opposite to their stamps, and the
  version of the live row goes back (`events.py:169`); with one writer per event it
  cannot (`RowNeverGoesBack`).
- The effect and the key of a keyed write are two commits; an instance that goes away
  between them makes the retry execute again (`idempotency.py:168`), though
  `models/idempotency.py:5-6` has a retry not re-execute. Two keyed writes exhaust the
  api tier's pool of two (`database.py:22`) and wait for the pool's timeout;
  `EveryRequestEnds` shows that it ends there.
- A match completed through one player's answer changes the page of a tournament that
  has only the other, whose request failed; that tournament is told in the next cycle
  (`recent_matches.py:132-134`). `RecentNudgeCovers` says that this is the only way. A
  player put on a roster between the query for the scope and the commit is told of in the
  next cycle too.
- With no profile on any roster the live tick returns before it writes, so the last
  snapshot of live links stays (`LinksAreDropped` says "or nobody is tracked").
- A player whose result is not in the first answer that is parsed and committed keeps a null
  outcome for ever, though the match is mended by later passes, and by later answers of
  the same tick (`upserts.py:274-284`); `ResultsSettle` says that nothing else keeps a
  result out. A drop stays null on a completed match. A tag may after a restart be
  null until the loader has come round (`TagLostOnlyByRestart`).
- A YouTube handle whose lookup fails once stays unresolved for the life of the worker
  (`FollowsTheAir` excepts it).
- Two revokes at once can take the last owner (the docstring says so), but only if the
  statement had seen another one. Two patches can invert a window and two links replace
  one another, but only if the second had read its row before the first
  (`OnlyStaleReads`). An account passes its ceiling of owned tournaments by two creates
  whose counts overlapped, or by a grant, which does not count; never by creating one
  tournament after another.
- A peak that upstream lowers after the end lowers the frozen one through the clamp, as
  documented, and later games can raise it again up to the old value, which "must stop
  moving" does not cover; `PeakIsTrue` is about players whose peak was not lowered. The
  tie-break of the final table is the other rating, which stays live.
- The chart takes what a player brought into the window from the first game *recorded*
  of it. While the log has a gap there, the past is floored too high. The same happens to a
  player whom nobody observed in the window and whose log has a game begun after the end:
  what that game earned is in the live peak, which is carried into the start of the window.
  `NoPeakBeforeItIsEarned` and `PastIsSettled` say when it does not happen. After a rebase
  the clamp rises with the live peak, and past buckets with it.
- After the end the chart and the table differ where a pre-window game was observed by
  nobody before the end (the table counts it, the chart does not), and in their
  tie-breaks: the last rating in the log, the live rating. `ChartEndsAtTable` compares
  orders only while the window is open, the values ranked on afterwards.
- GET /summary reads the value of the streak card and its dates in two statements; a
  game recorded in between can lengthen the run the dates are of (`CardSpansItsValue`).
- A token signed with a replaced key is accepted until a newer one makes the instance
  refetch. A slower fetch can put an older key back; that costs another refetch and
  refuses nobody (`RotationIsSurvived`). `infra/README.md:140` has the middleware stamp
  `public, max-age=3600` on a GET that sets no header itself; the code stamps
  `no-store` (`main.py:135-162`).

## 5. Proofs

### Nudges

All by `tlapm`, for any events, tournaments, tasks, instances, viewers, queue
limit and number of stamps; `ConstantsAssumption` is the only assumption besides
those a theorem names, for an event `e` and a viewer `c` or for all of them:

- `SoleWriterOf(e)`: one task emits it (`player_stats` is alone with standings,
  `recent_matches` with matches; live has one writer without stream credentials and
  three with both). `SoleWriter` asks it of every event;
- `AlwaysReached(c, e)`: every tick that emits it concerns the viewer's tournament (true
  of standings where the tournament has a linked player, `player_stats.py:66-72`; not of
  matches when an upstream call fails, nor of live). `EveryoneReached` asks it of all.
  `nudges_live_scope` violates the promise where neither holds.

`TypeCorrect` needs neither. `VersionInv(e)` (types; `SeenIsOld`: last_seen <= batch
<= row; `WriterIsAhead`: row < stamp of an open transaction, and the row is as
it was loaded) is inductive under `SoleWriterOf(e)`: `VersionsInOrder`, and with it
`RowMonotone` and `SeenMonotone`.

`ViewerIsTold` is the promise to one viewer about one event: it needs the two
assumptions for that pair only, so a standings viewer keeps it in a deployment whose live
streams break it for others. Its invariant is `ViewerInv` (`VersionInv(e)`, and that every
stored scope of `e` reaches `c`) with `Told(c, e)` itself. The heart is `PublishTells`:
publishing a batch onto a queue that may be full loses no word but what it counts as
missed; `RelayTells` and `CommitTells` cover the other steps.

`IInv` is this for all pairs, with `OfflineIsQuiet`; under it each step of `Nudges` is a
step of `ViewerSignal` or a stutter (`Implementation`; one lemma per kind of step:
`ChangeStep`, `RelayStep`, `JoinStep`, `FetchStep`, `LeaveStep`). `PromiseKept` is about
`ViewerSignal` alone, and `Safety` carries it back to `Nudges`. TLC checks all of these
first; liveness (`StaleViewerIsServed`) is only model-checked, since TLAPS does
not reason about fairness here.

### Idempotency

For any requests (finitely many, which `Cardinality` needs), keys, instances and
pool size. `TypeOK` and `PoolBounded` are inductive as they stand. The other
three rest on `IInv`: what is stored was written by a request with that key and
body (`StoredIsWritten`), a definitive answer is what is stored, or the request's
own if it had no key (`AnswersAreStored`), and a handler that says ok has
committed (`OkIsCommitted`). Then two answers to a key are one entry of the store
(`OneAnswerEver`), a success leads through that entry to a commit
(`SuccessIsAlwaysReal`), and the next lookup must hit (`AnswersAreFinal`).

`Implementation` is the whole of it: under `IInv` and `NotYet` (nobody is answered before
the end, no effect comes before the handler) each step of `Idempotency` is a step of
`KeyedWrites` or a stutter, one lemma per kind of step (`LookupStep`, `StoreStep`,
`CrashStep`). A key is closed once, by what one of its requests has earned; a request has
its effect at most once, is told something at most once, and reaches its handler only while
its key is open. `Inside`, the requests that have reached the handler, is all the mapping
keeps of where a request is. The pool does not show in `KeyedWrites`: it can make a request
give up, never tell it something else.

### MatchFeed

For any matches, members, rosters and bounds. `TypeOK` is inductive and says more
than its name: in every row the state and `completed_at` agree, though two feeds
write them. `CompletionIsFinal` rests on it and on `CompletedStays` (one lemma
for all steps); `LiveChangesAreTold` on the links before and after the step, against the rosters of the
query: what changes for somebody who was on a roster then is in the scope.
`RecentChangesAreTold` holds whether or not requests failed. It needs to know where a
written match comes from (`WrittenIsListed`, inductive with `TypeOK`; `Invariance`): it is
listed in the answer for one of its players, from the fetch through every upsert to the
commit. So a tournament that is not told although its results change had no player of the
match answered for, and the match came through an opponent who is not on its roster.

### LiveStreams

For any entries, channels, titles and links, in `ReadPathProofs`; the two modules share
one namespace there, so the names of this one that would clash begin with `Air`.
`AirTypeOK` is inductive together with `TwitchNeverGuesses`, and says more than its name
(`AirInvariance`, `AirTypesHold`): a live row is of an
entry that exists, though links are read in one transaction and applied in another, and a
tick has an answer for every channel it read but those still to be asked about.
`OutagesClearNothing` follows: of all steps only a tick of Twitch clears a row of an entry
that stays, it does so when none of the entry's channels was answered to be on air, and no
answer of Twitch stands for a failed request.

### Management

For any tables that satisfy their constraints at the start, any operations and
any requests. `IInv` is inductive with `Loaded` (what a request knows past its
gate). No orphans need that ids are unique: a member's team and player after a
delete are the ones they were before; unique ids need that they are fresh
(`IdsFresh`). One captain needs that a request clears what it has locked
(`LocksApart`, `LockedStay`). `RosterBoundedEver` counts what is on a roster with
the adds that have passed their check: a check can only pass below the ceiling,
with all other requests pending at most. `LastOwnerGuarded` and `OnlyStaleReadsEver`
rest on `Informed`: what a request has checked or seen when it writes. For the ceiling of
an account (`CeilingStep`) that is the rows its count has found, fewer than the ceiling; if
it has found all that are there, one more is within. The owners have to be finitely many
(`Countable`), which `StartAssumption` asks of the start.

### Freeze

For any players, ratings, starting accounts and numbers of games. `IInv` says what
each piece of the system can contribute to the frozen table: a row observed by the
end, or held by a tick that will stamp it so, lies between the peak at the start and
that of the window, and has the current rating of the start as long as no game of the
window has ended (`SeenByEnd`); games of the window come first and lead to `asOf`
(`WindowAccount`); until the end everything is early (`StillOpen`). Together with
`LogFollowsLive` it is inductive. `FrozenPeakIsTrue`: the peak of the window is among
the observations or the settled games, and nothing there exceeds it.
`FrozenCurrentIsTrue`: by cases on whether the window had a game. `CloseIsSmooth`: the
last row of the log is the live row, and is early at the end. That a bounded set of
numbers has a highest member (`HighestOf`) comes from the well-foundedness of the
naturals.

### MatchStats

For any window, entrants, times and log. The scan for the longest run goes down the games
from the newest; `Scan` says what it knows once it has seen the times from `t` on: the best
run so far, that none is longer and, of its length, none later, and the run it is in. One
lemma for each way a round can go (`NoGameScanned`, `LossScanned`, `RunContinued`,
`WinScanned`) says that a round keeps this, and `LongestRunScans` that it holds when all is
seen: by the greatest time at which it could fail, since induction has to be spelled out
here through the well-foundedness of the naturals (`LeastOf`). A log has a last game at
every moment (`LogIsBounded`). Then `RunsAreAlwaysLongest` is what the scan knows at the end
with the current streak as one of the runs it has looked at (`StreakIsARun`), and
`CardAlwaysSpansItsValue` rests on `ValueIsAsOf`: the value chosen at the first query is the
longest run of the leader's games as of that query, and games that are committed between the
two queries and are not the leader's change nothing of it.
`ViewsAlwaysAgree` says of each moment between two requests that the views agree; it needs
no more than `LogIsBounded`, and has a lemma for each of its parts:

- `EntrantsMeet`, `SeenInTheFeed`: two teams of entrants are two entrants who oppose each
  other, and the reverse.
- `SameForm`: both lists are cut from one enumeration of one set of games.
- `CountsAreMerged`: a sum over players of how many games each has is the number of pairs
  of a game and its player (`Pairs`). `TotalCounts` shows it from the last player down, by
  the greatest number at which it could fail; a step adds the games of one player
  (`OneMore`). A finite roster has a last number (`FiniteIsBounded`).
- `CardIsCharted`: the first and the last of an enumeration by time are the least and the
  greatest (`EndsOfList`): of all games none is before the least, all others before the greatest.

### MatchLog

For any matches, types, leaderboards, payloads and bounds, in `MatchStatsProofs`, where
names that would clash begin with `Log`. `LogIInv` is inductive: `FloorHolds` (the map,
every row under way and every completed match) and `TagsAreMapped`: the map knows the
types the worker has tagged a match of, a row under way of such a type is not without a
tag, and as long as there was no restart every tag is of such a type. Its point is the
order of two lookups: the tick parses with the map of one moment and commits at another,
and a tag written meanwhile must not be overwritten with null. It holds since the map
only grows (`dict.update`), and since one tick runs at a time. `Overlay` is the fact
about the two merges, of maps and of rows. `TagsAreKept` and `FloorHoldsEver` follow.

### History

For any players, teams, ratings, window, day and horizon. `IInv` keeps, for each player,
what upstream, the games and the snapshots say of one another: games follow in time and
each begins where the one before ended (`GamesInOrder`); a snapshot has the rating after
the games that had ended when it was taken, and the last one is the live row
(`SnapsInOrder`); unless upstream has lowered a peak, every peak is the highest of the
first one and of the games up to its time (`PeaksInOrder`); and ratings are bounded
(`HasTop`), since a reachable log is finite.

- `EveryOrderIsAlwaysCharted`: the events between two candidates cannot change the order,
  since every event is a candidate; the argument is about the *last* candidate before a
  time and the last one emitted, which are maxima of bounded sets (`MaxOf`).
- `PeaksAreAlwaysEarned`: a line is the highest of what was carried into the window and of
  what is known of it, under the clamp; each is bounded by `PeaksInOrder`. It needs that no
  game begun after the end is in the log when nothing was observed in the window.
- `ChartAlwaysEndsAtTable`: while the window is open the last value of a line is the live
  row's (`LineEndsAtLive`, `RatingEndsAtLive`), so that players and teams have the same
  keys and the order, which is a function of the keys, is the same; after it, values are
  compared with the frozen ones, by cases on what the log knows
  (`LineEndsAtFrozen`, `RatingEndsAtFrozen`).
- `PastStaysSettled`: games, polls and rebases add to the end of the log only, so what a
  line says of a past time is made of the same entries before and after (`SeenStays`,
  `ChartedStays`, `LineStays`).

No recursion is needed: the sweep of the endpoint is modelled by what it holds as of a
time, and every extremum exists by the well-foundedness of the naturals (`LeastOf`).

### ReadPath

For any requests, lifetimes, flight times, rotations and lags. `IInv` is the type
invariant with `KeysInOrder` (a cached key is one that was published, a request past its
first look has a key not older than its token's, and only a token of an older key is
refused) and `CopiesInTime` (the lag of each copy, by how long it has been where it is and
what it was copied from, at the edge, in each cache and at each step of a request).
`RotationIsAlwaysSurvived` rests on the first, `AnswersAreAlwaysRecent` on the second,
one case per place an answer comes from.

### What the proofs changed

- `AnswersAreRecent` bounded a viewer's delay by one flight; there are two, that of the
  request which left the copy at the edge and the viewer's own. With a flight of one unit,
  as in the run, the two bounds agree.
- `NoPeakBeforeItIsEarned` did not except a game begun after the end; the run's horizon is
  too near for it. It is among the behaviours above.
- `RankMetric` of `History` and the token's verdict of `ReadPath` were CASEs with guards
  that overlap, which leaves the choice of arm open. They are chains of IF, in the order of
  the code.
- The longest run was a fold of the community modules over the sequence of games, sorted by
  `CHOOSE`; it is a recursive function of the times, which walks the games in the same order
  and can be reasoned about. `Streak` is the set of the leading games of one outcome, where
  it was the length of a prefix. In the same way the lists of games are functions that give
  each place the game with as many others before it, and the merged counts are sums that
  walk the players.
- `ViewsAgree` compared the merged counts of all civilizations in one sum, which a wrong
  pair of counts can leave right; it compares each, picks and wins. It took a game to be
  over when it has an outcome: the feed and the chart ask for the completion time, the
  records for the outcome, which are two fields upstream, parsed apart. The conditions are
  now part of the property, and the run has a game with an outcome and no end.
- The roster has to be finite: `ConstantsAssumption` says so.
- `RecentNudgeCovers` was about cycles without a failed request, and `MatchFeed` asked for
  the scope at the commit. The query is now a step of its own, before the commit, and the
  property is about every cycle: it names the one way a change is not told.
- `OnlyStaleReads` left the ceiling on owned tournaments out. It is the third of its parts.

### Only model-checked

- Liveness (`StaleViewerIsServed`, `EveryRequestEnds`, `GameIsRecorded`, `LinksAreDropped`,
  `TableSettles`, `FollowsTheAir`, `MatchesSettle`, `ResultsSettle`): out of TLAPS's reach here.
- What the violated runs show.

## 6. Plan

Done: everything above. Every safety property that a passing run checks is also proved.
What is left is the liveness properties, which TLAPS cannot reason about here. Of the code,
what follows is left out on purpose.

## 7. Not modelled

HTTP wiring, logging, settings, schemas and plain reads change no state. Token
cryptography and rate limiting are libraries; the shared cache at the edge, the
platforms, the auth service and the upstream backend are external and modelled by what
`src/` expects of them. Parsers are conversion of JSON; what the models need of them
(which matches are listed, when one is complete, its tag and outcomes, the floor of a
peak, the maps of matchtypes) is in the models. Names, metadata and presentation of
tournaments, teams and rows decide nothing. One instance of the api is modelled at a
time where instances share only the database.
`PROJECT.json` lists every component with its status.
