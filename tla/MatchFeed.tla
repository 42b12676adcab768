----------------------------- MODULE MatchFeed -----------------------------
(***************************************************************************)
(* The two pollers that write matches (src/app/poller/live_matches.py and  *)
(* recent_matches.py) through the upserts of src/app/poller/upserts.py,    *)
(* while the games go on upstream and owners edit the rosters.             *)
(*                                                                         *)
(* A tick reads the roster, asks upstream, then writes in one transaction: *)
(* an upsert locks its match until the commit.  A player's result is       *)
(* inserted with the completed match and is not kept apart from it.        *)
(***************************************************************************)
EXTENDS Naturals

CONSTANTS
    Matches,
    Profiles,
    Tournaments,
    Members,      \* [Matches -> SUBSET Profiles]
    Game0,        \* [Matches -> Phases]: what goes on when the worker starts
    Roster0,      \* [Tournaments -> SUBSET Profiles]: the first rosters
    Editable,     \* [Tournaments -> SUBSET Profiles]: whom owners add or remove
    MaxEdits,     \* bound on roster edits
    MaxFailures   \* bound on failures of upstream or a tick

Phases == {"none", "staging", "in_progress", "over", "gone"}
Open   == {"staging", "in_progress"}

ASSUME ConstantsAssumption ==
    /\ Game0 \in [Matches -> Phases]
    /\ Members \in [Matches -> SUBSET Profiles]
    /\ {Roster0, Editable} \subseteq [Tournaments -> SUBSET Profiles]
    /\ MaxEdits \in Nat /\ MaxFailures \in Nat

VARIABLES
    game,      \* upstream: what each match is doing
    roster,    \* tournament_players, the linked profiles of each tournament
    matches,   \* the matches table: state, and whether completed_at is set
    links,     \* live_match_players: pairs of a match and a profile
    live,      \* the tick of poll_live_matches
    recent,    \* the tick of poll_recent_matches
    edits, failures

db   == <<matches, links>>
vars == <<game, roster, matches, links, live, recent, edits, failures>>

-----------------------------------------------------------------------------
(* A row of matches.  Two writers keep state and completed_at in step.     *)
NoRow     == [state |-> "none", completed |-> FALSE]
OpenRow   == [state : Open, completed : {FALSE}]
Completed == [state |-> "completed", completed |-> TRUE]
Row       == OpenRow \union {Completed}

Tracked == UNION {roster[t] : t \in Tournaments}

Rosters == [Tournaments -> SUBSET Profiles]

(* Of rosters as a query has seen them. *)
Concerned(rosters, ps) == {t \in Tournaments : rosters[t] \cap ps # {}}

Linked(ls) == {p \in Profiles : \E m \in Matches : <<m, p>> \in ls}

(* What a page shows of a tournament: who is in a game (the in_match flag  *)
(* and /live), and which matches its players have completed.               *)
InMatch(t) == {l \in links : l[2] \in roster[t] /\ matches[l[1]].state \in Open}
Results(t) == {m \in Matches : matches[m].state = "completed" /\ Members[m] \cap roster[t] # {}}

-----------------------------------------------------------------------------
(* A tick: what it knows of upstream, what it has yet to upsert and what   *)
(* it has locked.  `seen` is the lobbies and their state for the live tick *)
(* and, for the recent tick, what each answered profile's history lists;   *)
(* `rosters` are the rosters as the query for the nudge's scope saw them.  *)
Idle == [pc |-> "idle", tracked |-> {}, seen |-> <<>>, todo |-> {}, held |-> {}, rosters |-> <<>>]

Begun(ps)       == [Idle EXCEPT !.pc = "fetching", !.tracked = ps]
Fetched(t, s, ms) == [t EXCEPT !.pc = "writing", !.seen = s, !.todo = ms]
Upserted(t, m)  == [t EXCEPT !.todo = @ \ {m}, !.held = @ \union {m}]
Scoped(t)       == [t EXCEPT !.pc = "scoped", !.rosters = roster]

Init ==
    /\ game = Game0
    /\ roster = Roster0
    /\ matches = [m \in Matches |-> NoRow]
    /\ links = {}
    /\ live = Idle
    /\ recent = Idle
    /\ edits = 0
    /\ failures = 0

-----------------------------------------------------------------------------
(* Upstream: a lobby opens, starts or is abandoned, ends.                  *)
Play(m) ==
    /\ \/ game[m] = "none" /\ game' = [game EXCEPT ![m] = "staging"]
       \/ game[m] = "staging" /\ \E g \in {"in_progress", "gone"} : game' = [game EXCEPT ![m] = g]
       \/ game[m] = "in_progress" /\ game' = [game EXCEPT ![m] = "over"]
    /\ UNCHANGED <<roster, db, live, recent, edits, failures>>

(* Owners add and remove roster entries. *)
Edit(t, p) ==
    /\ edits < MaxEdits
    /\ edits' = edits + 1
    /\ \/ p \in roster[t] /\ roster' = [roster EXCEPT ![t] = @ \ {p}]
       \/ p \notin roster[t] /\ roster' = [roster EXCEPT ![t] = @ \union {p}]
    /\ UNCHANGED <<game, db, live, recent, failures>>

-----------------------------------------------------------------------------
(* poll_live_matches: the tracked profiles; a tick without any returns.    *)
LiveStart ==
    /\ live.pc = "idle"
    /\ Tracked # {}
    /\ live' = Begun(Tracked)
    /\ UNCHANGED <<game, roster, db, recent, edits, failures>>

(* findAdvertisements, reduced to the lobbies with a tracked member. *)
LiveFetch ==
    /\ live.pc = "fetching"
    /\ LET open == {m \in Matches : game[m] \in Open /\ Members[m] \cap live.tracked # {}}  IN
           live' = Fetched(live, [m \in open |-> game[m]], open)
    /\ UNCHANGED <<game, roster, db, recent, edits, failures>>

LiveUpsert(m) ==
    /\ live.pc = "writing"
    /\ m \in live.todo \ recent.held
    /\ live' = Upserted(live, m)
    /\ UNCHANGED <<game, roster, db, recent, edits, failures>>

(* Slip: the state is updated whether or not the match is completed. *)
FromLiveAlways(m) ==
    IF matches[m] = NoRow THEN [state |-> live.seen[m], completed |-> FALSE]
                          ELSE [matches[m] EXCEPT !.state = live.seen[m]]

(* upsert_match_from_live: ON CONFLICT, the state where completed_at is    *)
(* null.                                                                   *)
FromLive(m) ==
    IF matches[m] = NoRow THEN [state |-> live.seen[m], completed |-> FALSE]
    ELSE IF matches[m].completed THEN matches[m]
    ELSE [matches[m] EXCEPT !.state = live.seen[m]]

Snapshot == {l \in (DOMAIN live.seen) \X live.tracked : l[2] \in Members[l[1]]}

(* Slip: nothing live, nothing to write. *)
ReplacedIfAny == IF Snapshot = {} THEN links ELSE Snapshot

(* replace_live_match_players: clear, then insert. *)
Replaced == Snapshot

(* Slip: the scope forgets who has just left a game. *)
LiveScopeNew == Concerned(live.rosters, Linked(Snapshot))

(* The tournaments told: of those linked before and of those linked now.   *)
LiveScope == Concerned(live.rosters, Linked(links) \union Linked(Snapshot))

(* The upserts done, the query for the scope; owners edit rosters on until *)
(* the commit.                                                             *)
LiveQuery ==
    /\ live.pc = "writing" /\ live.todo = {}
    /\ live' = Scoped(live)
    /\ UNCHANGED <<game, roster, db, recent, edits, failures>>

LiveCommit ==
    /\ live.pc = "scoped"
    /\ matches' = [m \in Matches |-> IF m \in live.held THEN FromLive(m) ELSE matches[m]]
    /\ links' = Replaced
    /\ live' = Idle
    /\ UNCHANGED <<game, roster, recent, edits, failures>>

-----------------------------------------------------------------------------
(* poll_recent_matches: one request per tracked profile, all under way at  *)
(* once; `todo` is the profiles not answered yet while it fetches.         *)
RecentStart ==
    /\ recent.pc = "idle"
    /\ Tracked # {}
    /\ recent' = [Begun(Tracked) EXCEPT !.todo = Tracked]
    /\ UNCHANGED <<game, roster, db, live, edits, failures>>

(* getRecentMatchHistory lists finished matches. *)
History(p) == {m \in Matches : p \in Members[m] /\ game[m] = "over"}

(* The last answer ends the gather; all that is listed is to be written. *)
Answer(p, s) ==
    IF recent.todo = {p} THEN Fetched(recent, s, UNION {s[q] : q \in DOMAIN s})
                         ELSE [recent EXCEPT !.todo = @ \ {p}, !.seen = s]

RecentFetch(p) ==
    /\ recent.pc = "fetching" /\ p \in recent.todo
    /\ recent' = Answer(p, [q \in DOMAIN recent.seen \union {p} |->
                              IF q = p THEN History(p) ELSE recent.seen[q]])
    /\ UNCHANGED <<game, roster, db, live, edits, failures>>

(* A failed request is logged and skipped. *)
RecentFetchFails(p) ==
    /\ recent.pc = "fetching" /\ p \in recent.todo
    /\ failures < MaxFailures
    /\ failures' = failures + 1
    /\ recent' = Answer(p, recent.seen)
    /\ UNCHANGED <<game, roster, db, live, edits>>

RecentUpsert(m) ==
    /\ recent.pc = "writing"
    /\ m \in recent.todo \ live.held
    /\ recent' = Upserted(recent, m)
    /\ UNCHANGED <<game, roster, db, live, edits, failures>>

(* Slip: the scope is of the profiles with a match in their own answer. *)
RecentScopeWrote == Concerned(recent.rosters, {p \in DOMAIN recent.seen : recent.seen[p] # {}})

(* The tournaments told: of the profiles whose request was answered. *)
RecentScope == Concerned(recent.rosters, DOMAIN recent.seen)

RecentQuery ==
    /\ recent.pc = "writing" /\ recent.todo = {}
    /\ recent' = Scoped(recent)
    /\ UNCHANGED <<game, roster, db, live, edits, failures>>

(* upsert_match_from_recent has overwritten every column. *)
RecentCommit ==
    /\ recent.pc = "scoped"
    /\ matches' = [m \in Matches |-> IF m \in recent.held THEN Completed ELSE matches[m]]
    /\ recent' = Idle
    /\ UNCHANGED <<game, roster, links, live, edits, failures>>

-----------------------------------------------------------------------------
(* Each waits for a match the other has locked. *)
Deadlocked == live.todo \cap recent.held # {} /\ recent.pc = "writing" /\ recent.todo \cap live.held # {}

(* A tick fails (upstream, the database, a restart) or is the database's   *)
(* victim of a deadlock: its transaction is rolled back and the loop goes  *)
(* on.                                                                     *)
Fail(isVictim) ==
    IF isVictim THEN UNCHANGED failures
                ELSE failures < MaxFailures /\ failures' = failures + 1

LiveFail ==
    /\ live.pc # "idle"
    /\ Fail(Deadlocked)
    /\ live' = Idle
    /\ UNCHANGED <<game, roster, db, recent, edits>>

(* Slip: a failed tick ends the loop. *)
RecentFailForGood ==
    /\ recent.pc # "idle"
    /\ Fail(Deadlocked)
    /\ recent' = [Idle EXCEPT !.pc = "dead"]
    /\ UNCHANGED <<game, roster, db, live, edits>>

RecentFail ==
    /\ recent.pc # "idle"
    /\ Fail(Deadlocked)
    /\ recent' = Idle
    /\ UNCHANGED <<game, roster, db, live, edits>>

LiveNext ==
    \/ LiveStart
    \/ LiveFetch
    \/ \E m \in Matches : LiveUpsert(m)
    \/ LiveQuery
    \/ LiveCommit
RecentNext ==
    \/ RecentStart
    \/ \E p \in Profiles : RecentFetch(p)
    \/ \E m \in Matches : RecentUpsert(m)
    \/ RecentQuery
    \/ RecentCommit

Next ==
    \/ \E m \in Matches : Play(m)
    \/ \E t \in Tournaments : \E p \in Editable[t] : Edit(t, p)
    \/ LiveNext \/ LiveFail
    \/ RecentNext \/ (\E p \in Profiles : RecentFetchFails(p)) \/ RecentFail

Spec == Init /\ [][Next]_vars

(* The loops go on whatever a tick ended with, a released lock goes to who *)
(* waits for it, and the database ends a deadlock.  Failures end at some   *)
(* time (MaxFailures).                                                     *)
Fairness ==
    /\ SF_vars(LiveNext)
    /\ SF_vars(RecentNext)
    /\ WF_vars(Deadlocked /\ (LiveFail \/ RecentFail))

FairSpec == Spec /\ Fairness

-----------------------------------------------------------------------------
LiveSeen   == UNION {[S -> Open] : S \in SUBSET Matches}
RecentSeen == UNION {[S -> SUBSET Matches] : S \in SUBSET Profiles}

Phase == {"idle", "fetching", "writing", "scoped"}

TypeOK ==
    /\ game \in [Matches -> Phases]
    /\ roster \in Rosters
    /\ matches \in [Matches -> Row \union {NoRow}]
    /\ links \subseteq Matches \X Profiles
    /\ live \in [pc : Phase, tracked : SUBSET Profiles, seen : LiveSeen,
                 todo : SUBSET Matches, held : SUBSET Matches, rosters : Rosters \union {<<>>}]
    /\ live.held \union live.todo \subseteq DOMAIN live.seen
    /\ live.pc \notin {"writing", "scoped"} => live.held = {}
    /\ recent \in [pc : Phase, tracked : SUBSET Profiles, seen : RecentSeen,
                   todo : SUBSET (Profiles \union Matches), held : SUBSET Matches,
                   rosters : Rosters \union {<<>>}]
    /\ edits \in 0..MaxEdits
    /\ failures \in 0..MaxFailures

(* Once a match is completed, no tick of either feed, however old what it  *)
(* has seen, shows it live again (upserts.py: a stale live observation     *)
(* never clobbers the completion).                                         *)
CompletedIsFinal ==
    [][\A m \in Matches : matches[m].completed
          => matches'[m].completed /\ \A t \in Tournaments, p \in Profiles : <<m, p>> \notin InMatch(t)']_vars

(* What changes on a page with a step. *)
InMatchChange(t) == (InMatch(t)' \ InMatch(t)) \union (InMatch(t) \ InMatch(t)')
ResultsChange(t) == (Results(t)' \ Results(t)) \union (Results(t) \ Results(t)')

(* Every tournament whose page changes with a live tick is told, those of  *)
(* players who left a game included (live_matches.py:52-62); an edit       *)
(* between the query and the commit excuses only what changes for the      *)
(* player it has added.                                                    *)
LiveNudgeCovers ==
    [][LiveCommit =>
          \A t \in Tournaments :
              (\E l \in InMatchChange(t) : l[2] \in live.rosters[t]) => t \in LiveScope]_vars

(* Every tournament whose results change with a recent tick is told, also  *)
(* where the match was not listed yet in its own players' answers; unless  *)
(* none of those who played in it was answered for, because the request    *)
(* failed or they came to the roster after it was read, and the match was  *)
(* listed for an opponent from elsewhere (recent_matches.py:127-138).      *)
RecentNudgeCovers ==
    [][RecentCommit =>
          \A t \in Tournaments : \A m \in ResultsChange(t) :
              \/ t \in RecentScope
              \/ /\ Members[m] \cap recent.rosters[t] \cap DOMAIN recent.seen = {}
                 /\ \E p \in DOMAIN recent.seen \ recent.rosters[t] :
                        p \in Members[m] /\ m \in recent.seen[p]]_vars

(* Behind it: what is to be written or has been is in somebody's answer.   *)
WrittenIsListed ==
    /\ \A p \in DOMAIN recent.seen : \A m \in recent.seen[p] : p \in Members[m]
    /\ recent.pc \in {"writing", "scoped"} =>
           recent.todo \union recent.held \subseteq UNION {recent.seen[p] : p \in DOMAIN recent.seen}
    /\ recent.pc \in {"idle", "fetching"} => recent.held = {}

IInv == TypeOK /\ WrittenIsListed

(* A finished match with a tracked player ends up completed, and its links *)
(* are dropped, as long as somebody is tracked.                            *)
GameIsRecorded ==
    \A m \in Matches : (game[m] = "over") ~> (matches[m].completed \/ Members[m] \cap Tracked = {})

LinksAreDropped ==
    \A m \in Matches : (game[m] \in {"over", "gone"}) ~> (m \notin {l[1] : l \in links} \/ Tracked = {})

=============================================================================
