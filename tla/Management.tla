----------------------------- MODULE Management -----------------------------
(***************************************************************************)
(* The management routes: tournaments, owners, roster, teams and captains  *)
(* (src/app/routers/tournaments.py, owners.py, players.py, teams.py) over  *)
(* the tables of src/app/models/tournament.py.                             *)
(*                                                                         *)
(* A request passes the gate, reads what its checks need, then writes in a *)
(* transaction at READ COMMITTED: what it has read may be out of date when *)
(* it writes, and only the constraints of the tables are checked again.    *)
(* A row a request inserts is named after the request.  Names, metadata    *)
(* and presentation are left out; of them only the window is checked, a    *)
(* patch sets one of its bounds.                                           *)
(***************************************************************************)
EXTENDS Naturals, FiniteSets

CONSTANTS
    Requests,
    Rows0,        \* ids of the rows there at the start
    Slugs,
    Users,
    Creators,     \* tournament_creators
    Profiles,
    None,
    Dates,        \* naturals; NoDate is a null bound
    Ops,          \* what requests may ask for
    MaxRoster,    \* _MAX_ROSTER_ROWS_PER_TOURNAMENT
    MaxOwned,     \* _MAX_OWNED_TOURNAMENTS_PER_CREATOR
    Tournaments0, Owners0, Players0, Teams0, Members0

Ids    == Requests \union Rows0
NoDate == 0

Tournament == [id : Ids, slug : Slugs, start : Dates \union {NoDate}, end : Dates \union {NoDate}]
Player     == [id : Ids, tour : Ids, profile : Profiles \union {None}]
Team       == [id : Ids, tour : Ids]

ASSUME ConstantsAssumption ==
    /\ IsFiniteSet(Requests) /\ Requests # {}
    /\ Requests \cap Rows0 = {}
    /\ Dates \subseteq Nat \ {NoDate}
    /\ None \notin Ids \union Profiles
    /\ Creators \subseteq Users
    /\ MaxRoster \in Nat /\ MaxOwned \in Nat
    /\ \A o \in Ops : /\ o.kind = "create" => o.slug \in Slugs
                      /\ o.kind \in {"grant", "revoke"} => o.user \in Users
                      /\ o.kind \in {"add", "link"} => o.profile \in Profiles \union {None}
                      /\ o.kind = "patch" => o.date \in Dates \union {NoDate}

(* The tables at the start are as their constraints say. *)
ASSUME StartAssumption ==
    /\ Tournaments0 \subseteq {x \in Tournament : x.id \in Rows0}
    /\ Players0 \subseteq {p \in Player : p.id \in Rows0}
    /\ Teams0 \subseteq {x \in Team : x.id \in Rows0}
    /\ \A x, y \in Tournaments0 : x.id = y.id => x = y
    /\ \A x, y \in Players0 : x.id = y.id => x = y
    /\ \A x, y \in Teams0 : x.id = y.id => x = y
    /\ \A p \in Players0 \union Teams0 : \E x \in Tournaments0 : p.tour = x.id
    /\ Owners0 \subseteq {x.id : x \in Tournaments0} \X Users
    /\ Members0 \subseteq {m \in Ids \X Ids : \E x \in Teams0, p \in Players0 :
                              x.id = m[1] /\ p.id = m[2] /\ x.tour = p.tour}
    /\ \A p, q \in Players0 : (p.tour = q.tour /\ p.profile = q.profile /\ p.profile # None) => p = q
    /\ IsFiniteSet(Players0) /\ IsFiniteSet(Owners0)
    /\ \A t \in Ids : Cardinality({p \in Players0 : p.tour = t}) <= MaxRoster

VARIABLES
    tournaments,   \* SUBSET Tournament
    owners,        \* tournament_owners: pairs of a tournament and a user
    players,       \* tournament_players, SUBSET Player
    teams,         \* SUBSET Team
    members,       \* team_members: pairs of a team and a player
    captains,      \* those of members with is_captain
    req            \* each request: where it is, and what it has read

tables == <<tournaments, owners, players, teams, members, captains>>
vars   == <<tables, req>>

-----------------------------------------------------------------------------
Exists(t)      == \E x \in tournaments : x.id = t
OwnersOf(t)    == {o \in owners : o[1] = t}
Roster(t)      == {p \in players : p.tour = t}
CaptainsOf(tm) == {m \in captains : m[1] = tm}
Owned(u)       == {o \in owners : o[2] = u}

Entered(t, id)     == \E p \in Roster(t) : p.id = id
OnRoster(t, prof)  == prof # None /\ \E p \in Roster(t) : p.profile = prof
HasTeam(t, tm)     == [id |-> tm, tour |-> t] \in teams

Inverted(x) == x.start # NoDate /\ x.end # NoDate /\ x.start > x.end

(* What a request knows: `row` is the tournament as the gate loaded it,    *)
(* `entry` the roster row a link has read, `snap` the rows its statement   *)
(* has found (of a create, those it has counted), `held` those it has      *)
(* locked.                                                                 *)
NoRow == [id |-> None]
New   == [pc |-> "new", op |-> [kind |-> "none"], row |-> NoRow, entry |-> NoRow, snap |-> {}, held |-> {}]

Ended(a) == [New EXCEPT !.pc = a]

End(r, a) == req' = [req EXCEPT ![r] = Ended(a)]

Op(r)         == req[r].op
Tour(r)       == req[r].row.id
At(r, pc, ks) == req[r].pc = pc /\ Op(r).kind \in ks

(* The rows of owners and members are the only ones a transaction keeps    *)
(* locked between two statements.                                          *)
Free(r, rows) == \A s \in Requests \ {r} : req[s].held \cap rows = {}

Init ==
    /\ tournaments = Tournaments0
    /\ owners = Owners0
    /\ players = Players0
    /\ teams = Teams0
    /\ members = Members0
    /\ captains = {}
    /\ req = [r \in Requests |-> New]

-----------------------------------------------------------------------------
(* require_tournament_owner, and get_owned_team on the routes of a team;   *)
(* for a creation, the allowlist.                                          *)
ForTeam == {"delete_team", "add_member", "remove_member", "set_captain", "clear_captain"}

Admits(o, x) ==
    /\ x.slug = o.slug
    /\ <<x.id, o.by>> \in owners
    /\ o.kind \in ForTeam => HasTeam(x.id, o.team)

Gate(r, o) ==
    /\ req[r].pc = "new"
    /\ \/ /\ o.kind = "create" /\ o.by \in Creators
          /\ req' = [req EXCEPT ![r] = [New EXCEPT !.pc = "gated", !.op = o]]
       \/ /\ o.kind # "create"
          /\ \E x \in tournaments :
                /\ Admits(o, x)
                /\ req' = [req EXCEPT ![r] = [New EXCEPT !.pc = "gated", !.op = o, !.row = x]]
       \/ /\ IF o.kind = "create" THEN o.by \notin Creators
                                  ELSE \A x \in tournaments : ~Admits(o, x)
          /\ End(r, "refused")
    /\ UNCHANGED tables

(* Slip: one row more than the ceiling. *)
RoomUpTo(t) == Cardinality(Roster(t)) <= MaxRoster

Room(t) == Cardinality(Roster(t)) < MaxRoster

Patched(x, o) == IF o.bound = "start" THEN [x EXCEPT !.start = o.date] ELSE [x EXCEPT !.end = o.date]

(* The new bound against the other one, on the row the gate loaded. *)
PatchesInOrder(r) == ~Inverted(Patched(req[r].row, Op(r)))

(* Slip: the link of the row that was read is not looked at. *)
LinkableAny(r) == {p \in Roster(Tour(r)) : p.id = Op(r).player}

(* The roster row a link reads, if it has no link yet. *)
Linkable(r) == {p \in Roster(Tour(r)) : p.id = Op(r).player /\ p.profile = None}

(* The checks of each handler, on what is committed when it reads. *)
Passes(r) ==
    LET o == Op(r)
        t == Tour(r)
    IN
    CASE o.kind = "create" -> /\ Cardinality(Owned(o.by)) < MaxOwned
                              /\ \A x \in tournaments : x.slug # o.slug
      [] o.kind = "patch"  -> PatchesInOrder(r)
      [] o.kind = "grant"  -> <<t, o.user>> \notin owners
      [] o.kind = "revoke" -> <<t, o.user>> \in owners
      [] o.kind = "add"    -> Room(t) /\ ~OnRoster(t, o.profile)
      [] o.kind = "remove" -> Entered(t, o.player)
      [] o.kind = "link"   -> Linkable(r) # {} /\ ~OnRoster(t, o.profile)
      [] o.kind = "add_member" -> Entered(t, o.player) /\ <<o.team, o.player>> \notin members
      [] o.kind \in {"remove_member", "set_captain"} -> <<o.team, o.player>> \in members
      [] OTHER -> TRUE

(* Answered without a write: the captain is the one wanted already. *)
NothingToDo(r) ==
    \/ Op(r).kind = "set_captain" /\ <<Op(r).team, Op(r).player>> \in captains
    \/ Op(r).kind = "clear_captain" /\ CaptainsOf(Op(r).team) = {}

(* The rows that the count of a create has found. *)
Counted(r) == IF Op(r).kind = "create" THEN Owned(Op(r).by) ELSE {}

Check(r) ==
    /\ req[r].pc = "gated"
    /\ \/ ~Passes(r) /\ End(r, "refused")
       \/ Passes(r) /\ NothingToDo(r) /\ End(r, "ok")
       \/ /\ Passes(r) /\ ~NothingToDo(r)
          /\ \E e \in IF Op(r).kind = "link" THEN Linkable(r) ELSE {NoRow} :
                req' = [req EXCEPT ![r].pc = "checked", ![r].entry = e, ![r].snap = Counted(r)]
    /\ UNCHANGED tables

-----------------------------------------------------------------------------
(* Tournaments.                                                            *)
CreateTournament(r) ==
    /\ At(r, "checked", {"create"})
    /\ IF \E x \in tournaments : x.slug = Op(r).slug
         THEN End(r, "error") /\ UNCHANGED <<tournaments, owners>>
         ELSE /\ tournaments' = tournaments \union
                    {[id |-> r, slug |-> Op(r).slug, start |-> NoDate, end |-> NoDate]}
              /\ owners' = owners \union {<<r, Op(r).by>>}
              /\ End(r, "ok")
    /\ UNCHANGED <<players, teams, members, captains>>

(* Only a column that differs from what was loaded is written. *)
PatchTournament(r) ==
    /\ At(r, "checked", {"patch"})
    /\ \/ /\ Patched(req[r].row, Op(r)) = req[r].row
          /\ End(r, "ok")
          /\ UNCHANGED tournaments
       \/ /\ Patched(req[r].row, Op(r)) # req[r].row
          /\ tournaments' = {IF x.id = Tour(r) THEN Patched(x, Op(r)) ELSE x : x \in tournaments}
          /\ End(r, IF Exists(Tour(r)) THEN "ok" ELSE "error")
    /\ UNCHANGED <<owners, players, teams, members, captains>>

(* Everything that refers to the tournament goes with it. *)
DeleteTournament(r) ==
    /\ At(r, "checked", {"delete"})
    /\ tournaments' = {x \in tournaments : x.id # Tour(r)}
    /\ owners' = owners \ OwnersOf(Tour(r))
    /\ players' = players \ Roster(Tour(r))
    /\ teams' = {x \in teams : x.tour # Tour(r)}
    /\ members' = {m \in members : (\E x \in teams' : x.id = m[1]) /\ (\E p \in players' : p.id = m[2])}
    /\ captains' = captains \cap members'
    /\ Free(r, (owners \ owners') \union (members \ members'))
    /\ End(r, "ok")

-----------------------------------------------------------------------------
(* Owners.                                                                 *)
Grant(r) ==
    /\ At(r, "checked", {"grant"})
    /\ IF Exists(Tour(r)) /\ <<Tour(r), Op(r).user>> \notin owners
         THEN owners' = owners \union {<<Tour(r), Op(r).user>>} /\ End(r, "ok")
         ELSE UNCHANGED owners /\ End(r, "error")
    /\ UNCHANGED <<tournaments, players, teams, members, captains>>

(* Slip: the last owner may go. *)
TargetAlways(r) == IF Op(r).kind # "revoke" THEN req[r].snap ELSE {<<Tour(r), Op(r).user>>}

(* The rows a statement works on: of a revoke, none if its snapshot has    *)
(* one owner only.                                                         *)
Target(r) ==
    IF Op(r).kind # "revoke" THEN req[r].snap
    ELSE IF Cardinality(req[r].snap) > 1 THEN {<<Tour(r), Op(r).user>>} ELSE {}

(* The DELETE of a revoke and the UPDATE that clears a captain: they take  *)
(* a snapshot, wait for rows others have locked, and work on those that    *)
(* still qualify.                                                          *)
Start(r) ==
    /\ At(r, "checked", {"revoke", "set_captain", "clear_captain"})
    /\ req' = [req EXCEPT ![r].pc = "waiting",
                          ![r].snap = IF Op(r).kind = "revoke" THEN OwnersOf(Tour(r))
                                                               ELSE CaptainsOf(Op(r).team)]
    /\ UNCHANGED tables

Lock(r) ==
    /\ req[r].pc = "waiting"
    /\ Free(r, Target(r))
    /\ req' = [req EXCEPT ![r].pc = "locked", ![r].held = Target(r) \cap (owners \union captains)]
    /\ UNCHANGED tables

RevokeCommit(r) ==
    /\ At(r, "locked", {"revoke"})
    /\ owners' = owners \ req[r].held
    /\ End(r, IF req[r].held = {} THEN "refused" ELSE "ok")
    /\ UNCHANGED <<tournaments, players, teams, members, captains>>

-----------------------------------------------------------------------------
(* The roster.                                                             *)
AddPlayer(r) ==
    /\ At(r, "checked", {"add"})
    /\ IF Exists(Tour(r)) /\ ~OnRoster(Tour(r), Op(r).profile)
         THEN /\ players' = players \union {[id |-> r, tour |-> Tour(r), profile |-> Op(r).profile]}
              /\ End(r, "ok")
         ELSE UNCHANGED players /\ End(r, "error")
    /\ UNCHANGED <<tournaments, owners, teams, members, captains>>

RemovePlayer(r) ==
    /\ At(r, "checked", {"remove"})
    /\ players' = {p \in players : p.id # Op(r).player}
    /\ members' = {m \in members : m[2] # Op(r).player}
    /\ captains' = captains \cap members'
    /\ Free(r, members \ members')
    /\ End(r, "ok")
    /\ UNCHANGED <<tournaments, owners, teams>>

Linked(r) == {IF p.id = Op(r).player THEN [p EXCEPT !.profile = Op(r).profile] ELSE p : p \in players}

(* Slip: without the unique constraint. *)
LinkPlayerUnchecked(r) ==
    /\ At(r, "checked", {"link"})
    /\ players' = Linked(r)
    /\ End(r, IF Entered(Tour(r), Op(r).player) THEN "ok" ELSE "error")
    /\ UNCHANGED <<tournaments, owners, teams, members, captains>>

(* That the entry had no link is not checked again. *)
LinkPlayer(r) ==
    /\ At(r, "checked", {"link"})
    /\ IF /\ Entered(Tour(r), Op(r).player)
          /\ \A p \in Roster(Tour(r)) : p.profile = Op(r).profile => p.id = Op(r).player
         THEN players' = Linked(r) /\ End(r, "ok")
         ELSE UNCHANGED players /\ End(r, "error")
    /\ UNCHANGED <<tournaments, owners, teams, members, captains>>

-----------------------------------------------------------------------------
(* Teams.                                                                  *)
CreateTeam(r) ==
    /\ At(r, "checked", {"create_team"})
    /\ IF Exists(Tour(r))
         THEN teams' = teams \union {[id |-> r, tour |-> Tour(r)]} /\ End(r, "ok")
         ELSE UNCHANGED teams /\ End(r, "error")
    /\ UNCHANGED <<tournaments, owners, players, members, captains>>

DeleteTeam(r) ==
    /\ At(r, "checked", {"delete_team"})
    /\ teams' = {x \in teams : x.id # Op(r).team}
    /\ members' = {m \in members : m[1] # Op(r).team}
    /\ captains' = captains \cap members'
    /\ Free(r, members \ members')
    /\ End(r, "ok")
    /\ UNCHANGED <<tournaments, owners, players>>

(* Slip: without the foreign key to the roster row. *)
AddMemberUnchecked(r) ==
    /\ At(r, "checked", {"add_member"})
    /\ IF HasTeam(Tour(r), Op(r).team)
         THEN members' = members \union {<<Op(r).team, Op(r).player>>} /\ End(r, "ok")
         ELSE UNCHANGED members /\ End(r, "error")
    /\ UNCHANGED <<tournaments, owners, players, teams, captains>>

AddMember(r) ==
    /\ At(r, "checked", {"add_member"})
    /\ IF /\ HasTeam(Tour(r), Op(r).team)
          /\ Entered(Tour(r), Op(r).player)
          /\ <<Op(r).team, Op(r).player>> \notin members
         THEN members' = members \union {<<Op(r).team, Op(r).player>>} /\ End(r, "ok")
         ELSE UNCHANGED members /\ End(r, "error")
    /\ UNCHANGED <<tournaments, owners, players, teams, captains>>

RemoveMember(r) ==
    /\ At(r, "checked", {"remove_member"})
    /\ members' = members \ {<<Op(r).team, Op(r).player>>}
    /\ captains' = captains \cap members'
    /\ Free(r, members \ members')
    /\ End(r, "ok")
    /\ UNCHANGED <<tournaments, owners, players, teams>>

(* Slips: the clear makes the index superfluous; the row is there as read. *)
SetCaptainNoIndex(r) ==
    LET m == <<Op(r).team, Op(r).player>>  IN
    /\ At(r, "locked", {"set_captain"})
    /\ Free(r, {m})
    /\ IF m \in members THEN captains' = (captains \ req[r].held) \union {m} /\ End(r, "ok")
                        ELSE UNCHANGED captains /\ End(r, "error")
    /\ UNCHANGED <<tournaments, owners, players, teams, members>>

SetCaptainAsRead(r) ==
    LET m == <<Op(r).team, Op(r).player>>  IN
    /\ At(r, "locked", {"set_captain"})
    /\ captains' = (captains \ req[r].held) \union {m}
    /\ End(r, "ok")
    /\ UNCHANGED <<tournaments, owners, players, teams, members>>

(* The new captain, after the clear: the member's row may be gone, and the *)
(* index refuses a second captain of the team.                             *)
SetCaptain(r) ==
    LET m == <<Op(r).team, Op(r).player>>  IN
    /\ At(r, "locked", {"set_captain"})
    /\ Free(r, {m})
    /\ IF m \in members /\ CaptainsOf(Op(r).team) \subseteq req[r].held \union {m}
         THEN captains' = (captains \ req[r].held) \union {m} /\ End(r, "ok")
         ELSE UNCHANGED captains /\ End(r, "error")
    /\ UNCHANGED <<tournaments, owners, players, teams, members>>

ClearCaptain(r) ==
    /\ At(r, "locked", {"clear_captain"})
    /\ captains' = captains \ req[r].held
    /\ End(r, "ok")
    /\ UNCHANGED <<tournaments, owners, players, teams, members>>

-----------------------------------------------------------------------------
(* A request fails at any time; its transaction is rolled back. *)
Fail(r) ==
    /\ req[r].pc \in {"gated", "checked", "waiting", "locked"}
    /\ End(r, "error")
    /\ UNCHANGED tables

Next == \E r \in Requests :
    \/ \E o \in Ops : Gate(r, o)
    \/ Check(r) \/ Start(r) \/ Lock(r) \/ Fail(r)
    \/ CreateTournament(r) \/ PatchTournament(r) \/ DeleteTournament(r)
    \/ Grant(r) \/ RevokeCommit(r)
    \/ AddPlayer(r) \/ RemovePlayer(r) \/ LinkPlayer(r)
    \/ CreateTeam(r) \/ DeleteTeam(r) \/ AddMember(r) \/ RemoveMember(r)
    \/ SetCaptain(r) \/ ClearCaptain(r)

Spec == Init /\ [][Next]_vars

-----------------------------------------------------------------------------
Pairs == (Ids \X Users) \union (Ids \X Ids)

TypeOK ==
    /\ tournaments \subseteq Tournament
    /\ owners \subseteq Ids \X Users
    /\ players \subseteq Player
    /\ teams \subseteq Team
    /\ members \subseteq Ids \X Ids
    /\ captains \subseteq members
    /\ req \in [Requests -> [pc   : {"new", "gated", "checked", "waiting", "locked", "ok", "refused", "error"},
                             op   : Ops \union {New.op},
                             row  : Tournament \union {NoRow},
                             entry : Player \union {NoRow},
                             snap : SUBSET Pairs,
                             held : SUBSET Pairs]]
    /\ \A r \in Requests : req[r].held \subseteq owners \union captains

(* Nothing outlives what it belongs to, whatever is added, and whoever is  *)
(* made captain, while a tournament, a team, a player or a member is being *)
(* deleted.                                                                *)
NoOrphans ==
    /\ \A o \in owners : Exists(o[1])
    /\ \A p \in players : Exists(p.tour)
    /\ \A x \in teams : Exists(x.tour)
    /\ \A m \in members : \E x \in teams, p \in players :
          x.id = m[1] /\ p.id = m[2] /\ x.tour = p.tour
    /\ captains \subseteq members

(* A team has one captain at most, however set and clear overlap. *)
OneCaptain == \A m, n \in captains : m[1] = n[1] => m = n

(* The inductive invariant behind the two: no row is locked twice, ids are *)
(* unique, and none is taken that a request may still insert.              *)
LocksApart == \A r, s \in Requests : r # s => req[r].held \cap req[s].held = {}

IdsUnique ==
    /\ \A x, y \in tournaments : x.id = y.id => x = y
    /\ \A p, q \in players : p.id = q.id => p = q
    /\ \A x, y \in teams : x.id = y.id => x = y

IdsFresh ==
    \A r \in Requests : req[r].pc # "ok" =>
        /\ \A x \in tournaments : x.id # r
        /\ \A p \in players : p.id # r
        /\ \A x \in teams : x.id # r

IInv == TypeOK /\ LocksApart /\ IdsUnique /\ IdsFresh /\ NoOrphans /\ OneCaptain

(* A profile is on a roster once, however adds and links overlap. *)
ProfileOnce ==
    \A p, q \in players : (p.tour = q.tour /\ p.profile = q.profile /\ p.profile # None) => p = q

(* A roster exceeds its ceiling by adds that were checked together, and by *)
(* no more.                                                                *)
RosterBounded ==
    \A x \in tournaments :
        Cardinality(Roster(x.id)) + Cardinality({r \in Requests : At(r, "checked", {"add"}) /\ Tour(r) = x.id})
            <= MaxRoster + Cardinality(Requests) - 1

(* A revoke leaves a tournament without owners only if its statement still *)
(* saw another owner: never one request after another.                     *)
LastOwnerGuard ==
    [][\A x \in tournaments :
          (OwnersOf(x.id) # {} /\ Exists(x.id)' /\ OwnersOf(x.id)' = {})
              => \E r \in Requests : /\ At(r, "locked", {"revoke"}) /\ Tour(r) = x.id
                                     /\ \E o \in req[r].snap : o[2] # Op(r).user]_vars

(* A window becomes inverted, a link is replaced, and a creation takes an  *)
(* account past its ceiling, only by a request that had read what it       *)
(* checked before others changed it: never by one request after another,   *)
(* whatever they were told.  Past the ceiling a grant may go as well.      *)
OnlyStaleReads ==
    [][/\ \A x \in tournaments, y \in tournaments' :
             (x.id = y.id /\ ~Inverted(x) /\ Inverted(y))
                 => \E r \in Requests : At(r, "checked", {"patch"}) /\ Tour(r) = x.id /\ req[r].row # x
       /\ \A p \in players, q \in players' :
             (p.id = q.id /\ p.profile # None /\ q.profile # p.profile)
                 => \E r \in Requests : /\ At(r, "checked", {"link"})
                                        /\ req[r].entry.id = p.id /\ req[r].entry # p
       /\ \A u \in Users :
             (Cardinality(Owned(u)') > MaxOwned /\ ~(Owned(u)' \subseteq Owned(u)))
                 => \E r \in Requests :
                       \/ At(r, "checked", {"grant"}) /\ Op(r).user = u
                       \/ At(r, "checked", {"create"}) /\ Op(r).by = u /\ ~(Owned(u) \subseteq req[r].snap)]_vars
=============================================================================
