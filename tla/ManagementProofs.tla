-------------------------- MODULE ManagementProofs --------------------------
(***************************************************************************)
(* Proofs about Management, for any tables that satisfy their constraints  *)
(* at the start, any operations and any number of requests.                *)
(***************************************************************************)
EXTENDS Management, FiniteSetTheorems, TLAPS

(* A step of one request: which one. *)
Step(r) ==
    \/ \E o \in Ops : Gate(r, o)
    \/ Check(r) \/ Start(r) \/ Lock(r) \/ Fail(r)
    \/ CreateTournament(r) \/ PatchTournament(r) \/ DeleteTournament(r)
    \/ Grant(r) \/ RevokeCommit(r)
    \/ AddPlayer(r) \/ RemovePlayer(r) \/ LinkPlayer(r)
    \/ CreateTeam(r) \/ DeleteTeam(r) \/ AddMember(r) \/ RemoveMember(r)
    \/ SetCaptain(r) \/ ClearCaptain(r)

State == [pc   : {"new", "gated", "checked", "waiting", "locked", "ok", "refused", "error"},
          op   : Ops \union {New.op},
          row  : Tournament \union {NoRow},
          entry : Player \union {NoRow},
          snap : SUBSET Pairs,
          held : SUBSET Pairs]

ReqTyped == req \in [Requests -> State]

TablesTyped ==
    /\ tournaments \subseteq Tournament
    /\ owners \subseteq Ids \X Users
    /\ players \subseteq Player
    /\ teams \subseteq Team
    /\ members \subseteq Ids \X Ids
    /\ captains \subseteq members

HeldIsThere == \A r \in Requests : req[r].held \subseteq owners \union captains

(* A request that is past its gate has an operation, and past the gate of  *)
(* a tournament, a tournament.                                             *)
Loaded == \A r \in Requests :
    req[r].pc \in {"gated", "checked", "waiting", "locked"} =>
        /\ Op(r) \in Ops
        /\ IF Op(r).kind = "create" THEN Op(r).by \in Creators ELSE req[r].row \in Tournament

LEMMA Inits == Init => IInv /\ Loaded
<1> SUFFICES ASSUME Init PROVE IInv /\ Loaded
  OBVIOUS
<1> USE ConstantsAssumption, StartAssumption
<1>1. ReqTyped /\ HeldIsThere /\ Loaded /\ LocksApart
  BY DEF Init, ReqTyped, State, HeldIsThere, Loaded, LocksApart, New
<1>2. TablesTyped
  BY DEF Init, TablesTyped, Tournament, Ids
<1>3. IdsUnique /\ OneCaptain
  BY DEF Init, IdsUnique, OneCaptain
<1>4. IdsFresh
  BY DEF Init, IdsFresh
<1>5. NoOrphans
  BY DEF Init, NoOrphans, Exists
<1> QED
  BY <1>1, <1>2, <1>3, <1>4, <1>5 DEF IInv, TypeOK, ReqTyped, State, TablesTyped, HeldIsThere
-----------------------------------------------------------------------------
(* Types.                                                                  *)
LEMMA StepTables ==
    ASSUME TablesTyped, ReqTyped, Loaded, NEW r \in Requests, Step(r)
    PROVE  TablesTyped'
<1> USE ConstantsAssumption
<1>1. CASE UNCHANGED tables
  BY <1>1 DEF TablesTyped, tables
<1>2. CASE CreateTournament(r)
  BY <1>2 DEF CreateTournament, At, TablesTyped, Tournament, Ids, Loaded, Op
<1>3. CASE PatchTournament(r)
  BY <1>3 DEF PatchTournament, Patched, At, TablesTyped, Tournament, Loaded, Op
<1>4. CASE DeleteTournament(r)
  BY <1>4 DEF DeleteTournament, TablesTyped
<1>5. CASE Grant(r) \/ RevokeCommit(r)
  BY <1>5 DEF Grant, RevokeCommit, At, Tour, Exists, TablesTyped, Tournament, Loaded, Op
<1>6. CASE AddPlayer(r)
  BY <1>6 DEF AddPlayer, At, Tour, Exists, TablesTyped, Tournament, Player, Ids, Loaded, Op
<1>7. CASE RemovePlayer(r) \/ DeleteTeam(r) \/ RemoveMember(r)
  BY <1>7 DEF RemovePlayer, DeleteTeam, RemoveMember, TablesTyped
<1>8. CASE LinkPlayer(r)
  BY <1>8 DEF LinkPlayer, Linked, At, TablesTyped, Player, Loaded, Op
<1>9. CASE CreateTeam(r)
  BY <1>9 DEF CreateTeam, At, Tour, Exists, TablesTyped, Tournament, Team, Ids, Loaded, Op
<1>10. CASE AddMember(r)
  BY <1>10 DEF AddMember, HasTeam, Entered, Roster, TablesTyped, Team, Player
<1>11. CASE SetCaptain(r) \/ ClearCaptain(r)
  BY <1>11 DEF SetCaptain, ClearCaptain, TablesTyped
<1> QED
  BY <1>1, <1>2, <1>3, <1>4, <1>5, <1>6, <1>7, <1>8, <1>9, <1>10, <1>11
     DEF Step, Gate, Check, Start, Lock, Fail

LEMMA Becomes ==
    ASSUME ReqTyped, NEW r \in Requests, NEW x \in State, req' = [req EXCEPT ![r] = x]
    PROVE  /\ ReqTyped'
           /\ req'[r] = x
           /\ \A s \in Requests \ {r} : req'[s] = req[s]
BY DEF ReqTyped

LEMMA EndTyped ==
    ASSUME ReqTyped, NEW r \in Requests, NEW a \in {"ok", "refused", "error"}, End(r, a)
    PROVE  /\ ReqTyped'
           /\ req'[r].pc = a /\ req'[r].held = {}
           /\ \A s \in Requests \ {r} : req'[s] = req[s]
<1>1. Ended(a) \in State /\ Ended(a).pc = a /\ Ended(a).held = {}
  BY DEF Ended, New, State
<1> QED
  BY <1>1, Becomes DEF End

(* A check that does not end the request: what it has read, and that the   *)
(* request is otherwise as before.                                         *)
Checks(r, e) ==
    /\ Passes(r) /\ UNCHANGED tables
    /\ Op(r).kind = "link" => e \in Linkable(r)
    /\ req[r].pc = "gated" /\ req'[r].pc = "checked" /\ req'[r].entry = e /\ req'[r].snap = Counted(r)
    /\ req'[r].op = req[r].op /\ req'[r].row = req[r].row /\ req'[r].held = req[r].held

LEMMA CheckEnds ==
    ASSUME TablesTyped, ReqTyped, NEW r \in Requests, Check(r)
    PROVE  \/ End(r, "refused") \/ End(r, "ok")
           \/ /\ ReqTyped' /\ \A s \in Requests \ {r} : req'[s] = req[s]
              /\ \E e : Checks(r, e)
<1> DEFINE Goes(e) == [req[r] EXCEPT !.pc = "checked", !.entry = e, !.snap = Counted(r)]
<1>1. SUFFICES ASSUME Passes(r), NEW e \in IF Op(r).kind = "link" THEN Linkable(r) ELSE {NoRow},
                      req' = [req EXCEPT ![r].pc = "checked", ![r].entry = e, ![r].snap = Counted(r)]
               PROVE  ReqTyped' /\ Checks(r, e) /\ \A s \in Requests \ {r} : req'[s] = req[s]
  BY DEF Check
<1>2. e \in Player \union {NoRow} /\ (Op(r).kind = "link" => e \in Linkable(r))
  BY <1>1 DEF Linkable, Roster, TablesTyped
<1> Counted(r) \in SUBSET Pairs
  BY DEF Counted, Owned, TablesTyped, Pairs
<1>3. /\ Goes(e) \in State /\ Goes(e).pc = "checked" /\ Goes(e).entry = e /\ Goes(e).snap = Counted(r)
      /\ Goes(e).op = req[r].op /\ Goes(e).row = req[r].row /\ Goes(e).held = req[r].held
  BY <1>2 DEF ReqTyped, State
<1>4. req' = [req EXCEPT ![r] = Goes(e)]
  BY <1>1 DEF ReqTyped, State
<1> HIDE DEF Goes
<1>5. ReqTyped' /\ req'[r] = Goes(e) /\ \A s \in Requests \ {r} : req'[s] = req[s]
  BY <1>3, <1>4, Becomes
<1> QED
  BY <1>1, <1>2, <1>3, <1>5 DEF Check, Checks

(* What a step does to the requests: to nobody but the one whose step it   *)
(* is, which ends or goes on.                                              *)
LEMMA StepRequests ==
    ASSUME TablesTyped, ReqTyped, Loaded, NEW r \in Requests, Step(r)
    PROVE  /\ ReqTyped'
           /\ \A s \in Requests \ {r} : req'[s] = req[s]
           /\ \/ Lock(r)
              \/ req'[r].held = {}
              \/ req'[r].held = req[r].held /\ UNCHANGED tables
<1> DEFINE Admitted(o, x) == [New EXCEPT !.pc = "gated", !.op = o, !.row = x]
           Waits(snap) == [req[r] EXCEPT !.pc = "waiting", !.snap = snap]
           Locked == [req[r] EXCEPT !.pc = "locked", !.held = Target(r) \cap (owners \union captains)]
<1>1. CASE \E o \in Ops : Gate(r, o)
  <2>1. PICK o \in Ops : Gate(r, o)
    BY <1>1
  <2>2. CASE End(r, "refused")
    BY <2>2, EndTyped
  <2>3. CASE req' = [req EXCEPT ![r] = [New EXCEPT !.pc = "gated", !.op = o]]
    <3>1. [New EXCEPT !.pc = "gated", !.op = o] \in State /\ [New EXCEPT !.pc = "gated", !.op = o].held = {}
      BY DEF New, State
    <3> QED
      BY <2>3, <3>1, Becomes
  <2>4. ASSUME NEW x \in tournaments, req' = [req EXCEPT ![r] = Admitted(o, x)]
        PROVE  ReqTyped' /\ req'[r].held = {} /\ \A s \in Requests \ {r} : req'[s] = req[s]
    <3>1. Admitted(o, x) \in State /\ Admitted(o, x).held = {}
      BY DEF New, State, TablesTyped
    <3> QED
      BY <2>4, <3>1, Becomes
  <2> QED
    BY <2>1, <2>2, <2>3, <2>4 DEF Gate
<1>2. CASE Check(r)
  <2>1. CASE End(r, "refused") \/ End(r, "ok")
    BY <2>1, EndTyped
  <2>2. CASE /\ ReqTyped' /\ \A s \in Requests \ {r} : req'[s] = req[s]
             /\ \E e : Checks(r, e)
    BY <2>2 DEF Checks
  <2> QED
    BY <1>2, <2>1, <2>2, CheckEnds
<1>3. CASE Start(r)
  <2>1. PICK snap \in SUBSET Pairs : req' = [req EXCEPT ![r] = Waits(snap)]
    BY <1>3 DEF Start, OwnersOf, CaptainsOf, TablesTyped, Pairs, ReqTyped, State
  <2>2. Waits(snap) \in State /\ Waits(snap).held = req[r].held
    BY DEF ReqTyped, State
  <2> HIDE DEF Waits
  <2>3. ReqTyped' /\ req'[r] = Waits(snap) /\ \A s \in Requests \ {r} : req'[s] = req[s]
    BY <2>1, <2>2, Becomes
  <2> QED
    BY <1>3, <2>2, <2>3 DEF Start
<1>4. CASE Lock(r)
  <2>1. Target(r) \cap (owners \union captains) \in SUBSET Pairs
    BY DEF TablesTyped, Pairs
  <2>2. Locked \in State
    BY <2>1 DEF ReqTyped, State
  <2>3. req' = [req EXCEPT ![r] = Locked]
    BY <1>4 DEF Lock, ReqTyped, State
  <2> HIDE DEF Locked
  <2> QED
    BY <1>4, <2>2, <2>3, Becomes
<1>5. CASE \E a \in {"ok", "refused", "error"} : End(r, a)
  BY <1>5, EndTyped
<1> QED
  BY <1>1, <1>2, <1>3, <1>4, <1>5 DEF Step, Fail, CreateTournament, PatchTournament, DeleteTournament,
     Grant, RevokeCommit, AddPlayer, RemovePlayer, LinkPlayer, CreateTeam, DeleteTeam, AddMember,
     RemoveMember, SetCaptain, ClearCaptain

LEMMA StepLoaded ==
    ASSUME TablesTyped, ReqTyped, Loaded, NEW r \in Requests, Step(r)
    PROVE  Loaded'
<1>1. \A s \in Requests \ {r} : req'[s] = req[s]
  BY StepRequests
<1>2. SUFFICES req'[r].pc \in {"gated", "checked", "waiting", "locked"} =>
                  /\ Op(r)' \in Ops
                  /\ IF Op(r)'.kind = "create" THEN Op(r)'.by \in Creators ELSE req'[r].row \in Tournament
  BY <1>1 DEF Loaded, Op
<1>3. CASE \E o \in Ops : Gate(r, o)
  <2>1. PICK o \in Ops : Gate(r, o)
    BY <1>3
  <2>2. CASE End(r, "refused")
    BY <2>2, EndTyped
  <2>3. CASE /\ o.kind = "create" /\ o.by \in Creators
             /\ req' = [req EXCEPT ![r] = [New EXCEPT !.pc = "gated", !.op = o]]
    BY <2>3 DEF ReqTyped, New, Op
  <2>4. CASE /\ o.kind # "create"
             /\ \E x \in tournaments :
                   req' = [req EXCEPT ![r] = [New EXCEPT !.pc = "gated", !.op = o, !.row = x]]
    BY <2>4 DEF ReqTyped, New, Op, TablesTyped
  <2> QED
    BY <2>1, <2>2, <2>3, <2>4 DEF Gate
<1>4. CASE Start(r) \/ Lock(r) \/ \E e : Checks(r, e)
  <2>1. req'[r].op = req[r].op /\ req'[r].row = req[r].row
    BY <1>4 DEF Start, Lock, Checks, ReqTyped, State
  <2>2. req[r].pc \in {"gated", "checked", "waiting", "locked"}
    BY <1>4 DEF Start, Lock, Checks, At
  <2> QED
    BY <2>1, <2>2 DEF Loaded, Op
<1>5. CASE \E a \in {"ok", "refused", "error"} : End(r, a)
  BY <1>5, EndTyped
<1> QED
  BY <1>3, <1>4, <1>5, CheckEnds DEF Step, Fail, CreateTournament, PatchTournament, DeleteTournament,
     Grant, RevokeCommit, AddPlayer, RemovePlayer, LinkPlayer, CreateTeam, DeleteTeam, AddMember,
     RemoveMember, SetCaptain, ClearCaptain
-----------------------------------------------------------------------------
(* Locks.                                                                  *)
(* Nobody deletes or updates a row that another request has locked.        *)
LEMMA LockedStay ==
    ASSUME IInv, NEW r \in Requests, Step(r), NEW s \in Requests \ {r}
    PROVE  req[s].held \subseteq owners' \union captains'
<1>1. req[s].held \subseteq owners \union captains /\ req[s].held \cap req[r].held = {}
  BY DEF IInv, TypeOK, LocksApart
<1>2. captains \subseteq members
  BY DEF IInv, TypeOK
<1>3. CASE UNCHANGED tables
  BY <1>1, <1>3 DEF tables
<1>4. CASE CreateTournament(r) \/ Grant(r) \/ PatchTournament(r) \/ AddPlayer(r) \/ LinkPlayer(r)
           \/ CreateTeam(r) \/ AddMember(r)
  BY <1>1, <1>4 DEF CreateTournament, Grant, PatchTournament, AddPlayer, LinkPlayer, CreateTeam, AddMember
<1>5. CASE DeleteTournament(r)
  <2>1. req[s].held \cap ((owners \ owners') \union (members \ members')) = {} /\ captains' = captains \cap members'
    BY <1>5 DEF DeleteTournament, Free
  <2> QED
    BY <1>1, <1>2, <2>1
<1>6. CASE RemovePlayer(r) \/ DeleteTeam(r) \/ RemoveMember(r)
  <2>1. req[s].held \cap (members \ members') = {} /\ captains' = captains \cap members' /\ owners' = owners
    BY <1>6 DEF RemovePlayer, DeleteTeam, RemoveMember, Free
  <2> QED
    BY <1>1, <1>2, <2>1
<1>7. CASE RevokeCommit(r) \/ SetCaptain(r) \/ ClearCaptain(r)
  BY <1>1, <1>7 DEF RevokeCommit, SetCaptain, ClearCaptain
<1> QED
  BY <1>3, <1>4, <1>5, <1>6, <1>7 DEF Step, Gate, Check, Start, Lock, Fail

LEMMA StepLocks ==
    ASSUME IInv, Loaded, NEW r \in Requests, Step(r)
    PROVE  HeldIsThere' /\ LocksApart'
<1>1. TablesTyped /\ ReqTyped /\ HeldIsThere
  BY DEF IInv, TypeOK, TablesTyped, ReqTyped, State, HeldIsThere
<1>2. /\ ReqTyped'
      /\ \A s \in Requests \ {r} : req'[s] = req[s]
      /\ \/ Lock(r)
         \/ req'[r].held = {}
         \/ req'[r].held = req[r].held /\ UNCHANGED tables
  BY <1>1, StepRequests
<1>3. \A s \in Requests \ {r} : req[s].held \subseteq owners' \union captains'
  BY LockedStay
<1>4. CASE Lock(r)
  <2>1. req'[r].held = Target(r) \cap (owners \union captains) /\ UNCHANGED tables
    BY <1>1, <1>4 DEF Lock, ReqTyped, State
  <2>2. \A s \in Requests \ {r} : req[s].held \cap Target(r) = {}
    BY <1>4 DEF Lock, Free
  <2>3. HeldIsThere'
    BY <1>2, <1>3, <2>1 DEF HeldIsThere, tables
  <2>4. LocksApart'
    BY <1>2, <2>1, <2>2 DEF IInv, LocksApart
  <2> QED
    BY <2>3, <2>4
<1>5. CASE req'[r].held = {}
  BY <1>2, <1>3, <1>5 DEF HeldIsThere, LocksApart, IInv
<1>6. CASE req'[r].held = req[r].held /\ UNCHANGED tables
  BY <1>1, <1>2, <1>3, <1>6 DEF HeldIsThere, LocksApart, IInv, tables
<1> QED
  BY <1>2, <1>4, <1>5, <1>6
-----------------------------------------------------------------------------
(* Ids.                                                                    *)
LEMMA StepIds ==
    ASSUME IInv, Loaded, NEW r \in Requests, Step(r)
    PROVE  IdsUnique' /\ IdsFresh'
<1>1. TablesTyped /\ ReqTyped
  BY DEF IInv, TypeOK, TablesTyped, ReqTyped, State
<1>2. ReqTyped' /\ \A s \in Requests \ {r} : req'[s] = req[s]
  BY <1>1, StepRequests
<1>3. req[r].pc # "ok"
  BY DEF Step, Gate, Check, Start, Lock, Fail, At, CreateTournament, PatchTournament, DeleteTournament,
     Grant, RevokeCommit, AddPlayer, RemovePlayer, LinkPlayer, CreateTeam, DeleteTeam, AddMember,
     RemoveMember, SetCaptain, ClearCaptain
<1>4. /\ \A x \in tournaments : x.id # r
      /\ \A p \in players : p.id # r
      /\ \A x \in teams : x.id # r
  BY <1>3 DEF IInv, IdsFresh
<1>5. IdsUnique /\ IdsFresh
  BY DEF IInv
<1>6. CASE tournaments' \subseteq tournaments /\ players' \subseteq players /\ teams' \subseteq teams
  BY <1>2, <1>3, <1>5, <1>6 DEF IdsUnique, IdsFresh
<1>7. CASE CreateTournament(r) /\ End(r, "ok")
  <2>1. req'[r].pc = "ok"
    BY <1>1, <1>7, EndTyped
  <2>2. UNCHANGED <<players, teams>>
    BY <1>7 DEF CreateTournament
  <2>3. \A x \in tournaments' : x \in tournaments \/ x = [id |-> r, slug |-> Op(r).slug, start |-> NoDate, end |-> NoDate]
    BY <1>7 DEF CreateTournament
  <2> QED
    BY <1>2, <1>4, <1>5, <2>1, <2>2, <2>3 DEF IdsUnique, IdsFresh
<1>8. CASE AddPlayer(r) /\ End(r, "ok")
  <2>1. req'[r].pc = "ok"
    BY <1>1, <1>8, EndTyped
  <2>2. UNCHANGED <<tournaments, teams>>
    BY <1>8 DEF AddPlayer
  <2>3. \A p \in players' : p \in players \/ p = [id |-> r, tour |-> Tour(r), profile |-> Op(r).profile]
    BY <1>8 DEF AddPlayer
  <2> QED
    BY <1>2, <1>4, <1>5, <2>1, <2>2, <2>3 DEF IdsUnique, IdsFresh
<1>9. CASE CreateTeam(r) /\ End(r, "ok")
  <2>1. req'[r].pc = "ok"
    BY <1>1, <1>9, EndTyped
  <2>2. UNCHANGED <<tournaments, players>>
    BY <1>9 DEF CreateTeam
  <2>3. \A x \in teams' : x \in teams \/ x = [id |-> r, tour |-> Tour(r)]
    BY <1>9 DEF CreateTeam
  <2> QED
    BY <1>2, <1>4, <1>5, <2>1, <2>2, <2>3 DEF IdsUnique, IdsFresh
<1>10. CASE /\ PatchTournament(r)
            /\ tournaments' = {IF x.id = Tour(r) THEN Patched(x, Op(r)) ELSE x : x \in tournaments}
  <2>1. \A x \in tournaments : Patched(x, Op(r)).id = x.id
    BY <1>1 DEF Patched, TablesTyped, Tournament
  <2>2. \A y \in tournaments' : \E x \in tournaments :
           y = IF x.id = Tour(r) THEN Patched(x, Op(r)) ELSE x
    BY <1>10
  <2>3. UNCHANGED <<players, teams>>
    BY <1>10 DEF PatchTournament
  <2>4. IdsUnique'
    BY <1>5, <2>1, <2>2, <2>3 DEF IdsUnique
  <2>5. IdsFresh'
    BY <1>2, <1>4, <1>5, <2>1, <2>2, <2>3 DEF IdsFresh
  <2> QED
    BY <2>4, <2>5
<1>11. CASE LinkPlayer(r) /\ players' = Linked(r)
  <2>1. \A q \in players' : \E p \in players :
           q.id = p.id /\ q = IF p.id = Op(r).player THEN [p EXCEPT !.profile = Op(r).profile] ELSE p
    BY <1>1, <1>11 DEF Linked, TablesTyped, Player
  <2>2. UNCHANGED <<tournaments, teams>>
    BY <1>11 DEF LinkPlayer
  <2>3. IdsUnique'
    BY <1>5, <2>1, <2>2 DEF IdsUnique
  <2>4. IdsFresh'
    BY <1>2, <1>4, <1>5, <2>1, <2>2 DEF IdsFresh
  <2> QED
    BY <2>3, <2>4
<1>12. CASE DeleteTournament(r) \/ RemovePlayer(r) \/ DeleteTeam(r)
  <2>1. tournaments' \subseteq tournaments /\ players' \subseteq players /\ teams' \subseteq teams
    BY <1>12 DEF DeleteTournament, RemovePlayer, DeleteTeam
  <2> QED
    BY <1>6, <2>1
<1> QED
  BY <1>6, <1>7, <1>8, <1>9, <1>10, <1>11, <1>12 DEF Step, tables, Gate, Check, Start, Lock, Fail,
     CreateTournament, PatchTournament, AddPlayer, CreateTeam, LinkPlayer,
     Grant, RevokeCommit, AddMember, RemoveMember, SetCaptain, ClearCaptain
-----------------------------------------------------------------------------
(* Nothing is orphaned.                                                    *)
(* Whoever adds a row finds its parents there, and whoever deletes one     *)
(* takes along the rows below it.  That the rows a member refers to are    *)
(* those of its team's tournament after others were deleted needs that ids *)
(* are unique.                                                             *)
LEMMA StepNoOrphans ==
    ASSUME IInv, Loaded, NEW r \in Requests, Step(r)
    PROVE  NoOrphans'
<1>1. TablesTyped
  BY DEF IInv, TypeOK, TablesTyped
<1>0. captains' \subseteq members'
  BY <1>1, StepTables DEF IInv, TypeOK, TablesTyped, ReqTyped, State
<1>2. NoOrphans /\ IdsUnique
  BY DEF IInv
<1>3. CASE UNCHANGED <<tournaments, players, teams>> /\ owners' \subseteq owners /\ members' \subseteq members
  BY <1>0, <1>2, <1>3 DEF NoOrphans, Exists
<1>4. CASE CreateTournament(r)
  <2>1. /\ UNCHANGED <<players, teams, members>>
        /\ tournaments \subseteq tournaments'
        /\ \A o \in owners' : o \in owners \/ (o[1] = r /\ Exists(r)')
    <3> DEFINE x == [id |-> r, slug |-> Op(r).slug, start |-> NoDate, end |-> NoDate]
               o == <<r, Op(r).by>>
    <3>1. x.id = r /\ o[1] = r
      OBVIOUS
    <3>2. /\ UNCHANGED <<players, teams, members>>
          /\ \/ UNCHANGED <<tournaments, owners>>
             \/ tournaments' = tournaments \union {x} /\ owners' = owners \union {o}
      BY <1>4 DEF CreateTournament
    <3> HIDE DEF x, o
    <3> QED
      BY <3>1, <3>2 DEF Exists
  <2> QED
    BY <1>0, <1>2, <2>1 DEF NoOrphans, Exists
<1>5. CASE PatchTournament(r)
  <2>1. \A x \in tournaments : Patched(x, Op(r)).id = x.id
    BY <1>1 DEF Patched, TablesTyped, Tournament
  <2>2. \A x \in tournaments : \E y \in tournaments' : y.id = x.id
    BY <1>5, <2>1 DEF PatchTournament
  <2>3. UNCHANGED <<owners, players, teams, members>>
    BY <1>5 DEF PatchTournament
  <2> QED
    BY <1>0, <1>2, <2>2, <2>3 DEF NoOrphans, Exists
<1>6. CASE DeleteTournament(r)
  <2>1. /\ \A o \in owners' : Exists(o[1])'
        /\ \A p \in players' : Exists(p.tour)'
        /\ \A x \in teams' : Exists(x.tour)'
    BY <1>0, <1>2, <1>6 DEF DeleteTournament, OwnersOf, Roster, NoOrphans, Exists
  <2>2. ASSUME NEW m \in members'
        PROVE  \E x \in teams', p \in players' : x.id = m[1] /\ p.id = m[2] /\ x.tour = p.tour
    <3>1. m \in members /\ (\E x \in teams' : x.id = m[1]) /\ (\E p \in players' : p.id = m[2])
      BY <1>6, <2>2 DEF DeleteTournament
    <3>2. teams' \subseteq teams /\ players' \subseteq players
      BY <1>6 DEF DeleteTournament
    <3> QED
      BY <1>0, <1>2, <3>1, <3>2 DEF NoOrphans, IdsUnique
  <2> QED
    BY <1>0, <2>1, <2>2 DEF NoOrphans
<1>7. CASE Grant(r)
  BY <1>0, <1>2, <1>7 DEF Grant, NoOrphans, Exists
<1>8. CASE AddPlayer(r)
  <2>1. /\ UNCHANGED <<tournaments, owners, teams, members>>
        /\ players \subseteq players'
        /\ \A p \in players' : p \in players \/ (p.tour = Tour(r) /\ Exists(Tour(r)))
    BY <1>8 DEF AddPlayer
  <2> QED
    BY <1>0, <1>2, <2>1 DEF NoOrphans, Exists
<1>9. CASE LinkPlayer(r)
  <2>1. /\ UNCHANGED <<tournaments, owners, teams, members>>
        /\ players' = players \/ players' = Linked(r)
    BY <1>9 DEF LinkPlayer
  <2>2. \A p \in players : LET q == [p EXCEPT !.profile = Op(r).profile] IN q.id = p.id /\ q.tour = p.tour
    BY <1>1 DEF TablesTyped, Player
  <2>3. /\ \A q \in players' : \E p \in players : p.id = q.id /\ p.tour = q.tour
        /\ \A p \in players : \E q \in players' : p.id = q.id /\ p.tour = q.tour
    BY <2>1, <2>2 DEF Linked
  <2> QED
    BY <1>0, <1>2, <2>1, <2>3 DEF NoOrphans, Exists
<1>10. CASE RemovePlayer(r)
  BY <1>0, <1>2, <1>10 DEF RemovePlayer, NoOrphans, Exists
<1>11. CASE CreateTeam(r)
  <2>1. /\ UNCHANGED <<tournaments, owners, players, members>>
        /\ teams \subseteq teams'
        /\ \A x \in teams' : x \in teams \/ (x.tour = Tour(r) /\ Exists(Tour(r)))
    BY <1>11 DEF CreateTeam
  <2> QED
    BY <1>0, <1>2, <2>1 DEF NoOrphans, Exists
<1>12. CASE DeleteTeam(r)
  BY <1>0, <1>2, <1>12 DEF DeleteTeam, NoOrphans, Exists
<1>13. CASE AddMember(r)
  <2>1. /\ UNCHANGED <<tournaments, owners, players, teams>>
        /\ \A m \in members' : \/ m \in members
                               \/ /\ m = <<Op(r).team, Op(r).player>>
                                  /\ HasTeam(Tour(r), Op(r).team)
                                  /\ Entered(Tour(r), Op(r).player)
    BY <1>13 DEF AddMember
  <2>2. HasTeam(Tour(r), Op(r).team) /\ Entered(Tour(r), Op(r).player)
          => \E x \in teams, p \in players : x.id = Op(r).team /\ p.id = Op(r).player /\ x.tour = p.tour
    BY DEF HasTeam, Entered, Roster
  <2> QED
    BY <1>0, <1>2, <2>1, <2>2 DEF NoOrphans, Exists
<1> QED
  BY <1>3, <1>4, <1>5, <1>6, <1>7, <1>8, <1>9, <1>10, <1>11, <1>12, <1>13 DEF Step, tables, Gate, Check,
     Start, Lock, Fail, RevokeCommit, RemoveMember, SetCaptain, ClearCaptain

(* A captain is set where every other captain of the team is one the       *)
(* request has locked, and clears.                                         *)
LEMMA StepOneCaptain ==
    ASSUME IInv, Loaded, NEW r \in Requests, Step(r)
    PROVE  OneCaptain'
<1>1. OneCaptain
  BY DEF IInv
<1>2. CASE captains' \subseteq captains
  BY <1>1, <1>2 DEF OneCaptain
<1>3. CASE SetCaptain(r) /\ captains' # captains
  <2> DEFINE m == <<Op(r).team, Op(r).player>>
  <2>1. /\ captains' = (captains \ req[r].held) \union {m}
        /\ CaptainsOf(m[1]) \subseteq req[r].held \union {m}
    BY <1>3 DEF SetCaptain
  <2>2. \A n \in captains' : n[1] = m[1] => n = m
    BY <2>1 DEF CaptainsOf
  <2> HIDE DEF m
  <2> QED
    BY <1>1, <2>1, <2>2 DEF OneCaptain
<1> QED
  BY <1>2, <1>3 DEF Step, tables, Gate, Check, Start, Lock, Fail, CreateTournament, PatchTournament,
     DeleteTournament, Grant, RevokeCommit, AddPlayer, RemovePlayer, LinkPlayer, CreateTeam, DeleteTeam,
     AddMember, RemoveMember, SetCaptain, ClearCaptain
-----------------------------------------------------------------------------
(* The inductive invariant.                                                *)
LEMMA StepInvariant == IInv /\ Loaded /\ [Next]_vars => (IInv /\ Loaded)'
<1>1. SUFFICES ASSUME IInv, Loaded, [Next]_vars PROVE (IInv /\ Loaded)'
  OBVIOUS
<1>2. CASE UNCHANGED vars
  BY <1>1, <1>2 DEF vars, tables, IInv, TypeOK, LocksApart, IdsUnique, IdsFresh, NoOrphans, OneCaptain,
     Exists, Loaded, Op
<1>3. CASE Next
  <2>1. PICK r \in Requests : Step(r)
    BY <1>3 DEF Next, Step
  <2>2. TablesTyped /\ ReqTyped
    BY <1>1 DEF IInv, TypeOK, TablesTyped, ReqTyped, State
  <2>3. TablesTyped' /\ ReqTyped' /\ Loaded'
    BY <1>1, <2>1, <2>2, StepTables, StepRequests, StepLoaded
  <2>4. HeldIsThere' /\ LocksApart' /\ IdsUnique' /\ IdsFresh' /\ NoOrphans' /\ OneCaptain'
    BY <1>1, <2>1, StepLocks, StepIds, StepNoOrphans, StepOneCaptain
  <2>5. TypeOK'
    BY <2>3, <2>4 DEF TypeOK, TablesTyped, ReqTyped, State, HeldIsThere
  <2> QED
    BY <2>3, <2>4, <2>5 DEF IInv
<1> QED
  BY <1>1, <1>2, <1>3

LEMMA Invariant == Spec => [](IInv /\ Loaded)
BY Inits, StepInvariant, PTL DEF Spec

(* The types of the tables and of the requests, for every instance. *)
THEOREM TypeCorrect == Spec => []TypeOK
<1>1. IInv => TypeOK
  BY DEF IInv
<1> QED
  BY <1>1, Invariant, PTL

(* The inductive invariant that management.cfg checks holds always: rows   *)
(* are locked by one request at a time, ids stay unique and fresh.         *)
THEOREM Invariance == Spec => []IInv
BY Invariant, PTL

(* Deleting a tournament, a team or a player leaves nothing behind that    *)
(* refers to it, whatever other requests add meanwhile.                    *)
THEOREM NothingOrphaned == Spec => []NoOrphans
<1>1. IInv => NoOrphans
  BY DEF IInv
<1> QED
  BY <1>1, Invariant, PTL

(* However many requests set and clear captains, a team has one at most.   *)
THEOREM AtMostOneCaptain == Spec => []OneCaptain
<1>1. IInv => OneCaptain
  BY DEF IInv
<1> QED
  BY <1>1, Invariant, PTL
-----------------------------------------------------------------------------
(* The other properties.  A step of one request, from an invariant state.  *)
LEMMA Stepped ==
    ASSUME IInv, Loaded, NEW r \in Requests, Step(r)
    PROVE  /\ TablesTyped /\ ReqTyped /\ ReqTyped'
           /\ \A s \in Requests \ {r} : req'[s] = req[s]
<1>1. TablesTyped /\ ReqTyped
  BY DEF IInv, TypeOK, TablesTyped, ReqTyped, State
<1> QED
  BY <1>1, StepRequests

LEMMA StepProfileOnce ==
    ASSUME IInv, Loaded, ProfileOnce, NEW r \in Requests, Step(r)
    PROVE  ProfileOnce'
<1>1. CASE players' \subseteq players
  BY <1>1 DEF ProfileOnce
<1>2. CASE AddPlayer(r) /\ players' # players
  <2> DEFINE n == [id |-> r, tour |-> Tour(r), profile |-> Op(r).profile]
  <2>1. players' = players \union {n} /\ ~OnRoster(n.tour, n.profile)
    BY <1>2 DEF AddPlayer
  <2> HIDE DEF n
  <2> QED
    BY <2>1 DEF ProfileOnce, OnRoster, Roster
<1>3. CASE LinkPlayer(r) /\ players' # players
  <2>1. /\ players' = Linked(r)
        /\ Entered(Tour(r), Op(r).player)
        /\ \A p \in Roster(Tour(r)) : p.profile = Op(r).profile => p.id = Op(r).player
    BY <1>3 DEF LinkPlayer
  <2>2. PICK p0 \in players : p0.id = Op(r).player /\ p0.tour = Tour(r)
    BY <2>1 DEF Entered, Roster
  <2> DEFINE n == [p0 EXCEPT !.profile = Op(r).profile]
  <2>3. n.tour = Tour(r) /\ n.profile = Op(r).profile
    BY <2>2, Stepped DEF TablesTyped, Player
  <2>4. \A p \in players : p.id = Op(r).player => p = p0
    BY <2>2 DEF IInv, IdsUnique
  <2> HIDE DEF n
  <2>5. \A q \in players' : q = n \/ (q \in players /\ q.id # Op(r).player)
    BY <2>1, <2>4 DEF Linked, n
  <2> QED
    BY <2>1, <2>3, <2>5 DEF ProfileOnce, Roster
<1> QED
  BY <1>1, <1>2, <1>3 DEF Step, tables, Gate, Check, Start, Lock, Fail, CreateTournament, PatchTournament,
     DeleteTournament, Grant, RevokeCommit, AddPlayer, RemovePlayer, LinkPlayer, CreateTeam, DeleteTeam,
     AddMember, RemoveMember, SetCaptain, ClearCaptain

(* No two rows of a roster are of one profile, whichever adds and links    *)
(* were checked together.                                                  *)
THEOREM ProfileOnceEver == Spec => []ProfileOnce
<1>1. Init => ProfileOnce
  BY StartAssumption DEF Init, ProfileOnce
<1>2. ASSUME IInv, Loaded, ProfileOnce, [Next]_vars PROVE ProfileOnce'
  BY <1>2, StepProfileOnce DEF Next, Step, vars, tables, ProfileOnce
<1> QED
  BY <1>1, <1>2, Invariant, PTL DEF Spec
-----------------------------------------------------------------------------
(* Owner rows are added one at a time, so an account has finitely many. *)
Countable == IsFiniteSet(owners)

LEMMA StepCountable ==
    ASSUME Countable, NEW r \in Requests, Step(r)
    PROVE  Countable'
<1>1. CASE owners' \subseteq owners
  BY <1>1, FS_Subset DEF Countable
<1>2. ASSUME NEW o, owners' = owners \union {o} PROVE Countable'
  BY <1>2, FS_AddElement DEF Countable
<1> QED
  BY <1>1, <1>2 DEF Step, tables, Gate, Check, Start, Lock, Fail, CreateTournament, PatchTournament,
     DeleteTournament, Grant, RevokeCommit, AddPlayer, RemovePlayer, LinkPlayer, CreateTeam, DeleteTeam,
     AddMember, RemoveMember, SetCaptain, ClearCaptain

LEMMA CountableEver == Spec => []Countable
<1>1. Init => Countable
  BY StartAssumption DEF Init, Countable
<1>2. Countable /\ [Next]_vars => Countable'
  BY StepCountable DEF Next, Step, vars, tables, Countable
<1> QED
  BY <1>1, <1>2, PTL DEF Spec

(* What a request knows when it writes: that its patch is in order on the  *)
(* row it loaded; that the rows its count has found are fewer than the     *)
(* ceiling; that its snapshot is of owners of its tournament, and that it  *)
(* has locked no more than what its statement works on.                    *)
Knows(r) ==
    /\ At(r, "checked", {"create"}) => IsFiniteSet(req[r].snap) /\ Cardinality(req[r].snap) < MaxOwned
    /\ At(r, "checked", {"patch"}) => PatchesInOrder(r)
    /\ At(r, "checked", {"link"}) => req[r].entry.id = Op(r).player /\ req[r].entry.profile = None
    /\ At(r, "waiting", {"revoke"}) => \A o \in req[r].snap : o \in Ids \X Users /\ o[1] = Tour(r)
    /\ At(r, "locked", {"revoke"}) => /\ \A o \in req[r].snap : o \in Ids \X Users /\ o[1] = Tour(r)
                                      /\ req[r].held \subseteq Target(r)

Informed == \A r \in Requests : Knows(r)

LEMMA StepInformed ==
    ASSUME IInv, Loaded, Countable, Informed, NEW r \in Requests, Step(r)
    PROVE  Informed'
<1>1. TablesTyped /\ ReqTyped /\ ReqTyped' /\ \A s \in Requests \ {r} : req'[s] = req[s]
  BY Stepped
<1>2. \A s \in Requests \ {r} : Knows(s)'
  BY <1>1 DEF Informed, Knows, At, Op, Tour, PatchesInOrder, Target
<1> SUFFICES Knows(r)'
  BY <1>2 DEF Informed
<1>3. ASSUME req'[r].pc \notin {"checked", "waiting", "locked"} PROVE Knows(r)'
  BY <1>3 DEF Knows, At
<1>4. CASE \E e : Checks(r, e)
  <2>1. PICK e : Checks(r, e)
    BY <1>4
  <2>2. Op(r).kind = "patch" => PatchesInOrder(r)
    BY <2>1 DEF Checks, Passes, PatchesInOrder
  <2>3. Op(r).kind = "link" => e.id = Op(r).player /\ e.profile = None
    BY <2>1 DEF Checks, Linkable
  <2>4. PatchesInOrder(r)' = PatchesInOrder(r) /\ Op(r)' = Op(r)
    BY <2>1 DEF Checks, PatchesInOrder, Op
  <2>5. Op(r).kind = "create" => IsFiniteSet(req'[r].snap) /\ Cardinality(req'[r].snap) < MaxOwned
    <3>1. IsFiniteSet(Owned(Op(r).by))
      BY FS_Subset DEF Countable, Owned
    <3> QED
      BY <2>1, <3>1 DEF Checks, Counted, Passes
  <2> QED
    BY <2>1, <2>2, <2>3, <2>4, <2>5 DEF Checks, At, Knows
<1>5. CASE Start(r)
  <2>1. /\ req'[r].pc = "waiting" /\ req'[r].op = req[r].op /\ req'[r].row = req[r].row
        /\ Op(r).kind = "revoke" => req'[r].snap = OwnersOf(Tour(r))
    BY <1>1, <1>5 DEF Start, ReqTyped, State
  <2>2. Op(r)' = Op(r) /\ Tour(r)' = Tour(r)
    BY <2>1 DEF Op, Tour
  <2>3. \A o \in OwnersOf(Tour(r)) : o \in Ids \X Users /\ o[1] = Tour(r)
    BY <1>1 DEF OwnersOf, TablesTyped
  <2> QED
    BY <2>1, <2>2, <2>3 DEF At, Knows
<1>6. CASE Lock(r)
  <2>1. /\ req'[r].pc = "locked" /\ req'[r].op = req[r].op /\ req'[r].row = req[r].row
        /\ req'[r].snap = req[r].snap /\ req'[r].held \subseteq Target(r)
        /\ req[r].pc = "waiting"
    BY <1>1, <1>6 DEF Lock, ReqTyped, State
  <2>2. Target(r)' = Target(r) /\ Op(r)' = Op(r) /\ Tour(r)' = Tour(r)
    BY <2>1 DEF Target, Op, Tour
  <2>3. Op(r).kind = "revoke" => \A o \in req[r].snap : o \in Ids \X Users /\ o[1] = Tour(r)
    BY <2>1 DEF Informed, Knows, At
  <2> QED
    BY <2>1, <2>2, <2>3 DEF At, Knows
<1>7. CASE \E a \in {"ok", "refused", "error"} : End(r, a)
  BY <1>1, <1>3, <1>7, EndTyped
<1>8. CASE \E o \in Ops : Gate(r, o)
  <2>1. PICK o \in Ops : Gate(r, o)
    BY <1>8
  <2>2. CASE End(r, "refused")
    BY <1>7, <2>2
  <2>3. CASE ~End(r, "refused")
    BY <1>1, <1>3, <2>1, <2>3 DEF Gate, New, ReqTyped
  <2> QED
    BY <2>2, <2>3
<1> QED
  BY <1>1, <1>4, <1>5, <1>6, <1>7, <1>8, CheckEnds DEF Step, Fail, CreateTournament, PatchTournament, DeleteTournament,
     Grant, RevokeCommit, AddPlayer, RemovePlayer, LinkPlayer, CreateTeam, DeleteTeam, AddMember,
     RemoveMember, SetCaptain, ClearCaptain

LEMMA InformedEver == Spec => []Informed
<1>1. Init => Informed
  BY DEF Init, Informed, Knows, New, At
<1>2. ASSUME IInv, Loaded, Countable, Informed, [Next]_vars PROVE Informed'
  <2>1. CASE UNCHANGED vars
    BY <1>2, <2>1 DEF vars, Informed, Knows, At, Op, Tour, PatchesInOrder, Target
  <2>2. CASE Next
    BY <1>2, <2>2, StepInformed DEF Next, Step
  <2> QED
    BY <1>2, <2>1, <2>2
<1> QED
  BY <1>1, <1>2, Invariant, CountableEver, PTL DEF Spec

(* A request that takes a step has not ended, and no row is its own yet.   *)
LEMMA NotItsOwn ==
    ASSUME IInv, NEW r \in Requests, Step(r)
    PROVE  (\A x \in tournaments : x.id # r) /\ (\A p \in players : p.id # r)
<1>1. req[r].pc # "ok"
  BY DEF Step, Gate, Check, Start, Lock, Fail, At, CreateTournament, PatchTournament, DeleteTournament,
     Grant, RevokeCommit, AddPlayer, RemovePlayer, LinkPlayer, CreateTeam, DeleteTeam, AddMember,
     RemoveMember, SetCaptain, ClearCaptain
<1> QED
  BY <1>1 DEF IInv, IdsFresh

LEMMA WindowStep ==
    ASSUME IInv, Loaded, Informed, NEW r \in Requests, Step(r),
           NEW x \in tournaments, NEW y \in tournaments', x.id = y.id, ~Inverted(x), Inverted(y)
    PROVE  At(r, "checked", {"patch"}) /\ Tour(r) = x.id /\ req[r].row # x
<1>1. IdsUnique /\ x.id # r
  BY NotItsOwn DEF IInv
<1>2. y \notin tournaments
  BY <1>1 DEF IdsUnique
<1>3. PatchTournament(r) /\ tournaments' = {IF z.id = Tour(r) THEN Patched(z, Op(r)) ELSE z : z \in tournaments}
  <2>1. CASE CreateTournament(r)
    BY <1>1, <1>2, <2>1 DEF CreateTournament
  <2> QED
    BY <1>2, <2>1 DEF Step, tables, Gate, Check, Start, Lock, Fail, PatchTournament, DeleteTournament,
       Grant, RevokeCommit, AddPlayer, RemovePlayer, LinkPlayer, CreateTeam, DeleteTeam, AddMember,
       RemoveMember, SetCaptain, ClearCaptain
<1>4. PICK z \in tournaments : y = Patched(z, Op(r)) /\ z.id = Tour(r)
  BY <1>2, <1>3
<1>5. Patched(z, Op(r)).id = z.id
  BY DEF Patched, IInv, TypeOK, Tournament
<1>6. z = x
  BY <1>1, <1>4, <1>5 DEF IdsUnique
<1>7. At(r, "checked", {"patch"}) /\ PatchesInOrder(r)
  BY <1>3 DEF PatchTournament, Informed, Knows
<1> QED
  BY <1>4, <1>6, <1>7 DEF PatchesInOrder

LEMMA LinkStep ==
    ASSUME IInv, Loaded, Informed, NEW r \in Requests, Step(r),
           NEW p \in players, NEW q \in players', p.id = q.id, p.profile # None, q.profile # p.profile
    PROVE  At(r, "checked", {"link"}) /\ req[r].entry.id = p.id /\ req[r].entry # p
<1>1. IdsUnique /\ p.id # r
  BY NotItsOwn DEF IInv
<1>2. q \notin players
  BY <1>1 DEF IdsUnique
<1>3. LinkPlayer(r) /\ players' = Linked(r)
  <2>1. CASE AddPlayer(r)
    BY <1>1, <1>2, <2>1 DEF AddPlayer
  <2> QED
    BY <1>2, <2>1 DEF Step, tables, Gate, Check, Start, Lock, Fail, CreateTournament, PatchTournament,
       DeleteTournament, Grant, RevokeCommit, RemovePlayer, LinkPlayer, CreateTeam, DeleteTeam, AddMember,
       RemoveMember, SetCaptain, ClearCaptain
<1>4. PICK z \in players : q = [z EXCEPT !.profile = Op(r).profile] /\ z.id = Op(r).player
  BY <1>2, <1>3 DEF Linked
<1>5. q.id = z.id
  BY <1>4 DEF IInv, TypeOK, Player
<1>6. At(r, "checked", {"link"}) /\ req[r].entry.id = Op(r).player /\ req[r].entry.profile = None
  BY <1>3 DEF LinkPlayer, Informed, Knows
<1> QED
  BY <1>4, <1>5, <1>6

(* Who takes an account past its ceiling: a grant, or a create with a row  *)
(* that its count had not found.                                           *)
LEMMA CeilingStep ==
    ASSUME IInv, Loaded, Informed, NEW r \in Requests, Step(r), NEW u \in Users,
           Cardinality(Owned(u)') > MaxOwned, ~(Owned(u)' \subseteq Owned(u))
    PROVE  \/ At(r, "checked", {"grant"}) /\ Op(r).user = u
           \/ At(r, "checked", {"create"}) /\ Op(r).by = u /\ ~(Owned(u) \subseteq req[r].snap)
<1>1. PICK o \in owners' : o \notin owners /\ o[2] = u
  BY DEF Owned
<1>2. \/ Grant(r) /\ owners' = owners \union {<<Tour(r), Op(r).user>>}
      \/ CreateTournament(r) /\ owners' = owners \union {<<r, Op(r).by>>}
  BY <1>1 DEF Step, tables, Gate, Check, Start, Lock, Fail, CreateTournament, PatchTournament,
     DeleteTournament, Grant, RevokeCommit, AddPlayer, RemovePlayer, LinkPlayer, CreateTeam, DeleteTeam,
     AddMember, RemoveMember, SetCaptain, ClearCaptain
<1>3. CASE Grant(r) /\ owners' = owners \union {<<Tour(r), Op(r).user>>}
  BY <1>1, <1>3 DEF Grant
<1>4. CASE CreateTournament(r) /\ owners' = owners \union {<<r, Op(r).by>>}
  <2>1. At(r, "checked", {"create"}) /\ Op(r).by = u
    BY <1>1, <1>4 DEF CreateTournament
  <2> DEFINE row == <<r, u>>
  <2>2. Owned(u)' = Owned(u) \union {row}
    BY <1>4, <2>1 DEF Owned
  <2>3. IsFiniteSet(req[r].snap) /\ Cardinality(req[r].snap) < MaxOwned
    BY <2>1 DEF Informed, Knows
  <2> HIDE DEF row
  <2>4. ASSUME Owned(u) \subseteq req[r].snap PROVE FALSE
    <3>1. IsFiniteSet(Owned(u)) /\ Cardinality(Owned(u)) <= Cardinality(req[r].snap)
      BY <2>3, <2>4, FS_Subset
    <3>2. Cardinality(Owned(u) \union {row}) <= Cardinality(Owned(u)) + 1
      <4>1. /\ IsFiniteSet(Owned(u) \union {row})
            /\ Cardinality(Owned(u) \union {row}) = IF row \in Owned(u) THEN Cardinality(Owned(u))
                                                                       ELSE Cardinality(Owned(u)) + 1
        BY <3>1, FS_AddElement
      <4>2. Cardinality(Owned(u)) \in Nat
        BY <3>1, FS_CardinalityType
      <4> QED
        BY <4>1, <4>2
    <3>3. /\ Cardinality(Owned(u)) \in Nat /\ Cardinality(req[r].snap) \in Nat /\ MaxOwned \in Nat
          /\ Cardinality(Owned(u) \union {row}) \in Nat
      BY <2>3, <3>1, FS_AddElement, FS_CardinalityType, ConstantsAssumption
    <3>4. Cardinality(Owned(u) \union {row}) > MaxOwned
      BY <2>2
    <3> QED
      BY <2>3, <3>1, <3>2, <3>3, <3>4
  <2> QED
    BY <2>1, <2>4
<1> QED
  BY <1>2, <1>3, <1>4

(* A window that was in order becomes inverted, a link is replaced, and a  *)
(* creation takes an account past its ceiling, only by a request that had  *)
(* read what was changed since.  A grant does not count, and may as well.  *)
THEOREM OnlyStaleReadsEver == Spec => OnlyStaleReads
<1> DEFINE Windows == \A x \in tournaments, y \in tournaments' :
             (x.id = y.id /\ ~Inverted(x) /\ Inverted(y))
                 => \E r \in Requests : At(r, "checked", {"patch"}) /\ Tour(r) = x.id /\ req[r].row # x
           Links == \A p \in players, q \in players' :
             (p.id = q.id /\ p.profile # None /\ q.profile # p.profile)
                 => \E r \in Requests : /\ At(r, "checked", {"link"})
                                        /\ req[r].entry.id = p.id /\ req[r].entry # p
           Ceilings == \A u \in Users :
             (Cardinality(Owned(u)') > MaxOwned /\ ~(Owned(u)' \subseteq Owned(u)))
                 => \E r \in Requests :
                       \/ At(r, "checked", {"grant"}) /\ Op(r).user = u
                       \/ At(r, "checked", {"create"}) /\ Op(r).by = u /\ ~(Owned(u) \subseteq req[r].snap)
<1>1. ASSUME IInv, Loaded, Informed, [Next]_vars PROVE (Windows /\ Links /\ Ceilings) \/ UNCHANGED vars
  <2>1. SUFFICES ASSUME NEW r \in Requests, Step(r) PROVE Windows /\ Links /\ Ceilings
    BY <1>1 DEF Next, Step
  <2>2. Windows /\ Links
    BY <1>1, <2>1, WindowStep, LinkStep
  <2>3. Ceilings
    BY <1>1, <2>1, CeilingStep
  <2> QED
    BY <2>2, <2>3
<1> QED
  BY <1>1, Invariant, InformedEver, PTL DEF Spec, OnlyStaleReads

(* The last owner of a tournament is revoked only by a statement whose     *)
(* snapshot had another one.                                               *)
THEOREM LastOwnerGuarded == Spec => LastOwnerGuard
<1> DEFINE Guarded == \A x \in tournaments :
             (OwnersOf(x.id) # {} /\ Exists(x.id)' /\ OwnersOf(x.id)' = {})
                 => \E r \in Requests : /\ At(r, "locked", {"revoke"}) /\ Tour(r) = x.id
                                        /\ \E o \in req[r].snap : o[2] # Op(r).user
<1>1. ASSUME IInv, Loaded, Informed, [Next]_vars PROVE Guarded \/ UNCHANGED vars
  <2>1. SUFFICES ASSUME NEW r \in Requests, Step(r), NEW x \in tournaments,
                        OwnersOf(x.id) # {}, Exists(x.id)', OwnersOf(x.id)' = {}
                 PROVE  /\ At(r, "locked", {"revoke"}) /\ Tour(r) = x.id
                        /\ \E o \in req[r].snap : o[2] # Op(r).user
    BY <1>1 DEF Next, Step
  <2>2. PICK o \in owners : o[1] = x.id /\ o \notin owners'
    BY <2>1 DEF OwnersOf
  <2>3. ~DeleteTournament(r)
    BY <2>1, <2>2 DEF DeleteTournament, OwnersOf, Exists
  <2>4. RevokeCommit(r)
    BY <2>1, <2>2, <2>3 DEF Step, tables, Gate, Check, Start, Lock, Fail, CreateTournament, PatchTournament,
       Grant, AddPlayer, RemovePlayer, LinkPlayer, CreateTeam, DeleteTeam, AddMember, RemoveMember,
       SetCaptain, ClearCaptain
  <2>5. /\ At(r, "locked", {"revoke"}) /\ o \in Target(r)
        /\ \A p \in req[r].snap : p \in Ids \X Users /\ p[1] = Tour(r)
    BY <1>1, <2>2, <2>4 DEF RevokeCommit, Informed, Knows
  <2>6. o = <<Tour(r), Op(r).user>> /\ Cardinality(req[r].snap) > 1
    BY <2>5 DEF Target, At
  <2>7. ASSUME \A p \in req[r].snap : p[2] = Op(r).user PROVE FALSE
    <3>1. req[r].snap \subseteq {<<Tour(r), Op(r).user>>}
      BY <2>5, <2>7
    <3>2. Cardinality(req[r].snap) <= 1 /\ Cardinality(req[r].snap) \in Nat
      <4> DEFINE one == {<<Tour(r), Op(r).user>>}
      <4>1. IsFiniteSet(one) /\ Cardinality(one) = 1
        BY FS_Singleton
      <4> HIDE DEF one
      <4> QED
        BY <3>1, <4>1, FS_Subset, FS_CardinalityType DEF one
    <3> QED
      BY <2>6, <3>2
  <2> QED
    BY <2>2, <2>5, <2>6, <2>7
<1> QED
  BY <1>1, Invariant, InformedEver, PTL DEF Spec, LastOwnerGuard
-----------------------------------------------------------------------------
(* The ceiling of a roster: what is on it and what is about to be.         *)
Pending(t) == {s \in Requests : At(s, "checked", {"add"}) /\ Tour(s) = t}

Bounded(t) == Cardinality(Roster(t)) + Cardinality(Pending(t)) <= MaxRoster + Cardinality(Requests) - 1

Within == IsFiniteSet(players) /\ \A t \in Ids : Bounded(t)

LEMMA Counts ==
    /\ \A t : IsFiniteSet(Pending(t)) /\ Cardinality(Pending(t)) \in Nat
    /\ \A t : Cardinality(Pending(t)) <= Cardinality(Requests)
    /\ IsFiniteSet(players) => \A t : IsFiniteSet(Roster(t)) /\ Cardinality(Roster(t)) \in Nat
    /\ Cardinality(Requests) \in Nat \ {0}
<1>1. ASSUME NEW t PROVE Pending(t) \subseteq Requests
  BY DEF Pending
<1>2. ASSUME NEW t PROVE Roster(t) \subseteq players
  BY DEF Roster
<1> QED
  BY <1>1, <1>2, ConstantsAssumption, FS_Subset, FS_CardinalityType, FS_EmptySet

LEMMA Fewer ==
    ASSUME IsFiniteSet(players), NEW t \in Ids, Bounded(t),
           Roster(t)' \subseteq Roster(t), Pending(t)' \subseteq Pending(t)
    PROVE  Bounded(t)'
<1>1. IsFiniteSet(Roster(t)) /\ IsFiniteSet(Pending(t))
  BY Counts
<1>2. Cardinality(Roster(t)') <= Cardinality(Roster(t)) /\ Cardinality(Pending(t)') <= Cardinality(Pending(t))
  BY <1>1, FS_Subset
<1>3. IsFiniteSet(Roster(t)') /\ IsFiniteSet(Pending(t)')
  BY <1>1, FS_Subset
<1>4. /\ Cardinality(Roster(t)) \in Nat /\ Cardinality(Pending(t)) \in Nat
      /\ Cardinality(Roster(t)') \in Nat /\ Cardinality(Pending(t)') \in Nat
  BY <1>1, <1>3, FS_CardinalityType
<1> QED
  BY <1>2, <1>4, Counts, ConstantsAssumption DEF Bounded

LEMMA StepWithin ==
    ASSUME IInv, Loaded, Within, NEW r \in Requests, Step(r)
    PROVE  Within'
<1>1. TablesTyped /\ ReqTyped /\ ReqTyped' /\ \A s \in Requests \ {r} : req'[s] = req[s]
  BY Stepped
<1>2. IsFiniteSet(players) /\ \A t \in Ids : Bounded(t)
  BY DEF Within
<1>3. \A t : \A s \in Requests \ {r} : s \in Pending(t)' <=> s \in Pending(t)
  BY <1>1 DEF Pending, At, Op, Tour
<1>4. ASSUME req'[r].pc # "checked" PROVE \A t : Pending(t)' = Pending(t) \ {r}
  BY <1>3, <1>4 DEF Pending, At
<1>5. CASE \E e : Checks(r, e)
  <2>1. /\ req'[r].pc = "checked" /\ req'[r].op = req[r].op /\ req'[r].row = req[r].row
    BY <1>5 DEF Checks
  <2>2. Passes(r) /\ UNCHANGED players
    BY <1>5 DEF Checks, tables
  <2>3. Op(r).kind = "add" => Cardinality(Roster(Tour(r))) < MaxRoster
    BY <2>2 DEF Passes, Room
  <2>4. ASSUME NEW t \in Ids PROVE Bounded(t)'
    <3>1. CASE r \in Pending(t)'
      <4>1. Cardinality(Roster(t)) < MaxRoster
        BY <2>1, <2>3, <3>1 DEF Pending, At, Op, Tour
      <4>2. /\ Cardinality(Roster(t)) \in Nat /\ Cardinality(Requests) \in Nat
            /\ Roster(t)' = Roster(t)
        BY <1>2, <2>2, Counts DEF Roster
      <4>3. Pending(t)' \subseteq Requests
        BY DEF Pending
      <4>4. Cardinality(Pending(t)') <= Cardinality(Requests) /\ Cardinality(Pending(t)') \in Nat
        BY <4>3, ConstantsAssumption, FS_Subset, FS_CardinalityType
      <4> QED
        BY <4>1, <4>2, <4>4, ConstantsAssumption DEF Bounded
    <3>2. CASE r \notin Pending(t)'
      <4>1. Pending(t)' \subseteq Pending(t) /\ Roster(t)' = Roster(t)
        BY <1>3, <2>2, <3>2 DEF Pending, Roster
      <4> QED
        BY <1>2, <4>1, Fewer
    <3> QED
      BY <3>1, <3>2
  <2> QED
    BY <1>2, <2>2, <2>4 DEF Within
<1>6. CASE req'[r].pc # "checked" /\ players' \subseteq players
  <2>1. \A t : Roster(t)' \subseteq Roster(t) /\ Pending(t)' \subseteq Pending(t)
    BY <1>4, <1>6 DEF Roster
  <2> QED
    BY <1>2, <1>6, <2>1, Fewer, FS_Subset DEF Within
<1>7. CASE AddPlayer(r) /\ players' # players
  <2> DEFINE n == [id |-> r, tour |-> Tour(r), profile |-> Op(r).profile]
  <2>1. /\ players' = players \union {n} /\ End(r, "ok")
        /\ At(r, "checked", {"add"})
    BY <1>7 DEF AddPlayer
  <2>2. n.tour = Tour(r)
    OBVIOUS
  <2> HIDE DEF n
  <2>3. \A t : Pending(t)' = Pending(t) \ {r}
    BY <1>1, <1>4, <2>1, EndTyped
  <2>4. ASSUME NEW t \in Ids PROVE Bounded(t)'
    <3>1. CASE t # Tour(r)
      <4>1. Roster(t)' \subseteq Roster(t) /\ Pending(t)' \subseteq Pending(t)
        BY <2>1, <2>2, <2>3, <3>1 DEF Roster
      <4> QED
        BY <1>2, <4>1, Fewer
    <3>2. CASE t = Tour(r)
      <4>1. Roster(t)' = Roster(t) \union {n} /\ r \in Pending(t)
        BY <2>1, <2>2, <3>2 DEF Roster, Pending
      <4>2. IsFiniteSet(Roster(t)) /\ IsFiniteSet(Pending(t)) /\ Cardinality(Requests) \in Nat
        BY <1>2, Counts
      <4>3. Cardinality(Roster(t)') <= Cardinality(Roster(t)) + 1 /\ Cardinality(Roster(t)') \in Nat
        <5>1. /\ IsFiniteSet(Roster(t) \union {n})
              /\ Cardinality(Roster(t) \union {n}) = IF n \in Roster(t) THEN Cardinality(Roster(t))
                                                                       ELSE Cardinality(Roster(t)) + 1
          BY <4>2, FS_AddElement
        <5>2. Cardinality(Roster(t)) \in Nat /\ Cardinality(Roster(t) \union {n}) \in Nat
          BY <4>2, <5>1, FS_CardinalityType
        <5> QED
          BY <4>1, <5>1, <5>2
      <4>4. Cardinality(Pending(t)') = Cardinality(Pending(t)) - 1
        BY <2>3, <4>1, <4>2, FS_RemoveElement
      <4>5. Cardinality(Roster(t)) \in Nat /\ Cardinality(Pending(t)) \in Nat
        BY <4>2, FS_CardinalityType
      <4> QED
        BY <1>2, <4>2, <4>3, <4>4, <4>5, ConstantsAssumption DEF Bounded
    <3> QED
      BY <3>1, <3>2
  <2> QED
    BY <1>2, <2>1, <2>4, FS_AddElement DEF Within
<1>8. CASE LinkPlayer(r) /\ players' # players
  <2> DEFINE link(p) == IF p.id = Op(r).player THEN [p EXCEPT !.profile = Op(r).profile] ELSE p
  <2>1. players' = {link(p) : p \in players} /\ End(r, "ok")
    BY <1>8 DEF LinkPlayer, Linked
  <2>2. \A p \in players : link(p).tour = p.tour
    BY <1>1 DEF TablesTyped, Player
  <2>3. \A t : Pending(t)' = Pending(t) \ {r}
    BY <1>1, <1>4, <2>1, EndTyped
  <2> HIDE DEF link
  <2>4. ASSUME NEW t \in Ids PROVE Bounded(t)'
    <3> DEFINE f == [p \in Roster(t) |-> link(p)]
    <3>1. f \in Surjection(Roster(t), Roster(t)')
      BY <2>1, <2>2 DEF Surjection, Roster
    <3>2. /\ IsFiniteSet(Roster(t)) /\ IsFiniteSet(Pending(t)) /\ Cardinality(Requests) \in Nat
      BY <1>2, Counts
    <3> HIDE DEF f
    <3>3. IsFiniteSet(Roster(t)') /\ Cardinality(Roster(t)') <= Cardinality(Roster(t))
      BY <3>1, <3>2, FS_Surjection
    <3>4. Pending(t)' \subseteq Pending(t)
      BY <2>3
    <3>5. IsFiniteSet(Pending(t)') /\ Cardinality(Pending(t)') <= Cardinality(Pending(t))
      BY <3>2, <3>4, FS_Subset
    <3>6. /\ Cardinality(Roster(t)) \in Nat /\ Cardinality(Pending(t)) \in Nat
          /\ Cardinality(Roster(t)') \in Nat /\ Cardinality(Pending(t)') \in Nat
      BY <3>2, <3>3, <3>5, FS_CardinalityType
    <3> QED
      BY <1>2, <3>2, <3>3, <3>5, <3>6, ConstantsAssumption DEF Bounded
  <2>5. IsFiniteSet(players')
    <3> DEFINE f == [p \in players |-> link(p)]
    <3>1. f \in Surjection(players, players')
      BY <2>1 DEF Surjection
    <3> HIDE DEF f
    <3> QED
      BY <1>2, <3>1, FS_Surjection
  <2> QED
    BY <2>4, <2>5 DEF Within
<1>9. CASE /\ \E a \in {"ok", "refused", "error"} : End(r, a)
           /\ players' \subseteq players
  BY <1>1, <1>6, <1>9, EndTyped
<1>10. CASE \E o \in Ops : Gate(r, o)
  <2>1. PICK o \in Ops : Gate(r, o)
    BY <1>10
  <2>2. players' = players
    BY <2>1 DEF Gate, tables
  <2>3. CASE End(r, "refused")
    BY <1>9, <2>2, <2>3
  <2>4. CASE ~End(r, "refused")
    BY <1>1, <1>6, <2>1, <2>2, <2>4 DEF Gate, New, ReqTyped
  <2> QED
    BY <2>3, <2>4
<1>11. CASE Start(r) \/ Lock(r)
  <2>1. req'[r].pc # "checked" /\ players' = players
    BY <1>1, <1>11 DEF Start, Lock, tables, ReqTyped, State
  <2> QED
    BY <1>6, <2>1
<1>12. CASE Check(r)
  <2>1. players' = players
    BY <1>12 DEF Check, tables
  <2> QED
    BY <1>1, <1>5, <1>9, <1>12, <2>1, CheckEnds
<1> QED
  BY <1>1, <1>5, <1>7, <1>8, <1>9, <1>10, <1>11, <1>12 DEF Step, tables, Fail, CreateTournament, PatchTournament,
     DeleteTournament, Grant, RevokeCommit, AddPlayer, RemovePlayer, LinkPlayer, CreateTeam, DeleteTeam,
     AddMember, RemoveMember, SetCaptain, ClearCaptain

(* A roster exceeds its ceiling by the adds that passed their check        *)
(* together, so by one less than there are requests at most.               *)
THEOREM RosterBoundedEver == Spec => []RosterBounded
<1>1. ASSUME Init PROVE Within
  <2>1. IsFiniteSet(players) /\ \A t \in Ids : Cardinality(Roster(t)) <= MaxRoster
    BY <1>1, StartAssumption DEF Init, Roster
  <2>2. \A t : Pending(t) = {}
    BY <1>1 DEF Init, Pending, At, New
  <2> QED
    BY <2>1, <2>2, Counts, FS_EmptySet, ConstantsAssumption DEF Within, Bounded
<1>2. ASSUME IInv, Loaded, Within, [Next]_vars PROVE Within'
  <2>1. CASE UNCHANGED vars
    BY <1>2, <2>1 DEF vars, tables, Within, Bounded, Roster, Pending, At, Op, Tour
  <2>2. CASE Next
    BY <1>2, <2>2, StepWithin DEF Next, Step
  <2> QED
    BY <1>2, <2>1, <2>2
<1>3. IInv /\ Within => RosterBounded
  BY DEF IInv, TypeOK, Tournament, Within, Bounded, Pending, RosterBounded
<1> QED
  BY <1>1, <1>2, <1>3, Invariant, PTL DEF Spec
=============================================================================
