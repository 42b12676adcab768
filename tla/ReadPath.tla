------------------------------ MODULE ReadPath ------------------------------
(***************************************************************************)
(* What stands between a client and the tables on a read: the shared cache *)
(* at the edge, steered by the Cache-Control headers of src/app/cache.py   *)
(* and src/app/main.py; the verification of access tokens against a cached *)
(* key (src/app/auth/jwks.py, dependencies.py); and the two caches an      *)
(* instance keeps of slowly changing names (civilizations in               *)
(* routers/tournaments.py, people in auth/users_client.py).                *)
(*                                                                         *)
(* Two routes stand for the rest: "stats", a live read that anybody may    *)
(* make (GET .../civ-stats), and "owners", which needs a token (GET        *)
(* .../owners).  One instance; one user id stands for a batch.             *)
(*                                                                         *)
(* Of a copy only its lag matters: 0 while it is true, and from the change *)
(* of its source on 1 and the time since.  Keys are numbered as they are   *)
(* published, and a token is the number of the key that signed it.         *)
(***************************************************************************)
EXTENDS Naturals

CONSTANTS
    Requests,      \* the requests under way at a time
    NoToken,       \* no cookie
    Spoilt,        \* a token expired or malformed
    Foreign,       \* a token signed with a key never published
    None,
    EdgeTTL,       \* _STANDINGS_CDN_SECONDS
    NamesTTL,      \* _CIVILIZATION_NAMES_TTL_SECONDS
    UsersTTL,      \* _CACHE_TTL_SECONDS
    Flight,        \* bound on the duration of a request
    Mixes,         \* sets of routes that are asked for together
    MaxLag,        \* lags and ages are counted up to here
    MaxRotations   \* bound on changes of the signing key

ASSUME ConstantsAssumption ==
    /\ {EdgeTTL, NamesTTL, UsersTTL, Flight, MaxLag, MaxRotations} \subseteq Nat
    /\ Mixes \subseteq SUBSET {"stats", "owners"}
    /\ EdgeTTL > 0 /\ NamesTTL > 0 /\ UsersTTL > 0
    /\ EdgeTTL + NamesTTL + 3 * Flight < MaxLag /\ UsersTTL + 2 * Flight < MaxLag
    /\ {NoToken, Spoilt, Foreign, None} \cap Nat = {}

VARIABLES
    published,  \* the auth service's key
    edge,       \* the copy at the edge: of table and names, and its s-maxage left
    key,        \* _cached_public_key
    names,      \* _civilization_names_cache, and its age
    lock,       \* _civilization_names_lock
    users,      \* users_client._cache, and its age
    req,        \* the requests
    asked       \* the routes asked for in this behaviour
caches == <<edge, key, names, lock, users>>
vars   == <<published, caches, req, asked>>

Unsent == [pc |-> "new", route |-> None, token |-> NoToken, age |-> 0, outdated |-> FALSE,
           key |-> None, table |-> None, names |-> None, users |-> None]

Init ==
    /\ published = 0
    /\ edge = None /\ key = None /\ names = None /\ lock = None /\ users = None
    /\ req = [r \in Requests |-> Unsent]
    /\ asked \in Mixes

At(r, pcs)  == req[r].pc \in pcs
Put(r, q)   == req' = [req EXCEPT ![r] = q]
Goto(r, pc) == Put(r, [req[r] EXCEPT !.pc = pc])

-----------------------------------------------------------------------------
(* The world: a source changes, and time passes while no request is late.  *)
Outdated(lag) == IF lag = 0 THEN 1 ELSE lag
Older(n)      == IF n \in {None, 0, MaxLag} THEN n ELSE n + 1
Longer(age)   == IF age = MaxLag THEN age ELSE age + 1

ChangeTable ==
    /\ req' = [r \in Requests |-> [req[r] EXCEPT !.table = Outdated(@)]]
    /\ edge' = IF edge = None THEN None ELSE [edge EXCEPT !.table = Outdated(@)]
    /\ UNCHANGED <<published, key, names, lock, users, asked>>

ChangeNames ==
    /\ req' = [r \in Requests |-> [req[r] EXCEPT !.names = Outdated(@)]]
    /\ edge' = IF edge = None THEN None ELSE [edge EXCEPT !.names = Outdated(@)]
    /\ names' = IF names = None THEN None ELSE [names EXCEPT !.lag = Outdated(@)]
    /\ UNCHANGED <<published, key, lock, users, asked>>

ChangeUsers ==
    /\ req' = [r \in Requests |-> [req[r] EXCEPT !.users = Outdated(@)]]
    /\ users' = IF users = None THEN None ELSE [users EXCEPT !.lag = Outdated(@)]
    /\ UNCHANGED <<published, edge, key, names, lock, asked>>

Rotate ==
    /\ published < MaxRotations
    /\ published' = published + 1
    /\ UNCHANGED <<caches, req, asked>>

Pass ==
    /\ \A r \in Requests : ~At(r, {"new"}) => req[r].age < Flight
    /\ req' = [r \in Requests |->
                  IF At(r, {"new"}) THEN req[r]
                  ELSE [req[r] EXCEPT !.age = @ + 1, !.table = Older(@),
                                      !.names = Older(@), !.users = Older(@)]]
    /\ edge' = IF edge = None \/ edge.left = 1 THEN None
               ELSE [table |-> Older(edge.table), names |-> Older(edge.names), left |-> edge.left - 1]
    /\ names' = IF names = None THEN None ELSE [lag |-> Older(names.lag), age |-> Longer(names.age)]
    /\ users' = IF users = None THEN None ELSE [lag |-> Older(users.lag), age |-> Longer(users.age)]
    /\ UNCHANGED <<published, key, lock, asked>>

-----------------------------------------------------------------------------
(* apply_live_cache_control by the presence of the cookie; every response  *)
(* that does not name a cache's lifetime is no-store (the handler's own    *)
(* header, or that of cache_control_middleware).                           *)
Header(route, token) == IF route = "stats" /\ token = NoToken THEN "public" ELSE "no-store"

(* The edge has a copy for whoever sends no cookie (the cache rule of      *)
(* infra/README.md), or sends the request on.                              *)
EdgeHolds(route, token) == route = "stats" /\ token = NoToken /\ edge # None

Arrive(r, route, token) ==
    /\ At(r, {"new"})
    /\ LET sent == [Unsent EXCEPT !.route = route, !.token = token]
       IN  Put(r, IF EdgeHolds(route, token)
                  THEN [sent EXCEPT !.pc = "hit", !.table = edge.table, !.names = edge.names,
                                    !.outdated = edge.table > 0]
                  ELSE [sent EXCEPT !.pc = IF route = "owners" THEN "verify" ELSE "table"])
    /\ UNCHANGED <<published, caches, asked>>

-----------------------------------------------------------------------------
(* Slip: an unknown signature is refused without a look at the new key. *)
OnMismatchRefuse(pc) == "refused"

(* After a signature that does not verify: one refetch of the key.         *)
OnMismatch(pc) == IF pc \in {"verify", "first"} THEN "refetch" ELSE "refused"

(* jwt.decode with a key, and what get_current_user_id does next. *)
Verdict(token, k, pc) ==
    IF token = Spoilt THEN "refused"
    ELSE IF token = k THEN "table" ELSE OnMismatch(pc)

Verify(r) ==
    /\ At(r, {"verify"})
    /\ Goto(r, IF req[r].token = NoToken THEN "refused"
               ELSE IF key = None THEN "fetch"
               ELSE Verdict(req[r].token, key, "verify"))
    /\ UNCHANGED <<published, caches, asked>>

(* _load_public_key: the key as the auth service publishes it, ... *)
FetchKey(r) ==
    /\ At(r, {"fetch", "refetch"})
    /\ Put(r, [req[r] EXCEPT !.pc = IF @ = "fetch" THEN "first" ELSE "second",
                             !.key = published])
    /\ UNCHANGED <<published, caches, asked>>

(* ... and its arrival, which may be after that of a later fetch. *)
HaveKey(r) ==
    /\ At(r, {"first", "second"})
    /\ key' = req[r].key
    /\ Put(r, [req[r] EXCEPT !.pc = Verdict(req[r].token, req[r].key, @), !.key = None])
    /\ UNCHANGED <<published, edge, names, lock, users, asked>>

-----------------------------------------------------------------------------
ReadTable(r) ==
    /\ At(r, {"table"})
    /\ Put(r, [req[r] EXCEPT !.table = 0,
                             !.pc = IF req[r].route = "owners" THEN "users" ELSE "names"])
    /\ UNCHANGED <<published, caches, asked>>

(* Slip: a map that is there is good. *)
NamesThere == names # None

NamesFresh == names # None /\ names.age < NamesTTL

(* _civilization_names: from the cache, or else under the lock, where the  *)
(* cache is looked at again.                                               *)
TakeNames(r) ==
    /\ At(r, {"names", "lock"})
    /\ NamesFresh
    /\ At(r, {"lock"}) => lock = None
    /\ Put(r, [req[r] EXCEPT !.names = names.lag, !.pc = "reply"])
    /\ UNCHANGED <<published, caches, asked>>

AwaitLock(r) ==
    /\ At(r, {"names"}) /\ ~NamesFresh
    /\ Goto(r, "lock")
    /\ UNCHANGED <<published, caches, asked>>

TakeLock(r) ==
    /\ At(r, {"lock"}) /\ lock = None /\ ~NamesFresh
    /\ lock' = r
    /\ Goto(r, "query")
    /\ UNCHANGED <<published, edge, key, names, users, asked>>

QueryNames(r) ==
    /\ At(r, {"query"})
    /\ Put(r, [req[r] EXCEPT !.names = 0, !.pc = "queried"])
    /\ UNCHANGED <<published, caches, asked>>

StoreNames(r) ==
    /\ At(r, {"queried"})
    /\ names' = [lag |-> req[r].names, age |-> 0]
    /\ lock' = None
    /\ Goto(r, "reply")
    /\ UNCHANGED <<published, edge, key, users, asked>>

-----------------------------------------------------------------------------
(* fetch_identities: from the cache, or looked up without a lock. *)
UsersFresh == users # None /\ users.age < UsersTTL

TakeUsers(r) ==
    /\ At(r, {"users"})
    /\ IF UsersFresh THEN Put(r, [req[r] EXCEPT !.users = users.lag, !.pc = "reply"])
                     ELSE Goto(r, "lookup")
    /\ UNCHANGED <<published, caches, asked>>

Lookup(r) ==
    /\ At(r, {"lookup"})
    /\ Put(r, [req[r] EXCEPT !.users = 0, !.pc = "looked"])
    /\ UNCHANGED <<published, caches, asked>>

StoreUsers(r) ==
    /\ At(r, {"looked"})
    /\ users' = [lag |-> req[r].users, age |-> 0]
    /\ Goto(r, "reply")
    /\ UNCHANGED <<published, edge, key, names, lock, asked>>

-----------------------------------------------------------------------------
(* The response passes the edge, which keeps a public one for its          *)
(* s-maxage, and is through.                                               *)
Answer(r) ==
    /\ At(r, {"reply", "hit", "refused", "failed"})
    /\ Put(r, Unsent)
    /\ edge' = IF At(r, {"reply"}) /\ Header(req[r].route, req[r].token) = "public"
               THEN [table |-> req[r].table, names |-> req[r].names, left |-> EdgeTTL]
               ELSE edge
    /\ UNCHANGED <<published, key, names, lock, users, asked>>

(* A call fails: without the key or the database the request does, and     *)
(* gives the lock back; without the identities the answer has none.        *)
Fail(r) ==
    /\ At(r, {"fetch", "first", "refetch", "second", "table", "query", "queried", "lookup", "looked"})
    /\ IF At(r, {"lookup", "looked"})
       THEN Put(r, [req[r] EXCEPT !.users = None, !.pc = "reply"])
       ELSE Goto(r, "failed")
    /\ lock' = IF lock = r THEN None ELSE lock
    /\ UNCHANGED <<published, edge, key, names, users, asked>>

-----------------------------------------------------------------------------
(* A live read looks at the presence of the cookie only. *)
Tokens(route) ==
    {NoToken, Spoilt} \union (IF route = "owners" THEN {Foreign} \union 0..published ELSE {})

Step(r) ==
    \/ Verify(r) \/ FetchKey(r) \/ HaveKey(r)
    \/ ReadTable(r)
    \/ TakeNames(r) \/ AwaitLock(r) \/ TakeLock(r) \/ QueryNames(r) \/ StoreNames(r)
    \/ TakeUsers(r) \/ Lookup(r) \/ StoreUsers(r)
    \/ Answer(r)

(* An instance is recycled: its requests and its caches are gone. *)
Recycle ==
    /\ req' = [r \in Requests |-> Unsent]
    /\ key' = None /\ names' = None /\ lock' = None /\ users' = None
    /\ UNCHANGED <<published, edge, asked>>

Next ==
    \/ ChangeTable \/ ChangeNames \/ ChangeUsers \/ Rotate
    \/ Pass
    \/ \E r \in Requests :
           \/ \E route \in asked : \E token \in Tokens(route) : Arrive(r, route, token)
           \/ Step(r)
           \/ Fail(r)
    \/ Recycle

Spec == Init /\ [][Next]_vars

-----------------------------------------------------------------------------
Lag   == 0..MaxLag
Copy  == [lag : Lag, age : Lag]
Token == {NoToken, Spoilt, Foreign} \union Nat
Pcs   == {"new", "hit", "verify", "fetch", "first", "refetch", "second", "table", "names", "lock",
          "query", "queried", "users", "lookup", "looked", "reply", "refused", "failed"}
Request ==
    [pc : Pcs, route : {"stats", "owners", None}, token : Token, age : 0..Flight,
     outdated : BOOLEAN, key : Nat \union {None}, table : Lag \union {None},
     names : Lag \union {None}, users : Lag \union {None}]

TypeOK ==
    /\ published \in Nat
    /\ edge \in [table : Lag, names : Lag, left : 1..EdgeTTL] \union {None}
    /\ key \in Nat \union {None}
    /\ names \in Copy \union {None}
    /\ lock \in Requests \union {None}
    /\ users \in Copy \union {None}
    /\ req \in [Requests -> Request]
    /\ asked \subseteq {"stats", "owners"}

(* A rotation of the signing key is survived: a sound token is refused     *)
(* only if its key has been replaced, however old the cached key and in    *)
(* whatever order concurrent fetches arrive; and none is accepted that no  *)
(* published key has signed ("a key rotation doesn't spuriously reject     *)
(* otherwise-valid tokens", dependencies.py:51).                           *)
RotationIsSurvived ==
    \A r \in Requests :
        /\ At(r, {"refused"}) => req[r].token # published
        /\ req[r].route = "owners" /\ At(r, {"table", "users", "reply"})
               => req[r].token \in 0..published

(* Why: a key fetched for a request is none older than its token, so what  *)
(* mismatches after the refetch has been replaced.                         *)
Admitted == {"table", "names", "lock", "query", "queried", "users", "lookup", "looked", "reply"}

KeyInOrder(q) ==
    /\ q.token \in Nat => q.token <= published
    /\ q.pc \in {"first", "second"} =>
           q.key \in 0..published /\ (q.token \in Nat => q.token <= q.key)
    /\ q.pc = "refused" /\ q.token \in Nat => q.token < published
    /\ q.pc \in Admitted /\ q.route = "owners" => q.token \in Nat

KeysInOrder == (key # None => key <= published) /\ \A r \in Requests : KeyInOrder(req[r])

(* A copy was still true within a delay. *)
TrueWithin(lag, delay) == lag <= delay + 1

(* Every answer is recent, through all caches together: who sends a cookie *)
(* reads a table no older than the request; a viewer's copy is as old as   *)
(* the request that left it at the edge, less than the s-maxage there and  *)
(* the viewer's own request; names and identities are older by less than   *)
(* their own lifetime and the request that filled their cache; each bound  *)
(* is met by some behaviour (cache.py:54-88, tournaments.py:1535-1560,     *)
(* users_client.py:69-124).                                                *)
AnswersAreRecent ==
    \A r \in Requests : At(r, {"reply", "hit"}) =>
        LET q     == req[r]
            delay == IF q.token = NoToken THEN Flight + (EdgeTTL - 1) + Flight ELSE Flight
        IN  /\ q.token # NoToken => ~q.outdated
            /\ TrueWithin(q.table, delay)
            /\ q.names # None => TrueWithin(q.names, delay + (NamesTTL - 1) + Flight)
            /\ q.users # None => TrueWithin(q.users, Flight + (UsersTTL - 1) + Flight)

(* Why: the lag of each copy, at the edge, in a cache or in a request, by  *)
(* its age there and by what it was copied from.                           *)
EdgeInTime ==
    edge # None => /\ edge.table <= (Flight + 1) + (EdgeTTL - edge.left)
                   /\ edge.names <= (NamesTTL + 2 * Flight) + (EdgeTTL - edge.left)

CacheInTime(copy) == copy # None => copy.lag <= (Flight + 1) + copy.age

RequestInTime(q) ==
    /\ q.outdated => q.token = NoToken
    /\ q.pc \in Admitted \ {"table"} => q.table # None /\ q.table <= q.age + 1
    /\ q.pc = "queried" => q.names # None /\ q.names <= q.age + 1
    /\ q.pc = "looked" => q.users # None /\ q.users <= q.age + 1
    /\ q.pc \in {"users", "lookup", "looked"} => q.route = "owners"
    /\ q.names # None => q.pc \in {"queried", "reply", "hit", "failed"}
    /\ q.users # None => q.pc \in {"looked", "reply"}
    /\ q.pc = "reply" =>
           /\ q.names # None => q.names <= NamesTTL + Flight + q.age
           /\ q.names = None => q.route = "owners"
           /\ q.users # None => q.users <= UsersTTL + Flight + q.age
    /\ q.pc = "hit" =>
           /\ q.token = NoToken
           /\ q.table # None /\ q.table <= EdgeTTL + Flight + q.age
           /\ q.names # None /\ q.names <= (EdgeTTL - 1) + NamesTTL + 2 * Flight + q.age

CopiesInTime ==
    /\ EdgeInTime /\ CacheInTime(names) /\ CacheInTime(users)
    /\ \A r \in Requests : RequestInTime(req[r])

IInv == TypeOK /\ KeysInOrder /\ CopiesInTime
=============================================================================
