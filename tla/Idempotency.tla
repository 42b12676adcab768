---------------------------- MODULE Idempotency ----------------------------
(***************************************************************************)
(* The Idempotency-Key middleware (src/app/middleware/idempotency.py) and  *)
(* the connection pool of an api instance, which it shares with the        *)
(* handlers it wraps (src/app/database.py).                                *)
(*                                                                         *)
(* A request is one delivery of a write; a client's retry is another       *)
(* request with the same key.  The handler is reduced to what a retry can  *)
(* tell: whether it committed its effect, and how it answered.             *)
(***************************************************************************)
EXTENDS Naturals, FiniteSets

CONSTANTS
    Requests,
    Keys,
    Prints,     \* fingerprints: method, path and body
    KeyOf,      \* [Requests -> Keys \union {NoKey}]
    PrintOf,    \* [Requests -> Prints]
    Instances,
    PoolMax,    \* pool_size + max_overflow: 1 + 1 on the api tier
    NoKey,
    None

ASSUME ConstantsAssumption ==
    /\ KeyOf \in [Requests -> Keys \union {NoKey}]
    /\ PrintOf \in [Requests -> Prints]
    /\ NoKey \notin Keys
    /\ PoolMax \in Nat \ {0}
    /\ IsFiniteSet(Requests)
    /\ None \notin Requests \union Instances

VARIABLES
    pc,       \* where each request is
    at,       \* the instance it is on
    result,   \* the status its handler answered with
    effects,  \* requests whose handler has committed its effect
    store,    \* idempotency_keys: [Keys -> fingerprint and response]
    answer    \* what the client got

vars == <<pc, at, result, effects, store, answer>>

-----------------------------------------------------------------------------
(* A response is told from another by its status and the request whose     *)
(* handler wrote it: two executions create two different things.           *)
Statuses  == {"ok", "refused"}      \* 2xx, 4xx: cached
Response  == [status : Statuses, by : Requests]
NoAnswer  == [status |-> "none", by |-> None]
Failed    == [status |-> "failed", by |-> None]    \* 5xx: not cached
Reused    == [status |-> "reused", by |-> None]    \* 422 idempotency_key_reused
Lost      == [status |-> "lost", by |-> None]      \* the instance went away
Entry     == [print : Prints, response : Response]
NoEntry   == [print |-> None, response |-> NoAnswer]

Keyed(r)      == KeyOf[r] # NoKey
SameKey(r, s) == Keyed(r) /\ KeyOf[r] = KeyOf[s]
Running(r)    == at[r] # None

(* The middleware's session holds its connection from the lookup until it  *)
(* is closed; the handler's session needs another one.                     *)
Holders(i) == {r \in Requests : at[r] = i /\ Keyed(r) /\ pc[r] \in {"entering", "handling", "handled"}}
Workers(i) == {r \in Requests : at[r] = i /\ pc[r] = "handling"}
InUse(i)   == Cardinality(Holders(i)) + Cardinality(Workers(i))

Free(i) == InUse(i) < PoolMax

(* The sessions are closed and the response, if any, is sent. *)
End(r, a) ==
    /\ pc' = [pc EXCEPT ![r] = "done"]
    /\ at' = [at EXCEPT ![r] = None]
    /\ result' = [result EXCEPT ![r] = "none"]
    /\ answer' = [answer EXCEPT ![r] = a]

-----------------------------------------------------------------------------
Init ==
    /\ pc = [r \in Requests |-> "new"]
    /\ at = [r \in Requests |-> None]
    /\ result = [r \in Requests |-> "none"]
    /\ effects = {}
    /\ store = [k \in Keys |-> NoEntry]
    /\ answer = [r \in Requests |-> NoAnswer]

(* call_next: the request is refused before it needs the database (no     *)
(* valid token, a malformed body, the rate limit), or goes on to a session.*)
Proceed(r) ==
    \/ /\ pc' = [pc EXCEPT ![r] = "entering"]
       /\ UNCHANGED result
    \/ /\ pc' = [pc EXCEPT ![r] = "handled"]
       /\ result' = [result EXCEPT ![r] = "refused"]

(* A request may come at any time: a client whose connection timed out     *)
(* sends again while the server still works on the first.                  *)
Arrive(r, i) ==
    /\ pc[r] = "new"
    /\ at' = [at EXCEPT ![r] = i]
    /\ \/ /\ Keyed(r)
          /\ pc' = [pc EXCEPT ![r] = "waiting"]
          /\ UNCHANGED result
       \/ /\ ~Keyed(r)
          /\ Proceed(r)
    /\ UNCHANGED <<effects, store, answer>>

Hit(r) == store[KeyOf[r]] # NoEntry

Miss(r) ==
    /\ ~Hit(r)
    /\ Proceed(r)
    /\ UNCHANGED <<at, answer>>

(* Slip: the fingerprint is stored and never compared. *)
LookupAnyBody(r) ==
    /\ pc[r] = "waiting"
    /\ Free(at[r])
    /\ \/ Miss(r)
       \/ Hit(r) /\ End(r, store[KeyOf[r]].response)
    /\ UNCHANGED <<effects, store>>

(* The lookup: a connection, then session.get of the key. *)
Lookup(r) ==
    /\ pc[r] = "waiting"
    /\ Free(at[r])
    /\ \/ Miss(r)
       \/ /\ Hit(r)
          /\ store[KeyOf[r]].print = PrintOf[r]
          /\ End(r, store[KeyOf[r]].response)
       \/ /\ Hit(r)
          /\ store[KeyOf[r]].print # PrintOf[r]
          /\ End(r, Reused)
    /\ UNCHANGED <<effects, store>>

(* The handler's session gets a connection (get_async_session). *)
Enter(r) ==
    /\ pc[r] = "entering"
    /\ Free(at[r])
    /\ pc' = [pc EXCEPT ![r] = "handling"]
    /\ UNCHANGED <<at, result, effects, store, answer>>

(* The handler commits and answers 2xx; refuses with a 4xx; or fails with  *)
(* a 5xx, before its commit or after it.                                   *)
Handle(r) ==
    /\ pc[r] = "handling"
    /\ \/ /\ effects' = effects \union {r}
          /\ result' \in {[result EXCEPT ![r] = s] : s \in {"ok", "failed"}}
       \/ /\ result' \in {[result EXCEPT ![r] = s] : s \in {"refused", "failed"}}
          /\ UNCHANGED effects
    /\ pc' = [pc EXCEPT ![r] = "handled"]
    /\ UNCHANGED <<at, store, answer>>

(* What the handler wrote, as the client sees it. *)
Written(r) == IF result[r] \in Statuses THEN [status |-> result[r], by |-> r] ELSE Failed

(* Slips: only a 2xx is cached; a second response replaces the first. *)
CachesSuccess(r) == Keyed(r) /\ result[r] = "ok"

Caches(r) == Keyed(r) /\ result[r] \in Statuses

StoreOverwriting(r) ==
    /\ pc[r] = "handled"
    /\ IF Caches(r)
         THEN store' = [store EXCEPT ![KeyOf[r]] = [print |-> PrintOf[r], response |-> Written(r)]]
         ELSE UNCHANGED store
    /\ End(r, Written(r))
    /\ UNCHANGED effects

(* Back in the middleware.  The response is stored under the key, then     *)
(* sent, unless the instance goes away between the two; a key that is      *)
(* stored by now violates the primary key, and the client gets a 5xx.      *)
Store(r) ==
    /\ pc[r] = "handled"
    /\ \/ /\ ~Caches(r)
          /\ End(r, Written(r))
          /\ UNCHANGED store
       \/ /\ Caches(r) /\ ~Hit(r)
          /\ store' = [store EXCEPT ![KeyOf[r]] = [print |-> PrintOf[r], response |-> Written(r)]]
          /\ \E a \in {Written(r), Lost} : End(r, a)
       \/ /\ Caches(r) /\ Hit(r)
          /\ End(r, Failed)
          /\ UNCHANGED store
    /\ UNCHANGED effects

(* Slip: only the wait for the first connection is bounded. *)
TimeoutOutside(r) ==
    /\ pc[r] = "waiting"
    /\ ~Free(at[r])
    /\ End(r, Failed)
    /\ UNCHANGED <<effects, store>>

(* Slip: the client is answered, and its request goes on. *)
TimeoutGoesOn(r) ==
    /\ pc[r] \in {"waiting", "entering"}
    /\ ~Free(at[r])
    /\ answer' = [answer EXCEPT ![r] = Failed]
    /\ UNCHANGED <<pc, at, result, effects, store>>

(* The pool's timeout ends the wait for a connection, with a 5xx. *)
Timeout(r) ==
    /\ pc[r] \in {"waiting", "entering"}
    /\ ~Free(at[r])
    /\ End(r, Failed)
    /\ UNCHANGED <<effects, store>>

(* The instance goes away with what runs on it. *)
Crash(i) ==
    /\ \E r \in Requests : at[r] = i
    /\ pc' = [r \in Requests |-> IF at[r] = i THEN "done" ELSE pc[r]]
    /\ at' = [r \in Requests |-> IF at[r] = i THEN None ELSE at[r]]
    /\ result' = [r \in Requests |-> IF at[r] = i THEN "none" ELSE result[r]]
    /\ answer' = [r \in Requests |-> IF at[r] = i THEN Lost ELSE answer[r]]
    /\ UNCHANGED <<effects, store>>

Next ==
    \/ \E r \in Requests :
          \/ \E i \in Instances : Arrive(r, i)
          \/ Lookup(r) \/ Enter(r) \/ Handle(r) \/ Store(r) \/ Timeout(r)
    \/ \E i \in Instances : Crash(i)

Spec == Init /\ [][Next]_vars

(* A request that has what it waits for goes on, and the pool's timeout    *)
(* fires.  Nothing is assumed of clients and crashes.                      *)
Fairness == \A r \in Requests :
    WF_vars(Lookup(r) \/ Enter(r) \/ Handle(r) \/ Store(r) \/ Timeout(r))

FairSpec == Spec /\ Fairness

-----------------------------------------------------------------------------
TypeOK ==
    /\ \A r \in Requests : pc[r] = "waiting" => Keyed(r)
    /\ pc \in [Requests -> {"new", "waiting", "entering", "handling", "handled", "done"}]
    /\ at \in [Requests -> Instances \union {None}]
    /\ result \in [Requests -> Statuses \union {"none", "failed"}]
    /\ effects \subseteq Requests
    /\ store \in [Keys -> Entry \union {NoEntry}]
    /\ answer \in [Requests -> Response \union {NoAnswer, Failed, Reused, Lost}]

(* No instance opens more connections than its share of the database's     *)
(* limit, whatever waits, times out or crashes (database.py).              *)
PoolBounded == \A i \in Instances : InUse(i) <= PoolMax

(* All definitive answers to one key are the same response, to the same    *)
(* request body, however the deliveries overlap, fail or are lost.         *)
Definitive(r) == answer[r].status \in Statuses

OneAnswer ==
    \A r, s \in Requests :
        (SameKey(r, s) /\ Definitive(r) /\ Definitive(s))
            => answer[r] = answer[s] /\ PrintOf[r] = PrintOf[s]

(* A client told of success can rely on it: the effect is committed, and   *)
(* it is that of a request it sent under the key.                          *)
SuccessIsReal ==
    \A r \in Requests :
        answer[r].status = "ok" =>
            /\ answer[r].by \in effects
            /\ PrintOf[answer[r].by] = PrintOf[r]
            /\ answer[r].by = r \/ SameKey(r, answer[r].by)

(* Once a client has its answer, no delivery that comes to the lookup      *)
(* after that reaches the handler.                                         *)
AnswerIsFinal ==
    [][\A r, s \in Requests :
          (SameKey(r, s) /\ Definitive(s) /\ pc[r] = "waiting")
              => pc'[r] \in {"waiting", "done"}]_vars

(* The inductive invariant behind the three.  What is stored under a key   *)
(* was written by a request with that key and body; whoever has a          *)
(* definitive answer has what is stored, or had no key; and a handler that *)
(* answers ok has committed.                                               *)
StoredIsWritten ==
    \A k \in Keys : store[k] # NoEntry =>
        LET by == store[k].response.by  IN
            /\ KeyOf[by] = k
            /\ PrintOf[by] = store[k].print
            /\ store[k].response.status = "ok" => by \in effects

AnswersAreStored ==
    \A r \in Requests : Definitive(r) =>
        IF Keyed(r) THEN store[KeyOf[r]] = [print |-> PrintOf[r], response |-> answer[r]]
                    ELSE answer[r].by = r /\ (answer[r].status = "ok" => r \in effects)

OkIsCommitted == \A r \in Requests : result[r] = "ok" => r \in effects

(* What the promise of KeyedWrites rests on besides: a request on an       *)
(* instance is between its arrival and its end, nobody is answered before  *)
(* the end, and no effect comes before the handler.                        *)
NotYet ==
    \A r \in Requests :
        /\ Running(r) => pc[r] \notin {"new", "done"}
        /\ pc[r] # "done" => answer[r] = NoAnswer
        /\ pc[r] \in {"new", "waiting", "entering", "handling"} => r \notin effects

IInv == TypeOK /\ StoredIsWritten /\ AnswersAreStored /\ OkIsCommitted

(* The middleware, the pool and the crashes keep the promise of            *)
(* KeyedWrites: a key is closed once, by an earned response, and no        *)
(* request reaches a handler, has an effect or is answered out of turn.    *)
Inside == {r \in Requests : pc[r] \in {"entering", "handling", "handled"}}

Promise == INSTANCE KeyedWrites WITH inside <- Inside, kept <- store, told <- answer

KeepsTheKeys == Promise!Spec

(* Every request ends: those that hold one connection and wait for another *)
(* are freed by the pool's timeout.                                        *)
EveryRequestEnds == \A r \in Requests : Running(r) ~> ~Running(r)
=============================================================================
