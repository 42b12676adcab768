-------------------------- MODULE IdempotencyProofs --------------------------
(***************************************************************************)
(* Proofs about the idempotency keys and the connection pool of module     *)
(* Idempotency, for any requests, keys, bodies, instances and pool size.   *)
(***************************************************************************)
EXTENDS Idempotency, FiniteSetTheorems, TLAPS

-----------------------------------------------------------------------------
(* Types.                                                                  *)
LEMMA InitType == Init => TypeOK
  BY ConstantsAssumption DEF Init, TypeOK, NoEntry, NoAnswer, Statuses

LEMMA EntryType ==
    ASSUME TypeOK, NEW r \in Requests, Keyed(r)
    PROVE  /\ KeyOf[r] \in Keys
           /\ store[KeyOf[r]] \in Entry \union {NoEntry}
           /\ Hit(r) => store[KeyOf[r]] \in Entry /\ store[KeyOf[r]].response \in Response
  BY ConstantsAssumption DEF TypeOK, Keyed, Hit, Entry

LEMMA WrittenType ==
    ASSUME NEW r \in Requests
    PROVE  /\ Written(r) \in Response \union {Failed}
           /\ Caches(r) => Written(r) = [status |-> result[r], by |-> r] /\ Written(r) \in Response
           /\ Written(r).status \in Statuses => Written(r) = [status |-> result[r], by |-> r]
  BY DEF Written, Caches, Response, Failed, Statuses

(* What a request leaves behind when it ends, whatever it is answered.     *)
LEMMA EndType ==
    ASSUME TypeOK, NEW r \in Requests,
           NEW a \in Response \union {NoAnswer, Failed, Reused, Lost},
           End(r, a), effects' = effects, store' \in [Keys -> Entry \union {NoEntry}]
    PROVE  TypeOK'
  BY DEF End, TypeOK

LEMMA StoreType ==
    ASSUME TypeOK, NEW r \in Requests, Caches(r),
           store' = [store EXCEPT ![KeyOf[r]] = [print |-> PrintOf[r], response |-> Written(r)]]
    PROVE  store' \in [Keys -> Entry \union {NoEntry}]
<1>1. [print |-> PrintOf[r], response |-> Written(r)] \in Entry
  BY ConstantsAssumption, WrittenType DEF Entry
<1> QED
  BY <1>1 DEF TypeOK

LEMMA NextType == TypeOK /\ [Next]_vars => TypeOK'
<1> SUFFICES ASSUME TypeOK, [Next]_vars
             PROVE  TypeOK'
  OBVIOUS
<1>1. ASSUME NEW r \in Requests, NEW i \in Instances, Arrive(r, i)
      PROVE  TypeOK'
  BY <1>1 DEF Arrive, Proceed, TypeOK, Statuses, Keyed
<1>2. ASSUME NEW r \in Requests, Lookup(r)
      PROVE  TypeOK'
  <2>1. CASE Miss(r)
    BY <1>2, <2>1 DEF Lookup, Miss, Proceed, TypeOK, Statuses, Keyed
  <2>2. CASE Hit(r) /\ End(r, store[KeyOf[r]].response)
    <3>1. store[KeyOf[r]].response \in Response
      BY <1>2, <2>2, EntryType DEF Lookup, TypeOK
    <3> QED
      BY <1>2, <2>2, <3>1, EndType DEF Lookup, TypeOK
  <2>3. CASE End(r, Reused)
    BY <1>2, <2>3, EndType DEF Lookup, TypeOK
  <2> QED
    BY <1>2, <2>1, <2>2, <2>3 DEF Lookup
<1>3. ASSUME NEW r \in Requests, Enter(r)
      PROVE  TypeOK'
  BY <1>3 DEF Enter, TypeOK, Keyed
<1>4. ASSUME NEW r \in Requests, Handle(r)
      PROVE  TypeOK'
  BY <1>4 DEF Handle, TypeOK, Keyed, Statuses
<1>5. ASSUME NEW r \in Requests, Store(r)
      PROVE  TypeOK'
  <2>1. PICK a \in {Written(r), Lost, Failed} : End(r, a)
    BY <1>5 DEF Store
  <2>2. a \in Response \union {NoAnswer, Failed, Reused, Lost}
    BY <2>1, WrittenType
  <2>3. store' \in [Keys -> Entry \union {NoEntry}]
    BY <1>5, StoreType DEF Store, TypeOK
  <2> QED
    BY <1>5, <2>1, <2>2, <2>3, EndType DEF Store
<1>6. ASSUME NEW r \in Requests, Timeout(r)
      PROVE  TypeOK'
  BY <1>6, EndType DEF Timeout, TypeOK
<1>7. ASSUME NEW i \in Instances, Crash(i)
      PROVE  TypeOK'
  BY <1>7 DEF Crash, TypeOK, Keyed
<1>8. CASE UNCHANGED vars
  BY <1>8 DEF vars, TypeOK, Keyed
<1> QED
  BY <1>1, <1>2, <1>3, <1>4, <1>5, <1>6, <1>7, <1>8 DEF Next

(* Every reachable state is well typed, and only keyed requests are looked *)
(* up.                                                                     *)
THEOREM TypeCorrect == Spec => []TypeOK
<1>1. Init => TypeOK
  BY InitType
<1>2. TypeOK /\ [Next]_vars => TypeOK'
  BY NextType
<1> QED
  BY <1>1, <1>2, PTL DEF Spec
-----------------------------------------------------------------------------
(* The pool.                                                               *)
LEMMA UseIsNat ==
    ASSUME NEW i
    PROVE  /\ IsFiniteSet(Holders(i)) /\ Cardinality(Holders(i)) \in Nat
           /\ IsFiniteSet(Workers(i)) /\ Cardinality(Workers(i)) \in Nat
<1>1. Holders(i) \in SUBSET Requests /\ Workers(i) \in SUBSET Requests
  BY DEF Holders, Workers
<1> QED
  BY <1>1, ConstantsAssumption, FS_Subset, FS_CardinalityType

(* One more connection at most, and only out of a pool with one free.      *)
LEMMA TakeOne ==
    ASSUME NEW i, NEW r, InUse(i) <= PoolMax,
           Holders(i)' \subseteq Holders(i) \union {r}, Workers(i)' \subseteq Workers(i),
           Holders(i)' \subseteq Holders(i) \/ Free(i)
    PROVE  InUse(i)' <= PoolMax
<1>1. /\ IsFiniteSet(Holders(i) \union {r})
      /\ Cardinality(Holders(i) \union {r}) <= Cardinality(Holders(i)) + 1
  BY UseIsNat, FS_AddElement
<1>2. /\ Cardinality(Holders(i)') <= Cardinality(Holders(i) \union {r})
      /\ Holders(i)' \subseteq Holders(i) => Cardinality(Holders(i)') <= Cardinality(Holders(i))
      /\ Cardinality(Workers(i)') <= Cardinality(Workers(i))
  BY <1>1, UseIsNat, FS_Subset
<1>3. Holders(i)' \in SUBSET (Holders(i) \union {r}) /\ Workers(i)' \in SUBSET Workers(i)
  OBVIOUS
<1>4. /\ Cardinality(Holders(i)') \in Nat /\ Cardinality(Workers(i)') \in Nat
      /\ Cardinality(Holders(i) \union {r}) \in Nat
  BY <1>1, <1>3, UseIsNat, FS_Subset, FS_CardinalityType
<1> QED
  BY <1>1, <1>2, <1>4, UseIsNat, ConstantsAssumption DEF InUse, Free

LEMMA TakeOneToWork ==
    ASSUME NEW i, NEW r, InUse(i) <= PoolMax,
           Workers(i)' \subseteq Workers(i) \union {r}, Holders(i)' \subseteq Holders(i),
           Workers(i)' \subseteq Workers(i) \/ Free(i)
    PROVE  InUse(i)' <= PoolMax
<1>1. /\ IsFiniteSet(Workers(i) \union {r})
      /\ Cardinality(Workers(i) \union {r}) <= Cardinality(Workers(i)) + 1
  BY UseIsNat, FS_AddElement
<1>2. /\ Cardinality(Workers(i)') <= Cardinality(Workers(i) \union {r})
      /\ Workers(i)' \subseteq Workers(i) => Cardinality(Workers(i)') <= Cardinality(Workers(i))
      /\ Cardinality(Holders(i)') <= Cardinality(Holders(i))
  BY <1>1, UseIsNat, FS_Subset
<1>3. Workers(i)' \in SUBSET (Workers(i) \union {r}) /\ Holders(i)' \in SUBSET Holders(i)
  OBVIOUS
<1>4. /\ Cardinality(Holders(i)') \in Nat /\ Cardinality(Workers(i)') \in Nat
      /\ Cardinality(Workers(i) \union {r}) \in Nat
  BY <1>1, <1>3, UseIsNat, FS_Subset, FS_CardinalityType
<1> QED
  BY <1>1, <1>2, <1>4, UseIsNat, ConstantsAssumption DEF InUse, Free

LEMMA GivesBack ==
    ASSUME NEW i, InUse(i) <= PoolMax,
           Holders(i)' \subseteq Holders(i), Workers(i)' \subseteq Workers(i)
    PROVE  InUse(i)' <= PoolMax
  BY TakeOne

LEMMA EndGivesBack ==
    ASSUME TypeOK, NEW r \in Requests, NEW a, End(r, a), NEW i \in Instances
    PROVE  Holders(i)' \subseteq Holders(i) /\ Workers(i)' \subseteq Workers(i)
  BY DEF End, TypeOK, Holders, Workers, Keyed

LEMMA NextPool == TypeOK /\ PoolBounded /\ [Next]_vars => PoolBounded'
<1> SUFFICES ASSUME TypeOK, PoolBounded, [Next]_vars, NEW i \in Instances
             PROVE  InUse(i)' <= PoolMax
  BY DEF PoolBounded
<1>0. InUse(i) <= PoolMax
  BY DEF PoolBounded
<1>1. ASSUME NEW r \in Requests, NEW j \in Instances, Arrive(r, j)
      PROVE  InUse(i)' <= PoolMax
  <2>1. Holders(i)' \subseteq Holders(i) /\ Workers(i)' \subseteq Workers(i)
    BY <1>1 DEF Arrive, Proceed, TypeOK, Holders, Workers, Keyed
  <2> QED
    BY <1>0, <2>1, GivesBack
<1>2. ASSUME NEW r \in Requests, Lookup(r)
      PROVE  InUse(i)' <= PoolMax
  <2>1. CASE Miss(r)
    <3>1. Holders(i)' \subseteq Holders(i) \union {r} /\ Workers(i)' \subseteq Workers(i)
      BY <1>2, <2>1 DEF Lookup, Miss, Proceed, TypeOK, Holders, Workers, Keyed
    <3>2. CASE at[r] = i
      BY <1>0, <1>2, <3>1, <3>2, TakeOne DEF Lookup
    <3>3. CASE at[r] # i
      <4>1. Holders(i)' \subseteq Holders(i)
        BY <1>2, <2>1, <3>3 DEF Lookup, Miss, Proceed, TypeOK, Holders, Keyed
      <4> QED
        BY <1>0, <3>1, <4>1, GivesBack
    <3> QED
      BY <3>2, <3>3
  <2>2. ASSUME NEW a, End(r, a)
        PROVE  InUse(i)' <= PoolMax
    BY <1>0, <2>2, EndGivesBack, GivesBack
  <2> QED
    BY <1>2, <2>1, <2>2 DEF Lookup
<1>3. ASSUME NEW r \in Requests, Enter(r)
      PROVE  InUse(i)' <= PoolMax
  <2>1. Workers(i)' \subseteq Workers(i) \union {r} /\ Holders(i)' \subseteq Holders(i)
    BY <1>3 DEF Enter, TypeOK, Holders, Workers, Keyed
  <2>2. Workers(i)' \subseteq Workers(i) \/ at[r] = i
    BY <1>3 DEF Enter, TypeOK, Workers
  <2> QED
    BY <1>0, <1>3, <2>1, <2>2, TakeOneToWork DEF Enter
<1>4. ASSUME NEW r \in Requests, Handle(r)
      PROVE  InUse(i)' <= PoolMax
  <2>1. Holders(i)' \subseteq Holders(i) /\ Workers(i)' \subseteq Workers(i)
    BY <1>4 DEF Handle, TypeOK, Holders, Workers, Keyed
  <2> QED
    BY <1>0, <2>1, GivesBack
<1>5. ASSUME NEW r \in Requests, Store(r) \/ Timeout(r)
      PROVE  InUse(i)' <= PoolMax
  <2>1. \E a : End(r, a)
    BY <1>5 DEF Store, Timeout
  <2> QED
    BY <1>0, <2>1, EndGivesBack, GivesBack
<1>6. ASSUME NEW j \in Instances, Crash(j)
      PROVE  InUse(i)' <= PoolMax
  <2>1. Holders(i)' \subseteq Holders(i) /\ Workers(i)' \subseteq Workers(i)
    BY <1>6 DEF Crash, TypeOK, Holders, Workers, Keyed
  <2> QED
    BY <1>0, <2>1, GivesBack
<1>7. CASE UNCHANGED vars
  BY <1>0, <1>7 DEF vars, InUse, Holders, Workers, Keyed
<1> QED
  BY <1>1, <1>2, <1>3, <1>4, <1>5, <1>6, <1>7 DEF Next

(* No instance ever uses more connections than its pool has: the lookup's  *)
(* and the handler's session are never taken out of a full pool.           *)
THEOREM PoolNeverExceeded == Spec => []PoolBounded
<1>1. Init => PoolBounded
  <2> SUFFICES ASSUME Init, NEW i \in Instances
               PROVE  InUse(i) <= PoolMax
    BY DEF PoolBounded
  <2>1. Holders(i) = {} /\ Workers(i) = {}
    BY ConstantsAssumption DEF Init, Holders, Workers
  <2> QED
    BY <2>1, FS_EmptySet, ConstantsAssumption DEF InUse
<1>2. TypeOK /\ PoolBounded /\ [Next]_vars => PoolBounded'
  BY NextPool
<1> QED
  BY <1>1, <1>2, TypeCorrect, PTL DEF Spec
-----------------------------------------------------------------------------
(* The answers.  Each conjunct of the invariant is kept by a step that     *)
(* changes neither what is stored nor an answer, and loses no effect.      *)
LEMMA QuietKeeps ==
    ASSUME StoredIsWritten, AnswersAreStored,
           store' = store, answer' = answer, effects \subseteq effects'
    PROVE  StoredIsWritten' /\ AnswersAreStored'
  BY DEF StoredIsWritten, AnswersAreStored, Definitive

(* A request ends with an answer that is no response, with the stored one  *)
(* for the same body, or, without a key, with its own.                     *)
Deserves(r, a) ==
    a.status \in Statuses =>
        IF Keyed(r) THEN store[KeyOf[r]] = [print |-> PrintOf[r], response |-> a]
                    ELSE a.by = r /\ (a.status = "ok" => r \in effects)

LEMMA EndKeeps ==
    ASSUME TypeOK, StoredIsWritten, AnswersAreStored, OkIsCommitted,
           NEW r \in Requests, NEW a, End(r, a), Deserves(r, a),
           store' = store, effects' = effects
    PROVE  StoredIsWritten' /\ AnswersAreStored' /\ OkIsCommitted'
<1>1. answer' = [answer EXCEPT ![r] = a] /\ result' = [result EXCEPT ![r] = "none"]
  BY DEF End
<1>2. AnswersAreStored'
  <2> SUFFICES ASSUME NEW s \in Requests, Definitive(s)'
               PROVE  IF Keyed(s) THEN store[KeyOf[s]] = [print |-> PrintOf[s], response |-> answer'[s]]
                                  ELSE answer'[s].by = s /\ (answer'[s].status = "ok" => s \in effects)
    BY DEF AnswersAreStored, Keyed
  <2>1. CASE s = r
    BY <1>1, <2>1 DEF TypeOK, Deserves, Definitive
  <2>2. CASE s # r
    BY <1>1, <2>2 DEF TypeOK, AnswersAreStored, Definitive
  <2> QED
    BY <2>1, <2>2
<1>3. StoredIsWritten'
  BY DEF StoredIsWritten
<1>4. OkIsCommitted'
  BY <1>1 DEF OkIsCommitted, TypeOK
<1> QED
  BY <1>2, <1>3, <1>4

(* The key is stored for the first time: nobody had an answer under it.    *)
LEMMA StoreKeeps ==
    ASSUME IInv, NEW r \in Requests, Caches(r), ~Hit(r),
           store' = [store EXCEPT ![KeyOf[r]] = [print |-> PrintOf[r], response |-> Written(r)]],
           NEW a \in {Written(r), Lost}, End(r, a), effects' = effects
    PROVE  StoredIsWritten' /\ AnswersAreStored' /\ OkIsCommitted'
<1> DEFINE e == [print |-> PrintOf[r], response |-> Written(r)]
<1>1. Keyed(r) /\ KeyOf[r] \in Keys /\ store \in [Keys -> Entry \union {NoEntry}]
  BY EntryType DEF IInv, TypeOK, Caches
<1>2. Written(r) = [status |-> result[r], by |-> r]
  BY WrittenType
<1>3. Written(r).status = "ok" => r \in effects
  BY <1>2 DEF IInv, OkIsCommitted
<1>4. store'[KeyOf[r]] = e /\ \A k \in Keys \ {KeyOf[r]} : store'[k] = store[k]
  BY <1>1
<1>5. StoredIsWritten'
  BY <1>2, <1>3, <1>4 DEF StoredIsWritten, IInv
<1>6. answer' = [answer EXCEPT ![r] = a] /\ result' = [result EXCEPT ![r] = "none"]
  BY DEF End
<1>7. AnswersAreStored'
  <2> SUFFICES ASSUME NEW s \in Requests, Definitive(s)'
               PROVE  IF Keyed(s) THEN store'[KeyOf[s]] = [print |-> PrintOf[s], response |-> answer'[s]]
                                  ELSE answer'[s].by = s /\ (answer'[s].status = "ok" => s \in effects)
    BY DEF AnswersAreStored, Keyed
  <2>1. CASE s = r
    <3>1. answer'[r] = a /\ a = Written(r)
      BY <1>6, <2>1 DEF IInv, TypeOK, Definitive, Lost, Statuses
    <3> QED
      BY <1>1, <1>4, <2>1, <3>1
  <2>2. CASE s # r
    <3>1. answer'[s] = answer[s] /\ Definitive(s)
      BY <1>6, <2>2 DEF IInv, TypeOK, Definitive
    <3>2. Keyed(s) => store[KeyOf[s]] = [print |-> PrintOf[s], response |-> answer[s]] /\ KeyOf[s] \in Keys
      BY <3>1, EntryType DEF IInv, AnswersAreStored
    <3>3. Keyed(s) => store[KeyOf[s]] # NoEntry
      BY <3>1, <3>2 DEF Definitive, NoEntry, NoAnswer, Statuses
    <3>4. Keyed(s) => KeyOf[s] # KeyOf[r]
      BY <3>3 DEF Hit
    <3> QED
      BY <1>4, <3>1, <3>2, <3>4 DEF IInv, AnswersAreStored
  <2> QED
    BY <2>1, <2>2
<1>8. OkIsCommitted'
  BY <1>6 DEF IInv, OkIsCommitted, TypeOK
<1> QED
  BY <1>5, <1>7, <1>8

LEMMA InitIInv == Init => IInv
<1> SUFFICES ASSUME Init
             PROVE  IInv
  OBVIOUS
<1>1. TypeOK
  BY InitType
<1>2. StoredIsWritten /\ AnswersAreStored /\ OkIsCommitted
  BY DEF Init, StoredIsWritten, AnswersAreStored, OkIsCommitted, Definitive, NoAnswer, Statuses
<1> QED
  BY <1>1, <1>2 DEF IInv

LEMMA NextIInv == IInv /\ [Next]_vars => IInv'
<1> SUFFICES ASSUME IInv, [Next]_vars
             PROVE  StoredIsWritten' /\ AnswersAreStored' /\ OkIsCommitted'
  BY NextType DEF IInv
<1> USE DEF IInv
<1>1. ASSUME NEW r \in Requests, NEW i \in Instances, Arrive(r, i)
      PROVE  StoredIsWritten' /\ AnswersAreStored' /\ OkIsCommitted'
  <2>1. StoredIsWritten' /\ AnswersAreStored'
    BY <1>1, QuietKeeps DEF Arrive
  <2>2. OkIsCommitted'
    BY <1>1 DEF Arrive, Proceed, OkIsCommitted, TypeOK
  <2> QED
    BY <2>1, <2>2
<1>2. ASSUME NEW r \in Requests, Lookup(r)
      PROVE  StoredIsWritten' /\ AnswersAreStored' /\ OkIsCommitted'
  <2>1. CASE Miss(r)
    <3>1. StoredIsWritten' /\ AnswersAreStored'
      BY <1>2, <2>1, QuietKeeps DEF Lookup, Miss
    <3>2. OkIsCommitted'
      BY <1>2, <2>1 DEF Lookup, Miss, Proceed, OkIsCommitted, TypeOK
    <3> QED
      BY <3>1, <3>2
  <2>2. CASE Hit(r) /\ store[KeyOf[r]].print = PrintOf[r] /\ End(r, store[KeyOf[r]].response)
    <3>1. Keyed(r)
      BY <1>2 DEF Lookup, TypeOK
    <3>2. store[KeyOf[r]] \in Entry
      BY <2>2, <3>1, EntryType
    <3>3. Deserves(r, store[KeyOf[r]].response)
      BY <2>2, <3>1, <3>2 DEF Deserves, Entry
    <3> QED
      BY <1>2, <2>2, <3>3, EndKeeps DEF Lookup
  <2>3. CASE End(r, Reused)
    BY <1>2, <2>3, EndKeeps DEF Lookup, Deserves, Reused, Statuses
  <2> QED
    BY <1>2, <2>1, <2>2, <2>3 DEF Lookup
<1>3. ASSUME NEW r \in Requests, Enter(r)
      PROVE  StoredIsWritten' /\ AnswersAreStored' /\ OkIsCommitted'
  BY <1>3, QuietKeeps DEF Enter, OkIsCommitted
<1>4. ASSUME NEW r \in Requests, Handle(r)
      PROVE  StoredIsWritten' /\ AnswersAreStored' /\ OkIsCommitted'
  <2>1. StoredIsWritten' /\ AnswersAreStored'
    BY <1>4, QuietKeeps DEF Handle
  <2>2. OkIsCommitted'
    BY <1>4 DEF Handle, OkIsCommitted, TypeOK
  <2> QED
    BY <2>1, <2>2
<1>5. ASSUME NEW r \in Requests, Store(r)
      PROVE  StoredIsWritten' /\ AnswersAreStored' /\ OkIsCommitted'
  <2>1. CASE ~Caches(r) /\ End(r, Written(r)) /\ UNCHANGED store
    <3>1. Deserves(r, Written(r))
      BY <2>1, WrittenType DEF Deserves, Caches, OkIsCommitted
    <3> QED
      BY <1>5, <2>1, <3>1, EndKeeps DEF Store
  <2>2. CASE /\ Caches(r) /\ ~Hit(r)
             /\ store' = [store EXCEPT ![KeyOf[r]] = [print |-> PrintOf[r], response |-> Written(r)]]
             /\ \E a \in {Written(r), Lost} : End(r, a)
    BY <1>5, <2>2, StoreKeeps DEF Store
  <2>3. CASE End(r, Failed) /\ UNCHANGED store
    BY <1>5, <2>3, EndKeeps DEF Store, Deserves, Failed, Statuses
  <2> QED
    BY <1>5, <2>1, <2>2, <2>3 DEF Store
<1>6. ASSUME NEW r \in Requests, Timeout(r)
      PROVE  StoredIsWritten' /\ AnswersAreStored' /\ OkIsCommitted'
  BY <1>6, EndKeeps DEF Timeout, Deserves, Failed, Statuses
<1>7. ASSUME NEW i \in Instances, Crash(i)
      PROVE  StoredIsWritten' /\ AnswersAreStored' /\ OkIsCommitted'
  <2>1. StoredIsWritten' /\ OkIsCommitted'
    BY <1>7 DEF Crash, StoredIsWritten, OkIsCommitted, TypeOK
  <2>2. \A r \in Requests : Definitive(r)' => Definitive(r) /\ answer'[r] = answer[r]
    BY <1>7 DEF Crash, Definitive, Lost, Statuses, TypeOK
  <2>3. AnswersAreStored'
    BY <1>7, <2>2 DEF Crash, AnswersAreStored
  <2> QED
    BY <2>1, <2>3
<1>8. CASE UNCHANGED vars
  BY <1>8, QuietKeeps DEF vars, OkIsCommitted
<1> QED
  BY <1>1, <1>2, <1>3, <1>4, <1>5, <1>6, <1>7, <1>8 DEF Next

(* What is stored was written and committed by a request with that key and *)
(* body, and every definitive answer is what is stored.                    *)
THEOREM Invariance == Spec => []IInv
<1>1. Init => IInv
  BY InitIInv
<1>2. IInv /\ [Next]_vars => IInv'
  BY NextIInv
<1> QED
  BY <1>1, <1>2, PTL DEF Spec

(* However deliveries of one key overlap, fail or are lost, those that get *)
(* a response get the same one.                                            *)
THEOREM OneAnswerEver == Spec => []OneAnswer
<1>1. IInv => OneAnswer
  <2> SUFFICES ASSUME IInv, NEW r \in Requests, NEW s \in Requests,
                      SameKey(r, s), Definitive(r), Definitive(s)
               PROVE  answer[r] = answer[s] /\ PrintOf[r] = PrintOf[s]
    BY DEF OneAnswer
  <2>1. Keyed(r) /\ Keyed(s) /\ KeyOf[r] = KeyOf[s]
    BY DEF SameKey, Keyed
  <2>2. [print |-> PrintOf[r], response |-> answer[r]] = [print |-> PrintOf[s], response |-> answer[s]]
    BY <2>1 DEF IInv, AnswersAreStored
  <2> QED
    BY <2>2
<1> QED
  BY <1>1, Invariance, PTL

(* Whoever is told of success can rely on a committed effect.              *)
THEOREM SuccessIsAlwaysReal == Spec => []SuccessIsReal
<1>1. IInv => SuccessIsReal
  <2> SUFFICES ASSUME IInv, NEW r \in Requests, answer[r].status = "ok"
               PROVE  /\ answer[r].by \in effects
                      /\ PrintOf[answer[r].by] = PrintOf[r]
                      /\ answer[r].by = r \/ SameKey(r, answer[r].by)
    BY DEF SuccessIsReal
  <2>1. Definitive(r)
    BY DEF Definitive, Statuses
  <2>2. CASE Keyed(r)
    <3>1. /\ store[KeyOf[r]] = [print |-> PrintOf[r], response |-> answer[r]]
          /\ KeyOf[r] \in Keys
      BY <2>1, <2>2, EntryType DEF IInv, AnswersAreStored
    <3>2. store[KeyOf[r]] # NoEntry
      BY <3>1 DEF NoEntry, NoAnswer
    <3> QED
      BY <2>2, <3>1, <3>2 DEF IInv, StoredIsWritten, SameKey
  <2>3. CASE ~Keyed(r)
    BY <2>1, <2>3 DEF IInv, AnswersAreStored
  <2> QED
    BY <2>2, <2>3
<1> QED
  BY <1>1, Invariance, PTL

(* Once a client has its answer, later deliveries do not reach a handler.  *)
THEOREM AnswersAreFinal == Spec => AnswerIsFinal
<1> DEFINE Final == \A r, s \in Requests :
              (SameKey(r, s) /\ Definitive(s) /\ pc[r] = "waiting") => pc'[r] \in {"waiting", "done"}
<1>1. IInv /\ [Next]_vars => Final
  <2> SUFFICES ASSUME IInv, [Next]_vars, NEW r \in Requests, NEW s \in Requests,
                      SameKey(r, s), Definitive(s), pc[r] = "waiting"
               PROVE  pc'[r] \in {"waiting", "done"}
    OBVIOUS
  <2>1. Keyed(r) /\ Keyed(s) /\ KeyOf[r] = KeyOf[s]
    BY DEF SameKey, Keyed
  <2>2. store[KeyOf[r]].response = answer[s]
    <3>1. store[KeyOf[s]] = [print |-> PrintOf[s], response |-> answer[s]]
      BY <2>1 DEF IInv, AnswersAreStored
    <3> QED
      BY <2>1, <3>1
  <2>3. Hit(r)
    BY <2>2 DEF Hit, NoEntry, NoAnswer, Definitive, Statuses
  <2>4. ASSUME NEW q \in Requests, NEW a, End(q, a)
        PROVE  pc'[r] \in {"waiting", "done"}
    BY <2>4 DEF IInv, TypeOK, End
  <2>5. ASSUME NEW q \in Requests, Lookup(q)
        PROVE  pc'[r] \in {"waiting", "done"}
    BY <2>3, <2>4, <2>5 DEF Lookup, Miss, Proceed, IInv, TypeOK
  <2>6. ASSUME NEW q \in Requests, Store(q) \/ Timeout(q)
        PROVE  pc'[r] \in {"waiting", "done"}
    BY <2>4, <2>6 DEF Store, Timeout
  <2>7. ASSUME NEW q \in Requests, NEW i \in Instances, Arrive(q, i)
        PROVE  pc'[r] \in {"waiting", "done"}
    BY <2>7 DEF Arrive, Proceed, IInv, TypeOK
  <2>8. ASSUME NEW q \in Requests, Enter(q) \/ Handle(q)
        PROVE  pc'[r] \in {"waiting", "done"}
    BY <2>8 DEF Enter, Handle, IInv, TypeOK
  <2>9. ASSUME NEW i \in Instances, Crash(i)
        PROVE  pc'[r] \in {"waiting", "done"}
    BY <2>9 DEF Crash
  <2>10. CASE UNCHANGED vars
    BY <2>10 DEF vars
  <2> QED
    BY <2>5, <2>6, <2>7, <2>8, <2>9, <2>10 DEF Next
<1> QED
  BY <1>1, Invariance, PTL DEF Spec, AnswerIsFinal
-----------------------------------------------------------------------------
(* The promise of KeyedWrites, action by action.                           *)
LEMMA InitNotYet == Init => NotYet
  BY DEF Init, NotYet, Running

LEMMA EndNotYet ==
    ASSUME TypeOK, NotYet, NEW r \in Requests, NEW a, End(r, a), effects' = effects
    PROVE  NotYet'
  BY DEF End, TypeOK, NotYet, Running

LEMMA NextNotYet == TypeOK /\ NotYet /\ [Next]_vars => NotYet'
<1> SUFFICES ASSUME TypeOK, NotYet, [Next]_vars
             PROVE  NotYet'
  OBVIOUS
<1>1. ASSUME NEW r \in Requests, NEW i \in Instances, Arrive(r, i)
      PROVE  NotYet'
  BY <1>1 DEF Arrive, Proceed, TypeOK, NotYet, Running
<1>2. ASSUME NEW r \in Requests, Lookup(r)
      PROVE  NotYet'
  <2>1. CASE Miss(r)
    BY <1>2, <2>1 DEF Lookup, Miss, Proceed, TypeOK, NotYet, Running
  <2> QED
    BY <1>2, <2>1, EndNotYet DEF Lookup
<1>3. ASSUME NEW r \in Requests, Enter(r) \/ Handle(r)
      PROVE  NotYet'
  BY <1>3 DEF Enter, Handle, TypeOK, NotYet, Running
<1>4. ASSUME NEW r \in Requests, Store(r) \/ Timeout(r)
      PROVE  NotYet'
  BY <1>4, EndNotYet DEF Store, Timeout
<1>5. ASSUME NEW i \in Instances, Crash(i)
      PROVE  NotYet'
  BY <1>5, ConstantsAssumption DEF Crash, TypeOK, NotYet, Running
<1>6. CASE UNCHANGED vars
  BY <1>6 DEF vars, NotYet, Running
<1> QED
  BY <1>1, <1>2, <1>3, <1>4, <1>5, <1>6 DEF Next

LEMMA NotYetEver == Spec => []NotYet
<1>1. Init => NotYet
  BY InitNotYet
<1>2. TypeOK /\ NotYet /\ [Next]_vars => NotYet'
  BY NextNotYet
<1> QED
  BY <1>1, <1>2, TypeCorrect, PTL DEF Spec

(* Who ends tells one request, which leaves its handler if it was there.   *)
LEMMA EndTells ==
    ASSUME TypeOK, NotYet, NEW r \in Requests, NEW a, End(r, a), pc[r] # "done"
    PROVE  Promise!Tell({r}, a)
<1>1. answer[r] = NoAnswer
  BY DEF NotYet
<1>2. answer' = [s \in Requests |-> IF s \in {r} THEN a ELSE answer[s]]
  BY DEF End, TypeOK
<1>3. Inside' = Inside \ {r}
  BY DEF End, TypeOK, Inside
<1> QED
  BY <1>1, <1>2, <1>3 DEF Promise!Tell

LEMMA GivesUp ==
    ASSUME TypeOK, NotYet, NEW r \in Requests, NEW a \in {Failed, Lost}, End(r, a), pc[r] # "done",
           UNCHANGED <<effects, store>>
    PROVE  Promise!Next
<1>1. Promise!GiveUp({r})
  BY EndTells DEF Promise!GiveUp
<1>2. {r} \in SUBSET Requests
  OBVIOUS
<1> QED
  BY <1>1, <1>2 DEF Promise!Next

LEMMA ProceedAdmits ==
    ASSUME TypeOK, NotYet, NEW r \in Requests, Proceed(r), pc[r] \in {"new", "waiting"},
           Keyed(r) => ~Hit(r), UNCHANGED <<effects, store, answer>>
    PROVE  Promise!Admit(r)
<1>1. Inside' = Inside \union {r} /\ r \notin Inside
  BY DEF Proceed, TypeOK, Inside
<1>2. answer[r] = NoAnswer
  BY DEF NotYet
<1>3. ~Promise!Closed(r)
  BY DEF Promise!Closed, Promise!HasKey, Keyed, Hit
<1> QED
  BY <1>1, <1>2, <1>3 DEF Promise!Admit

LEMMA LookupStep ==
    ASSUME TypeOK, NotYet, NEW r \in Requests, Lookup(r)
    PROVE  Promise!Next
<1>1. pc[r] = "waiting" /\ Keyed(r) /\ UNCHANGED <<effects, store>>
  BY DEF Lookup, TypeOK
<1>2. CASE Miss(r)
  BY <1>1, <1>2, ProceedAdmits DEF Miss, Promise!Next
<1>3. CASE Hit(r) /\ End(r, IF store[KeyOf[r]].print = PrintOf[r] THEN store[KeyOf[r]].response ELSE Reused)
  <2>1. Promise!Closed(r) /\ r \notin Inside
    BY <1>1, <1>3 DEF Promise!Closed, Promise!HasKey, Keyed, Hit, Inside
  <2>2. Promise!TellAgain(r)
    BY <1>1, <1>3, <2>1, EndTells DEF Promise!TellAgain
  <2> QED
    BY <2>2 DEF Promise!Next
<1> QED
  BY <1>2, <1>3 DEF Lookup

LEMMA StoreStep ==
    ASSUME TypeOK, NotYet, OkIsCommitted, NEW r \in Requests, Store(r)
    PROVE  Promise!Next
<1>1. pc[r] = "handled" /\ r \in Inside /\ UNCHANGED effects
  BY DEF Store, Inside
<1>2. ASSUME result[r] \in Statuses
      PROVE  /\ Written(r) = Promise!Own(r, result[r])
             /\ Promise!Earned(r, result[r])
             /\ result[r] \in {"ok", "refused"}
  BY <1>1, <1>2 DEF Written, Statuses, OkIsCommitted, Promise!Own, Promise!Earned
<1>3. CASE ~Caches(r) /\ End(r, Written(r)) /\ UNCHANGED store
  <2>1. CASE result[r] \in Statuses
    <3>1. ~Promise!HasKey(r)
      BY <1>3, <2>1 DEF Caches, Promise!HasKey, Keyed
    <3>2. Promise!TellOwn(r, result[r])
      BY <1>1, <1>2, <1>3, <2>1, <3>1, EndTells DEF Promise!TellOwn
    <3> QED
      BY <1>2, <2>1, <3>2 DEF Promise!Next
  <2>2. CASE result[r] \notin Statuses
    BY <1>1, <1>3, <2>2, GivesUp DEF Written
  <2> QED
    BY <2>1, <2>2
<1>4. CASE /\ Caches(r) /\ ~Hit(r)
           /\ store' = [store EXCEPT ![KeyOf[r]] = [print |-> PrintOf[r], response |-> Written(r)]]
           /\ \E a \in {Written(r), Lost} : End(r, a)
  <2>1. Promise!HasKey(r) /\ ~Promise!Closed(r) /\ result[r] \in Statuses
    BY <1>4 DEF Caches, Keyed, Hit, Promise!HasKey, Promise!Closed
  <2>2. \E a \in {Promise!Own(r, result[r]), Lost} : Promise!Tell({r}, a)
    BY <1>1, <1>2, <1>4, <2>1, EndTells
  <2>3. Promise!Close(r, result[r])
    BY <1>1, <1>2, <1>4, <2>1, <2>2 DEF Promise!Close
  <2> QED
    BY <1>2, <2>1, <2>3 DEF Promise!Next
<1>5. CASE End(r, Failed) /\ UNCHANGED store
  BY <1>1, <1>5, GivesUp
<1> QED
  BY <1>3, <1>4, <1>5 DEF Store

LEMMA CrashStep ==
    ASSUME TypeOK, NotYet, NEW i \in Instances, Crash(i)
    PROVE  Promise!Next
<1> DEFINE R == {r \in Requests : at[r] = i}
<1>1. \A r \in R : answer[r] = NoAnswer
  BY ConstantsAssumption DEF NotYet, Running
<1>2. answer' = [r \in Requests |-> IF r \in R THEN Lost ELSE answer[r]]
  BY DEF Crash
<1>3. Inside' = Inside \ R
  BY DEF Crash, Inside
<1>4. R \in SUBSET Requests /\ UNCHANGED <<effects, store>>
  BY DEF Crash
<1> HIDE DEF R
<1>5. Promise!GiveUp(R)
  BY <1>1, <1>2, <1>3, <1>4 DEF Promise!GiveUp, Promise!Tell
<1> QED
  BY <1>4, <1>5 DEF Promise!Next

LEMMA PromiseStep ==
    ASSUME TypeOK, NotYet, OkIsCommitted, [Next]_vars
    PROVE  [Promise!Next]_(Promise!vars)
<1>1. ASSUME NEW r \in Requests, NEW i \in Instances, Arrive(r, i)
      PROVE  Promise!Next \/ UNCHANGED Promise!vars
  <2>1. CASE Keyed(r)
    BY <1>1, <2>1 DEF Arrive, TypeOK, Inside, Promise!vars
  <2>2. CASE ~Keyed(r)
    BY <1>1, <2>2, ProceedAdmits DEF Arrive, Promise!Next
  <2> QED
    BY <2>1, <2>2
<1>2. ASSUME NEW r \in Requests, Enter(r)
      PROVE  UNCHANGED Promise!vars
  BY <1>2 DEF Enter, TypeOK, Inside, Promise!vars
<1>3. ASSUME NEW r \in Requests, Handle(r)
      PROVE  Promise!Next \/ UNCHANGED Promise!vars
  <2>1. Inside' = Inside /\ r \in Inside /\ r \notin effects /\ UNCHANGED <<store, answer>>
    BY <1>3 DEF Handle, TypeOK, Inside, NotYet
  <2>2. CASE effects' = effects \union {r}
    BY <2>1, <2>2 DEF Promise!TakeEffect, Promise!Next
  <2>3. CASE UNCHANGED effects
    BY <2>1, <2>3 DEF Promise!vars
  <2> QED
    BY <1>3, <2>2, <2>3 DEF Handle
<1>4. ASSUME NEW r \in Requests, Timeout(r)
      PROVE  Promise!Next
  BY <1>4, GivesUp DEF Timeout
<1>5. CASE UNCHANGED vars
  BY <1>5 DEF vars, Inside, Promise!vars
<1> QED
  BY <1>1, <1>2, <1>3, <1>4, <1>5, LookupStep, StoreStep, CrashStep DEF Next

(* However deliveries overlap, wait for connections, time out or are cut   *)
(* off by a crash, the middleware keeps the promise of KeyedWrites.        *)
THEOREM Implementation == Spec => KeepsTheKeys
<1>1. Init => Promise!Init
  BY DEF Init, Inside, Promise!Init
<1>2. IInv /\ NotYet /\ [Next]_vars => [Promise!Next]_(Promise!vars)
  BY PromiseStep DEF IInv
<1> QED
  BY <1>1, <1>2, Invariance, NotYetEver, PTL DEF Spec, KeepsTheKeys, Promise!Spec
=============================================================================
