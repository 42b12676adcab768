--------------------------- MODULE ReadPathProofs ---------------------------
(***************************************************************************)
(* Proofs about the copies kept of what others know: those on the read     *)
(* path, module ReadPath, for any number of requests, any lifetimes of the *)
(* copies and any number of key rotations; and the live rows kept of the   *)
(* streaming platforms, module LiveStreams, for any entries, channels,     *)
(* titles and links.                                                       *)
(***************************************************************************)
EXTENDS ReadPath, LiveStreams, TLAPS

-----------------------------------------------------------------------------
(* Lags and ages.                                                          *)
LEMMA Numbers ==
    /\ EdgeTTL \in Nat /\ NamesTTL \in Nat /\ UsersTTL \in Nat /\ Flight \in Nat /\ MaxLag \in Nat
    /\ EdgeTTL > 0 /\ NamesTTL > 0 /\ UsersTTL > 0 /\ MaxLag > 0
    /\ NamesTTL < MaxLag /\ UsersTTL < MaxLag
    /\ None \notin Nat /\ NoToken \notin Nat /\ Spoilt \notin Nat /\ Foreign \notin Nat
  BY ConstantsAssumption

(* A lag that grows stays a lag, and grows by one at most. *)
LEMMA OlderBy ==
    ASSUME NEW n \in Lag \union {None}
    PROVE  /\ Older(n) \in Lag \union {None}
           /\ Older(n) = None <=> n = None
           /\ n # None => n \in Nat /\ Older(n) \in Lag /\ Older(n) \in Nat /\ Older(n) <= n + 1
  BY Numbers DEF Lag, Older

(* A copy that is true when its source changes begins to lag. *)
LEMMA OutdatedBy ==
    ASSUME NEW n \in Lag \union {None}
    PROVE  /\ Outdated(n) \in Lag \union {None}
           /\ Outdated(n) = None <=> n = None
           /\ n # None => /\ n \in Nat /\ Outdated(n) \in Lag /\ Outdated(n) \in Nat
                          /\ Outdated(n) <= n \/ Outdated(n) = 1
  BY Numbers DEF Lag, Outdated

LEMMA LongerBy ==
    ASSUME NEW n \in Lag
    PROVE  /\ n \in Nat /\ Longer(n) \in Lag /\ Longer(n) \in Nat
           /\ Longer(n) = n + 1 \/ (n = MaxLag /\ Longer(n) = MaxLag)
  BY Numbers DEF Lag, Longer

LEMMA LagType == \A n \in Lag : n \in Nat /\ n <= MaxLag
  BY Numbers DEF Lag

-----------------------------------------------------------------------------
(* Types.                                                                  *)
LEMMA InitType == Init => TypeOK
<1> SUFFICES ASSUME Init
             PROVE  TypeOK
  OBVIOUS
<1>1. Unsent \in Request
  BY Numbers DEF Unsent, Request, Pcs, Token
<1>2. asked \subseteq {"stats", "owners"}
  BY ConstantsAssumption DEF Init
<1> QED
  BY <1>1, <1>2 DEF Init, TypeOK

LEMMA UnsentType == Unsent \in Request
  BY Numbers DEF Unsent, Request, Pcs, Token

(* Only one request changes, to what is put there. *)
LEMMA PutType ==
    ASSUME TypeOK, NEW r \in Requests, NEW q \in Request, Put(r, q)
    PROVE  req' \in [Requests -> Request]
  BY DEF TypeOK, Put

LEMMA GotoType ==
    ASSUME TypeOK, NEW r \in Requests, NEW pc \in Pcs, Goto(r, pc)
    PROVE  req' \in [Requests -> Request]
<1>1. [req[r] EXCEPT !.pc = pc] \in Request
  BY DEF TypeOK, Request
<1> QED
  BY <1>1, PutType DEF Goto

(* A request with some of its fields replaced. *)
LEMMA FieldTypes ==
    ASSUME NEW q \in Request, NEW pc \in Pcs, NEW n \in Lag \union {None}, NEW k \in Nat \union {None}
    PROVE  /\ [q EXCEPT !.pc = pc, !.key = k] \in Request
           /\ [q EXCEPT !.table = n, !.pc = pc] \in Request
           /\ [q EXCEPT !.names = n, !.pc = pc] \in Request
           /\ [q EXCEPT !.users = n, !.pc = pc] \in Request
  BY DEF Request

LEMMA VerdictType ==
    ASSUME NEW t, NEW k, NEW pc
    PROVE  Verdict(t, k, pc) \in {"refused", "table", "refetch"}
  BY DEF Verdict, OnMismatch

(* The world. *)
LEMMA WorldType ==
    ASSUME TypeOK, ChangeTable \/ ChangeNames \/ ChangeUsers \/ Rotate \/ Pass \/ Recycle
    PROVE  TypeOK'
<1>1. ASSUME NEW r \in Requests
      PROVE  /\ [req[r] EXCEPT !.table = Outdated(@)] \in Request
             /\ [req[r] EXCEPT !.names = Outdated(@)] \in Request
             /\ [req[r] EXCEPT !.users = Outdated(@)] \in Request
  BY OutdatedBy DEF TypeOK, Request
<1>2. edge # None => /\ [edge EXCEPT !.table = Outdated(@)] \in [table : Lag, names : Lag, left : 1..EdgeTTL]
                     /\ [edge EXCEPT !.names = Outdated(@)] \in [table : Lag, names : Lag, left : 1..EdgeTTL]
  BY OutdatedBy, LagType, Numbers DEF TypeOK
<1>3. \A copy \in Copy : [copy EXCEPT !.lag = Outdated(@)] \in Copy
  BY OutdatedBy, LagType, Numbers DEF Copy
<1>4. CASE ChangeTable
  BY <1>4, <1>1, <1>2 DEF ChangeTable, TypeOK
<1>5. CASE ChangeNames
  BY <1>5, <1>1, <1>2, <1>3 DEF ChangeNames, TypeOK
<1>6. CASE ChangeUsers
  BY <1>6, <1>1, <1>3 DEF ChangeUsers, TypeOK
<1>7. CASE Rotate
  BY <1>7 DEF Rotate, TypeOK, caches
<1>8. CASE Pass
  <2>1. ASSUME NEW r \in Requests
        PROVE  req'[r] \in Request
    <3>1. CASE At(r, {"new"})
      <4>1. req'[r] = req[r]
        BY <1>8, <3>1 DEF Pass
      <4> QED
        BY <4>1 DEF TypeOK
    <3>2. CASE ~At(r, {"new"})
      <4>1. req[r].age + 1 \in 0..Flight
        <5>1. req[r].age < Flight
          BY <1>8, <3>2 DEF Pass
        <5>2. req[r].age \in 0..Flight
          BY DEF TypeOK, Request
        <5> QED
          BY <5>1, <5>2, Numbers
      <4>2. /\ Older(req[r].table) \in Lag \union {None}
            /\ Older(req[r].names) \in Lag \union {None}
            /\ Older(req[r].users) \in Lag \union {None}
        BY OlderBy DEF TypeOK, Request
      <4>3. req'[r] = [req[r] EXCEPT !.age = @ + 1, !.table = Older(@),
                                     !.names = Older(@), !.users = Older(@)]
        BY <1>8, <3>2 DEF Pass
      <4> QED
        BY <4>1, <4>2, <4>3 DEF TypeOK, Request
    <3> QED
      BY <3>1, <3>2
  <2>2. req' \in [Requests -> Request]
    BY <2>1, <1>8 DEF Pass
  <2>3. edge' \in [table : Lag, names : Lag, left : 1..EdgeTTL] \union {None}
    <3>1. CASE edge = None \/ edge.left = 1
      BY <1>8, <3>1 DEF Pass
    <3>2. CASE ~(edge = None \/ edge.left = 1)
      <4>1. edge \in [table : Lag, names : Lag, left : 1..EdgeTTL]
        BY <3>2 DEF TypeOK
      <4>2. edge.left - 1 \in 1..EdgeTTL
        BY <4>1, <3>2, Numbers
      <4>3. Older(edge.table) \in Lag /\ Older(edge.names) \in Lag
        BY <4>1, OlderBy, LagType, Numbers
      <4> QED
        BY <1>8, <3>2, <4>2, <4>3 DEF Pass
    <3> QED
      BY <3>1, <3>2
  <2>4. \A copy \in Copy : [lag |-> Older(copy.lag), age |-> Longer(copy.age)] \in Copy
    BY OlderBy, LongerBy, LagType, Numbers DEF Copy
  <2> QED
    BY <1>8, <2>2, <2>3, <2>4 DEF Pass, TypeOK
<1>9. CASE Recycle
  BY <1>9, UnsentType DEF Recycle, TypeOK
<1> QED
  BY <1>4, <1>5, <1>6, <1>7, <1>8, <1>9

LEMMA ArriveType ==
    ASSUME TypeOK, NEW r \in Requests, NEW route \in asked, NEW cookie \in Tokens(route),
           Arrive(r, route, cookie)
    PROVE  TypeOK'
<1> DEFINE sent == [Unsent EXCEPT !.route = route, !.token = cookie]
           hit  == [sent EXCEPT !.pc = "hit", !.table = edge.table, !.names = edge.names,
                                !.outdated = edge.table > 0]
           pass == [sent EXCEPT !.pc = IF route = "owners" THEN "verify" ELSE "table"]
<1>1. sent \in Request
  <2>1. cookie \in Token
    BY DEF Tokens, Token
  <2>2. route \in {"stats", "owners", None}
    BY DEF TypeOK
  <2> QED
    BY <2>1, <2>2, UnsentType DEF Request
<1>2. EdgeHolds(route, cookie) => hit \in Request
  <2>1. EdgeHolds(route, cookie) => edge \in [table : Lag, names : Lag, left : 1..EdgeTTL]
    BY DEF EdgeHolds, TypeOK
  <2>2. EdgeHolds(route, cookie) => edge.table \in Lag /\ edge.names \in Lag
    BY <2>1
  <2>3. (edge.table > 0) \in BOOLEAN
    OBVIOUS
  <2> QED
    BY <1>1, <2>2, <2>3 DEF Request, Pcs
<1>3. pass \in Request
  BY <1>1 DEF Request, Pcs
<1>4. req' \in [Requests -> Request]
  BY <1>2, <1>3, PutType DEF Arrive
<1> QED
  BY <1>4 DEF Arrive, TypeOK, caches

LEMMA StepType ==
    ASSUME TypeOK, CopiesInTime, NEW r \in Requests, Step(r) \/ Fail(r)
    PROVE  TypeOK'
<1> USE DEF TypeOK
<1>0. /\ req[r] \in Request /\ 0 \in Lag
      /\ req[r].key \in Nat \union {None} /\ req[r].names \in Lag \union {None}
      /\ req[r].users \in Lag \union {None} /\ req[r].table \in Lag \union {None}
  BY Numbers DEF Lag, Request
<1>1. CASE Verify(r)
  <2>1. \E pc \in Pcs : Goto(r, pc)
    BY <1>1, VerdictType DEF Verify, Pcs
  <2> QED
    BY <1>1, <2>1, GotoType DEF Verify, caches
<1>2. CASE FetchKey(r)
  <2>1. \E pc \in Pcs : Put(r, [req[r] EXCEPT !.pc = pc, !.key = published])
    BY <1>2 DEF FetchKey, Pcs
  <2> QED
    BY <1>0, <1>2, <2>1, FieldTypes, PutType DEF FetchKey, caches
<1>3. CASE HaveKey(r)
  <2>1. \E pc \in Pcs : Put(r, [req[r] EXCEPT !.pc = pc, !.key = None])
    BY <1>3, VerdictType DEF HaveKey, Pcs
  <2> QED
    BY <1>0, <1>3, <2>1, FieldTypes, PutType DEF HaveKey
<1>4. CASE ReadTable(r)
  <2>1. \E pc \in Pcs : Put(r, [req[r] EXCEPT !.table = 0, !.pc = pc])
    BY <1>4 DEF ReadTable, Pcs
  <2> QED
    BY <1>0, <1>4, <2>1, FieldTypes, PutType DEF ReadTable, caches
<1>5. CASE TakeNames(r)
  <2>1. names.lag \in Lag
    BY <1>5 DEF TakeNames, NamesFresh, Copy
  <2> QED
    BY <1>0, <1>5, <2>1, FieldTypes, PutType DEF TakeNames, caches, Pcs
<1>6. CASE AwaitLock(r)
  BY <1>6, GotoType DEF AwaitLock, caches, Pcs
<1>7. CASE TakeLock(r)
  BY <1>7, GotoType DEF TakeLock, Pcs
<1>8. CASE QueryNames(r)
  BY <1>0, <1>8, FieldTypes, PutType DEF QueryNames, caches, Pcs
<1>9. CASE StoreNames(r)
  <2>1. req[r].names \in Lag
    BY <1>0, <1>9 DEF StoreNames, CopiesInTime, RequestInTime, At
  <2>2. names' \in Copy
    BY <1>0, <1>9, <2>1 DEF StoreNames, Copy
  <2> QED
    BY <1>9, <2>2, GotoType DEF StoreNames, Pcs
<1>10. CASE TakeUsers(r)
  <2>1. UsersFresh => users.lag \in Lag
    BY DEF UsersFresh, Copy
  <2>2. req' \in [Requests -> Request]
    BY <1>0, <1>10, <2>1, FieldTypes, PutType, GotoType DEF TakeUsers, Pcs
  <2> QED
    BY <1>10, <2>2 DEF TakeUsers, caches
<1>11. CASE Lookup(r)
  BY <1>0, <1>11, FieldTypes, PutType DEF Lookup, caches, Pcs
<1>12. CASE StoreUsers(r)
  <2>1. req[r].users \in Lag
    BY <1>0, <1>12 DEF StoreUsers, CopiesInTime, RequestInTime, At
  <2>2. users' \in Copy
    BY <1>0, <1>12, <2>1 DEF StoreUsers, Copy
  <2> QED
    BY <1>12, <2>2, GotoType DEF StoreUsers, Pcs
<1>13. CASE Answer(r)
  <2>1. At(r, {"reply"}) /\ Header(req[r].route, req[r].token) = "public" =>
            req[r].table \in Lag /\ req[r].names \in Lag
    BY <1>0 DEF CopiesInTime, RequestInTime, At, Header, Admitted
  <2>2. edge' \in [table : Lag, names : Lag, left : 1..EdgeTTL] \union {None}
    BY <1>13, <2>1, Numbers DEF Answer
  <2> QED
    BY <1>13, <2>2, UnsentType, PutType DEF Answer
<1>14. CASE Fail(r)
  <2>1. req' \in [Requests -> Request]
    BY <1>0, <1>14, FieldTypes, PutType, GotoType DEF Fail, Pcs
  <2> QED
    BY <1>14, <2>1 DEF Fail
<1> QED
  BY <1>1, <1>2, <1>3, <1>4, <1>5, <1>6, <1>7, <1>8, <1>9, <1>10, <1>11, <1>12, <1>13, <1>14
     DEF Step

-----------------------------------------------------------------------------
(* Keys.                                                                   *)

(* Only what a request is after with its token matters. *)
LEMMA SameKeys ==
    ASSUME NEW p, NEW q, p.token = q.token, p.pc = q.pc, p.key = q.key, p.route = q.route,
           KeyInOrder(q)
    PROVE  KeyInOrder(p)
  BY DEF KeyInOrder

LEMMA PutKeeps ==
    ASSUME TypeOK, KeysInOrder, NEW r \in Requests, NEW q, Put(r, q), KeyInOrder(q),
           UNCHANGED <<published, key>>
    PROVE  KeysInOrder'
<1>1. ASSUME NEW s \in Requests
      PROVE  KeyInOrder(req'[s])
  BY <1>1 DEF Put, TypeOK, KeysInOrder
<1> QED
  BY <1>1 DEF KeysInOrder, KeyInOrder

LEMMA WorldKeys ==
    ASSUME TypeOK, KeysInOrder, ChangeTable \/ ChangeNames \/ ChangeUsers \/ Rotate \/ Pass \/ Recycle
    PROVE  KeysInOrder'
<1>1. CASE Rotate
  <2>1. published \in Nat /\ published' = published + 1 /\ req' = req /\ key' = key
    BY <1>1 DEF Rotate, TypeOK, caches
  <2>2. ASSUME NEW r \in Requests
        PROVE  KeyInOrder(req[r])'
    <3>1. req[r].token \in Token /\ req[r].key \in Nat \union {None}
      BY DEF TypeOK, Request
    <3>2. KeyInOrder(req[r])
      BY DEF KeysInOrder
    <3> QED
      BY <2>1, <3>1, <3>2, Numbers DEF KeyInOrder, Token
  <2> QED
    BY <2>1, <2>2, Numbers DEF KeysInOrder, TypeOK
<1>2. CASE Recycle
  <2>1. KeyInOrder(Unsent)
    BY Numbers DEF KeyInOrder, Unsent, Admitted
  <2> QED
    BY <1>2, <2>1, Numbers DEF Recycle, KeysInOrder, KeyInOrder
<1>3. CASE ChangeTable \/ ChangeNames \/ ChangeUsers \/ Pass
  <2>1. ASSUME NEW r \in Requests
        PROVE  KeyInOrder(req'[r])
    <3>1. /\ req'[r].token = req[r].token /\ req'[r].pc = req[r].pc
          /\ req'[r].key = req[r].key /\ req'[r].route = req[r].route
      <4>1. req[r] \in Request
        BY DEF TypeOK
      <4>2. CASE ChangeTable
        BY <4>1, <4>2 DEF ChangeTable, Request
      <4>3. CASE ChangeNames
        BY <4>1, <4>3 DEF ChangeNames, Request
      <4>4. CASE ChangeUsers
        BY <4>1, <4>4 DEF ChangeUsers, Request
      <4>5. CASE Pass
        BY <4>1, <4>5 DEF Pass, Request
      <4> QED
        BY <1>3, <4>2, <4>3, <4>4, <4>5
    <3> QED
      BY <3>1, SameKeys DEF KeysInOrder
  <2>2. UNCHANGED <<published, key>>
    BY <1>3 DEF ChangeTable, ChangeNames, ChangeUsers, Pass
  <2> QED
    BY <2>1, <2>2 DEF KeysInOrder, KeyInOrder
<1> QED
  BY <1>1, <1>2, <1>3

LEMMA ArriveKeys ==
    ASSUME TypeOK, KeysInOrder, NEW r \in Requests, NEW route \in asked,
           NEW cookie \in Tokens(route), Arrive(r, route, cookie)
    PROVE  KeysInOrder'
<1> DEFINE sent == [Unsent EXCEPT !.route = route, !.token = cookie]
           hit  == [sent EXCEPT !.pc = "hit", !.table = edge.table, !.names = edge.names,
                                !.outdated = edge.table > 0]
           pass == [sent EXCEPT !.pc = IF route = "owners" THEN "verify" ELSE "table"]
<1>1. cookie \in Nat => cookie <= published
  BY Numbers DEF Tokens, TypeOK
<1>2. KeyInOrder(hit)
  BY <1>1 DEF KeyInOrder, Unsent, Admitted
<1>3. KeyInOrder(pass)
  BY <1>1 DEF KeyInOrder, Unsent, Admitted
<1>4. UNCHANGED <<published, key>>
  BY DEF Arrive, caches
<1> QED
  BY <1>2, <1>3, <1>4, PutKeeps DEF Arrive

LEMMA StepKeys ==
    ASSUME TypeOK, KeysInOrder, NEW r \in Requests, Step(r) \/ Fail(r)
    PROVE  KeysInOrder'
<1> DEFINE q == req[r]
<1>0. /\ q \in Request /\ KeyInOrder(q) /\ q.token \in Token /\ published \in Nat
      /\ q.key \in Nat \union {None}
  BY DEF TypeOK, KeysInOrder, Request
<1>1. CASE Verify(r)
  <2> DEFINE pc == IF q.token = NoToken THEN "refused"
                   ELSE IF key = None THEN "fetch"
                   ELSE Verdict(q.token, key, "verify")
  <2>1. key # None => key \in Nat /\ key <= published
    BY DEF KeysInOrder, TypeOK
  <2>2. q.pc = "verify"
    BY <1>1 DEF Verify, At
  <2>3. KeyInOrder([q EXCEPT !.pc = pc])
    BY <1>0, <2>1, <2>2, Numbers DEF KeyInOrder, Verdict, OnMismatch, Admitted, Token, Request
  <2> QED
    BY <1>1, <2>3, PutKeeps DEF Verify, Goto, caches
<1>2. CASE FetchKey(r)
  <2> DEFINE p == [q EXCEPT !.pc = IF @ = "fetch" THEN "first" ELSE "second", !.key = published]
  <2>1. KeyInOrder(p)
    BY <1>0 DEF KeyInOrder, Admitted, Request
  <2> QED
    BY <1>2, <2>1, PutKeeps DEF FetchKey, caches
<1>3. CASE HaveKey(r)
  <2> DEFINE p == [q EXCEPT !.pc = Verdict(q.token, q.key, @), !.key = None]
  <2>1. q.key \in 0..published /\ (q.token \in Nat => q.token <= q.key)
    BY <1>0, <1>3 DEF HaveKey, At, KeyInOrder
  <2>2. KeyInOrder(p)
    <3>1. CASE q.token = Spoilt
      <4>1. Verdict(q.token, q.key, q.pc) = "refused" /\ q.token \notin Nat
        BY <2>1, <3>1, Numbers DEF Verdict
      <4>2. p.pc = "refused" /\ p.token = q.token /\ p.token \notin Nat
        BY <1>0, <4>1 DEF Request
      <4> QED
        BY <4>2 DEF KeyInOrder, Admitted
    <3>2. CASE q.token = q.key
      BY <1>0, <2>1, <3>2, Numbers DEF KeyInOrder, Verdict, Admitted, Request
    <3>3. CASE q.token # Spoilt /\ q.token # q.key
      <4>1. q.token \in Nat => q.token < published
        BY <1>0, <2>1, <3>3
      <4> QED
        BY <1>0, <3>3, <4>1 DEF KeyInOrder, Verdict, OnMismatch, Admitted, Request
    <3> QED
      BY <3>1, <3>2, <3>3
  <2>3. ASSUME NEW s \in Requests
        PROVE  KeyInOrder(req'[s])
    BY <1>3, <2>2 DEF HaveKey, Put, TypeOK, KeysInOrder
  <2> QED
    BY <1>0, <1>3, <2>1, <2>3 DEF HaveKey, KeysInOrder, KeyInOrder
<1>4. ASSUME NEW p, Put(r, p), p.token = q.token, p.key = q.key, p.route = q.route,
             p.pc \in Admitted => q.pc \in Admitted,
             p.pc \notin {"first", "second", "refused"},
             UNCHANGED <<published, key>>
      PROVE  KeysInOrder'
  <2>1. KeyInOrder(p)
    BY <1>0, <1>4 DEF KeyInOrder
  <2> QED
    BY <1>4, <2>1, PutKeeps
<1>5. CASE ReadTable(r)
  BY <1>0, <1>4, <1>5 DEF ReadTable, At, caches, Admitted, Request
<1>6. CASE TakeNames(r)
  BY <1>0, <1>4, <1>6 DEF TakeNames, At, caches, Admitted, Request
<1>7. CASE AwaitLock(r)
  BY <1>0, <1>4, <1>7 DEF AwaitLock, Goto, At, caches, Admitted, Request
<1>8. CASE TakeLock(r)
  BY <1>0, <1>4, <1>8 DEF TakeLock, Goto, At, caches, Admitted, Request
<1>9. CASE QueryNames(r)
  BY <1>0, <1>4, <1>9 DEF QueryNames, At, caches, Admitted, Request
<1>10. CASE StoreNames(r)
  BY <1>0, <1>4, <1>10 DEF StoreNames, Goto, At, caches, Admitted, Request
<1>11. CASE TakeUsers(r)
  <2>1. CASE UsersFresh
    BY <1>0, <1>4, <1>11, <2>1 DEF TakeUsers, At, caches, Admitted, Request
  <2>2. CASE ~UsersFresh
    BY <1>0, <1>4, <1>11, <2>2 DEF TakeUsers, Goto, At, caches, Admitted, Request
  <2> QED
    BY <2>1, <2>2
<1>12. CASE Lookup(r)
  BY <1>0, <1>4, <1>12 DEF Lookup, At, caches, Admitted, Request
<1>13. CASE StoreUsers(r)
  BY <1>0, <1>4, <1>13 DEF StoreUsers, Goto, At, caches, Admitted, Request
<1>14. CASE Answer(r)
  <2>1. KeyInOrder(Unsent)
    BY Numbers DEF KeyInOrder, Unsent, Admitted
  <2> QED
    BY <1>14, <2>1, PutKeeps DEF Answer
<1>15. CASE Fail(r)
  <2>1. CASE At(r, {"lookup", "looked"})
    BY <1>0, <1>4, <1>15, <2>1 DEF Fail, At, Admitted, Request
  <2>2. CASE ~At(r, {"lookup", "looked"})
    BY <1>0, <1>4, <1>15, <2>2 DEF Fail, Goto, Admitted, Request
  <2> QED
    BY <2>1, <2>2
<1> QED
  BY <1>1, <1>2, <1>3, <1>5, <1>6, <1>7, <1>8, <1>9, <1>10, <1>11, <1>12, <1>13, <1>14, <1>15
     DEF Step

-----------------------------------------------------------------------------
(* Times.                                                                  *)
LEMMA UnsentInTime == RequestInTime(Unsent)
  BY Numbers DEF RequestInTime, Unsent, Admitted

LEMMA InitInv == Init => KeysInOrder /\ CopiesInTime
<1>1. KeyInOrder(Unsent)
  BY Numbers DEF KeyInOrder, Unsent, Admitted
<1> QED
  BY <1>1, UnsentInTime
     DEF Init, KeysInOrder, KeyInOrder, CopiesInTime, EdgeInTime, CacheInTime

(* No copy that a request has made grows older faster than the request, *)
(* unless it was true until now.                                        *)
LEMMA LaterInTime ==
    ASSUME NEW q \in Request, NEW p \in Request, RequestInTime(q),
           p.pc = q.pc, p.route = q.route, p.token = q.token, p.outdated = q.outdated,
           p.age >= q.age,
           (p.table = None <=> q.table = None)
               /\ (q.table # None => p.table + q.age <= q.table + p.age \/ p.table <= 1),
           (p.names = None <=> q.names = None)
               /\ (q.names # None => p.names + q.age <= q.names + p.age \/ p.names <= 1),
           (p.users = None <=> q.users = None)
               /\ (q.users # None => p.users + q.age <= q.users + p.age \/ p.users <= 1)
    PROVE  RequestInTime(p)
<1>1. /\ q.age \in Nat /\ p.age \in Nat
      /\ q.table # None => q.table \in Nat /\ p.table \in Nat
      /\ q.names # None => q.names \in Nat /\ p.names \in Nat
      /\ q.users # None => q.users \in Nat /\ p.users \in Nat
  BY LagType, Numbers DEF Request
<1>2. CASE q.pc = "hit"
  BY <1>1, <1>2, Numbers DEF RequestInTime, Admitted
<1>3. CASE q.pc = "reply"
  BY <1>1, <1>3, Numbers DEF RequestInTime, Admitted
<1>4. CASE q.pc \notin {"hit", "reply"}
  BY <1>1, <1>4, Numbers DEF RequestInTime, Admitted
<1> QED
  BY <1>2, <1>3, <1>4

LEMMA WorldTimes ==
    ASSUME TypeOK, CopiesInTime, ChangeTable \/ ChangeNames \/ ChangeUsers \/ Rotate \/ Pass \/ Recycle
    PROVE  CopiesInTime'
<1>1. TypeOK'
  BY WorldType
<1>2. ASSUME NEW r \in Requests
      PROVE  RequestInTime(req'[r])
  <2>1. /\ req[r] \in Request /\ req'[r] \in Request /\ RequestInTime(req[r])
        /\ req[r].age \in Nat
        /\ req[r].table \in Lag \union {None} /\ req[r].names \in Lag \union {None}
        /\ req[r].users \in Lag \union {None}
    BY <1>1 DEF TypeOK, CopiesInTime, Request
  <2>2. /\ req[r].table # None => req[r].table \in Nat
        /\ req[r].names # None => req[r].names \in Nat
        /\ req[r].users # None => req[r].users \in Nat
    BY <2>1, LagType
  <2>3. CASE ChangeTable
    <3>1. req'[r] = [req[r] EXCEPT !.table = Outdated(@)]
      BY <2>3 DEF ChangeTable
    <3> QED
      BY <2>1, <2>2, <3>1, OutdatedBy, LaterInTime DEF Request
  <2>4. CASE ChangeNames
    <3>1. req'[r] = [req[r] EXCEPT !.names = Outdated(@)]
      BY <2>4 DEF ChangeNames
    <3> QED
      BY <2>1, <2>2, <3>1, OutdatedBy, LaterInTime DEF Request
  <2>5. CASE ChangeUsers
    <3>1. req'[r] = [req[r] EXCEPT !.users = Outdated(@)]
      BY <2>5 DEF ChangeUsers
    <3> QED
      BY <2>1, <2>2, <3>1, OutdatedBy, LaterInTime DEF Request
  <2>6. CASE Rotate
    BY <2>1, <2>6 DEF Rotate
  <2>7. CASE Pass
    <3>1. CASE At(r, {"new"})
      <4>1. req'[r] = req[r]
        BY <2>7, <3>1 DEF Pass
      <4> QED
        BY <2>1, <4>1
    <3>2. CASE ~At(r, {"new"})
      <4>1. req'[r] = [req[r] EXCEPT !.age = @ + 1, !.table = Older(@),
                                     !.names = Older(@), !.users = Older(@)]
        BY <2>7, <3>2 DEF Pass
      <4>2. /\ req'[r].pc = req[r].pc /\ req'[r].route = req[r].route
            /\ req'[r].token = req[r].token /\ req'[r].outdated = req[r].outdated
            /\ req'[r].age = req[r].age + 1 /\ req'[r].table = Older(req[r].table)
            /\ req'[r].names = Older(req[r].names) /\ req'[r].users = Older(req[r].users)
        BY <2>1, <4>1 DEF Request
      <4> QED
        BY <2>1, <2>2, <4>2, OlderBy, LaterInTime
    <3> QED
      BY <3>1, <3>2
  <2>8. CASE Recycle
    <3>1. req'[r] = Unsent
      BY <2>8 DEF Recycle
    <3> QED
      BY <3>1, UnsentInTime
  <2> QED
    BY <2>3, <2>4, <2>5, <2>6, <2>7, <2>8
<1>3. EdgeInTime'
  <2>1. CASE edge = None \/ edge' = None
    BY <2>1 DEF EdgeInTime, ChangeTable, ChangeNames, ChangeUsers, Rotate, Pass, Recycle, caches
  <2>2. CASE edge # None /\ edge' # None
    <3>1. /\ edge \in [table : Lag, names : Lag, left : 1..EdgeTTL]
          /\ edge.table <= (Flight + 1) + (EdgeTTL - edge.left)
          /\ edge.names <= (NamesTTL + 2 * Flight) + (EdgeTTL - edge.left)
      BY <2>2 DEF TypeOK, CopiesInTime, EdgeInTime
    <3>2. edge.table \in Lag /\ edge.names \in Lag /\ edge.left \in 1..EdgeTTL
          /\ edge.table \in Nat /\ edge.names \in Nat
      BY <3>1, LagType
    <3>3. CASE ChangeTable
      <4>1. edge' = [edge EXCEPT !.table = Outdated(@)]
        BY <2>2, <3>3 DEF ChangeTable
      <4> QED
        BY <3>1, <3>2, <4>1, OutdatedBy, Numbers DEF EdgeInTime
    <3>4. CASE ChangeNames
      <4>1. edge' = [edge EXCEPT !.names = Outdated(@)]
        BY <2>2, <3>4 DEF ChangeNames
      <4> QED
        BY <3>1, <3>2, <4>1, OutdatedBy, Numbers DEF EdgeInTime
    <3>5. CASE ChangeUsers \/ Rotate \/ Recycle
      BY <3>1, <3>5 DEF EdgeInTime, ChangeUsers, Rotate, Recycle, caches
    <3>6. CASE Pass
      <4>1. edge' = [table |-> Older(edge.table), names |-> Older(edge.names), left |-> edge.left - 1]
        BY <2>2, <3>6 DEF Pass
      <4> QED
        BY <3>1, <3>2, <4>1, OlderBy, Numbers DEF EdgeInTime
    <3> QED
      BY <3>3, <3>4, <3>5, <3>6
  <2> QED
    BY <2>1, <2>2
<1>4. ASSUME NEW c \in Copy, c # None, CacheInTime(c)
      PROVE  /\ CacheInTime([c EXCEPT !.lag = Outdated(@)])
             /\ CacheInTime([lag |-> Older(c.lag), age |-> Longer(c.age)])
  <2>1. /\ c.lag \in Lag /\ c.age \in Lag /\ c.lag \in Nat /\ c.age \in Nat /\ c.lag <= MaxLag
        /\ c.lag <= (Flight + 1) + c.age
    BY <1>4, LagType DEF Copy, CacheInTime
  <2>3. [c EXCEPT !.lag = Outdated(@)].lag <= (Flight + 1) + [c EXCEPT !.lag = Outdated(@)].age
    BY <2>1, OutdatedBy, Numbers DEF Copy
  <2>4. Older(c.lag) <= (Flight + 1) + Longer(c.age)
    <3>1. Older(c.lag) \in Nat /\ Older(c.lag) <= c.lag + 1 /\ Older(c.lag) <= MaxLag
      BY <2>1, OlderBy, LagType, Numbers
    <3>2. Longer(c.age) = c.age + 1 \/ Longer(c.age) = MaxLag
      BY <2>1, LongerBy
    <3> QED
      BY <2>1, <3>1, <3>2, Numbers
  <2> QED
    BY <2>3, <2>4 DEF CacheInTime
<1>5. CacheInTime(names)'
  <2>1. CacheInTime(names) /\ names \in Copy \union {None}
    BY DEF TypeOK, CopiesInTime
  <2> QED
    BY <2>1, <1>4
       DEF CacheInTime, ChangeTable, ChangeNames, ChangeUsers, Rotate, Pass, Recycle, caches
<1>6. CacheInTime(users)'
  <2>1. CacheInTime(users) /\ users \in Copy \union {None}
    BY DEF TypeOK, CopiesInTime
  <2>2. CASE ChangeUsers
    BY <2>1, <2>2, <1>4 DEF CacheInTime, ChangeUsers
  <2>3. CASE Pass
    BY <2>1, <2>3, <1>4 DEF CacheInTime, Pass
  <2>4. CASE ChangeTable \/ ChangeNames \/ Rotate \/ Recycle
    BY <2>1, <2>4 DEF CacheInTime, ChangeTable, ChangeNames, Rotate, Recycle, caches
  <2> QED
    BY <2>2, <2>3, <2>4
<1> QED
  BY <1>2, <1>3, <1>5, <1>6 DEF CopiesInTime, RequestInTime

(* Only one request changes, and no copy that is kept. *)
LEMMA PutInTime ==
    ASSUME TypeOK, CopiesInTime, NEW r \in Requests, NEW q, Put(r, q), RequestInTime(q),
           UNCHANGED <<edge, names, users>>
    PROVE  CopiesInTime'
<1>1. ASSUME NEW s \in Requests
      PROVE  RequestInTime(req'[s])
  BY <1>1 DEF Put, TypeOK, CopiesInTime
<1> QED
  BY <1>1 DEF CopiesInTime, RequestInTime, EdgeInTime, CacheInTime

LEMMA ArriveTimes ==
    ASSUME TypeOK, CopiesInTime, NEW r \in Requests, NEW route \in asked,
           NEW cookie \in Tokens(route), Arrive(r, route, cookie)
    PROVE  CopiesInTime'
<1> DEFINE sent == [Unsent EXCEPT !.route = route, !.token = cookie]
           hit  == [sent EXCEPT !.pc = "hit", !.table = edge.table, !.names = edge.names,
                                !.outdated = edge.table > 0]
           pass == [sent EXCEPT !.pc = IF route = "owners" THEN "verify" ELSE "table"]
<1>1. EdgeHolds(route, cookie) => RequestInTime(hit)
  <2> SUFFICES ASSUME EdgeHolds(route, cookie)
               PROVE  RequestInTime(hit)
    OBVIOUS
  <2>1. /\ cookie = NoToken
        /\ edge \in [table : Lag, names : Lag, left : 1..EdgeTTL]
        /\ edge.table <= (Flight + 1) + (EdgeTTL - edge.left)
        /\ edge.names <= (NamesTTL + 2 * Flight) + (EdgeTTL - edge.left)
    BY DEF EdgeHolds, TypeOK, CopiesInTime, EdgeInTime
  <2>2. edge.table \in Nat /\ edge.names \in Nat /\ edge.left \in 1..EdgeTTL
    BY <2>1, LagType
  <2>3. /\ hit.pc = "hit" /\ hit.token = cookie /\ hit.age = 0 /\ hit.users = None
        /\ hit.table = edge.table /\ hit.names = edge.names
    BY DEF Unsent
  <2> QED
    BY <2>1, <2>2, <2>3, Numbers DEF RequestInTime, Admitted
<1>2. RequestInTime(pass)
  BY Numbers DEF RequestInTime, Unsent, Admitted
<1> QED
  BY <1>1, <1>2, PutInTime DEF Arrive, caches

LEMMA StepTimes ==
    ASSUME TypeOK, CopiesInTime, NEW r \in Requests, Step(r) \/ Fail(r)
    PROVE  CopiesInTime'
<1> DEFINE q == req[r]
<1>0. /\ q \in Request /\ RequestInTime(q) /\ q.age \in Nat /\ q.age <= Flight
      /\ q.table # None => q.table \in Nat
      /\ q.names # None => q.names \in Nat
      /\ q.users # None => q.users \in Nat
  BY LagType, Numbers DEF TypeOK, CopiesInTime, Request
<1>1. ASSUME NEW pc \in Pcs \ {"reply", "hit", "queried", "looked"},
             pc \in Admitted \ {"table"} => q.pc \in Admitted \ {"table"},
             pc \in {"users", "lookup"} => q.pc \in {"users", "lookup"},
             q.pc \notin {"reply", "hit", "looked", "failed"},
             q.pc = "queried" => pc = "failed"
      PROVE  RequestInTime([q EXCEPT !.pc = pc]) /\ \A k : RequestInTime([q EXCEPT !.pc = pc, !.key = k])
  <2>1. ASSUME NEW p, p.pc = pc, p.route = q.route, p.token = q.token, p.age = q.age,
               p.outdated = q.outdated, p.table = q.table, p.names = q.names, p.users = q.users
        PROVE  RequestInTime(p)
    BY <1>0, <1>1, <2>1 DEF RequestInTime, Admitted
  <2> QED
    BY <1>0, <2>1 DEF Request
<1>2. CASE Verify(r)
  <2>1. \E pc \in {"refused", "fetch", "table", "refetch"} : Goto(r, pc)
    BY <1>2, VerdictType DEF Verify
  <2> QED
    BY <1>1, <1>2, <2>1, PutInTime DEF Verify, Goto, At, caches, Pcs, Admitted
<1>3. CASE FetchKey(r)
  <2>1. \E pc \in {"first", "second"} : Put(r, [q EXCEPT !.pc = pc, !.key = published])
    BY <1>3 DEF FetchKey
  <2> QED
    BY <1>1, <1>3, <2>1, PutInTime DEF FetchKey, At, caches, Pcs, Admitted
<1>4. CASE HaveKey(r)
  <2>1. \E pc \in {"refused", "table", "refetch"} : Put(r, [q EXCEPT !.pc = pc, !.key = None])
    BY <1>4, VerdictType DEF HaveKey
  <2> QED
    BY <1>1, <1>4, <2>1, PutInTime DEF HaveKey, At, Pcs, Admitted
<1>5. CASE ReadTable(r)
  <2> DEFINE p == [q EXCEPT !.table = 0, !.pc = IF q.route = "owners" THEN "users" ELSE "names"]
  <2>1. RequestInTime(p)
    BY <1>0, <1>5, Numbers DEF ReadTable, At, RequestInTime, Admitted, Request
  <2> QED
    BY <1>5, <2>1, PutInTime DEF ReadTable, caches
<1>6. CASE TakeNames(r)
  <2> DEFINE p == [q EXCEPT !.names = names.lag, !.pc = "reply"]
  <2>1. /\ names # None /\ names \in Copy /\ names.age < NamesTTL
        /\ names.lag <= (Flight + 1) + names.age
    BY <1>6 DEF TakeNames, NamesFresh, TypeOK, CopiesInTime, CacheInTime
  <2>2. names.lag \in Nat /\ names.age \in Nat /\ names.lag <= NamesTTL + Flight
    BY <2>1, LagType, Numbers DEF Copy
  <2>3. q.pc \in {"names", "lock"}
    BY <1>6 DEF TakeNames, At
  <2>4. RequestInTime(p)
    BY <1>0, <2>2, <2>3, Numbers DEF RequestInTime, Admitted, Request
  <2> QED
    BY <1>6, <2>4, PutInTime DEF TakeNames, caches
<1>7. CASE AwaitLock(r)
  BY <1>1, <1>7, PutInTime DEF AwaitLock, Goto, At, caches, Pcs, Admitted
<1>8. CASE TakeLock(r)
  BY <1>1, <1>8, PutInTime DEF TakeLock, Goto, At, caches, Pcs, Admitted
<1>9. CASE QueryNames(r)
  <2> DEFINE p == [q EXCEPT !.names = 0, !.pc = "queried"]
  <2>1. RequestInTime(p)
    BY <1>0, <1>9, Numbers DEF QueryNames, At, RequestInTime, Admitted, Request
  <2> QED
    BY <1>9, <2>1, PutInTime DEF QueryNames, caches
<1>10. CASE StoreNames(r)
  <2>1. q.pc = "queried"
    BY <1>10 DEF StoreNames, At
  <2>2. q.names \in Nat /\ q.names <= q.age + 1
    BY <1>0, <2>1 DEF RequestInTime
  <2>3. RequestInTime([q EXCEPT !.pc = "reply"])
    BY <1>0, <2>1, <2>2, Numbers DEF RequestInTime, Admitted, Request
  <2>4. CacheInTime(names)'
    BY <1>0, <1>10, <2>2, Numbers DEF StoreNames, CacheInTime
  <2>5. ASSUME NEW s \in Requests
        PROVE  RequestInTime(req'[s])
    BY <1>10, <2>3 DEF StoreNames, Goto, Put, TypeOK, CopiesInTime
  <2> QED
    BY <1>10, <2>4, <2>5 DEF StoreNames, CopiesInTime, RequestInTime, EdgeInTime, CacheInTime
<1>11. CASE TakeUsers(r)
  <2>1. q.pc = "users"
    BY <1>11 DEF TakeUsers, At
  <2>2. CASE UsersFresh
    <3> DEFINE p == [q EXCEPT !.users = users.lag, !.pc = "reply"]
    <3>1. /\ users # None /\ users \in Copy /\ users.age < UsersTTL
          /\ users.lag <= (Flight + 1) + users.age
      BY <2>2 DEF UsersFresh, TypeOK, CopiesInTime, CacheInTime
    <3>2. users.lag \in Nat /\ users.age \in Nat /\ users.lag <= UsersTTL + Flight
      BY <3>1, LagType, Numbers DEF Copy
    <3>3. RequestInTime(p)
      BY <1>0, <2>1, <3>2, Numbers DEF RequestInTime, Admitted, Request
    <3> QED
      BY <1>11, <2>2, <3>3, PutInTime DEF TakeUsers, caches
  <2>3. CASE ~UsersFresh
    BY <1>1, <1>11, <2>1, <2>3, PutInTime DEF TakeUsers, Goto, caches, Pcs, Admitted
  <2> QED
    BY <2>2, <2>3
<1>12. CASE Lookup(r)
  <2> DEFINE p == [q EXCEPT !.users = 0, !.pc = "looked"]
  <2>1. RequestInTime(p)
    BY <1>0, <1>12, Numbers DEF Lookup, At, RequestInTime, Admitted, Request
  <2> QED
    BY <1>12, <2>1, PutInTime DEF Lookup, caches
<1>13. CASE StoreUsers(r)
  <2>1. q.pc = "looked"
    BY <1>13 DEF StoreUsers, At
  <2>2. q.users \in Nat /\ q.users <= q.age + 1
    BY <1>0, <2>1 DEF RequestInTime
  <2>3. RequestInTime([q EXCEPT !.pc = "reply"])
    BY <1>0, <2>1, <2>2, Numbers DEF RequestInTime, Admitted, Request
  <2>4. CacheInTime(users)'
    BY <1>0, <1>13, <2>2, Numbers DEF StoreUsers, CacheInTime
  <2>5. ASSUME NEW s \in Requests
        PROVE  RequestInTime(req'[s])
    BY <1>13, <2>3 DEF StoreUsers, Goto, Put, TypeOK, CopiesInTime
  <2> QED
    BY <1>13, <2>4, <2>5 DEF StoreUsers, CopiesInTime, RequestInTime, EdgeInTime, CacheInTime
<1>14. CASE Answer(r)
  <2>1. EdgeInTime'
    <3>1. CASE At(r, {"reply"}) /\ Header(q.route, q.token) = "public"
      <4>1. q.pc = "reply" /\ q.route = "stats"
        BY <3>1 DEF At, Header
      <4>2. /\ q.table \in Nat /\ q.table <= Flight + 1
            /\ q.names \in Nat /\ q.names <= NamesTTL + 2 * Flight
        BY <1>0, <4>1, Numbers DEF RequestInTime, Admitted
      <4>3. edge' = [table |-> q.table, names |-> q.names, left |-> EdgeTTL]
        BY <1>14, <3>1 DEF Answer
      <4> QED
        BY <4>2, <4>3, Numbers DEF EdgeInTime
    <3>2. CASE ~(At(r, {"reply"}) /\ Header(q.route, q.token) = "public")
      BY <1>14, <3>2 DEF Answer, CopiesInTime, EdgeInTime
    <3> QED
      BY <3>1, <3>2
  <2>2. ASSUME NEW s \in Requests
        PROVE  RequestInTime(req'[s])
    BY <1>14, UnsentInTime DEF Answer, Put, TypeOK, CopiesInTime
  <2> QED
    BY <1>14, <2>1, <2>2 DEF Answer, CopiesInTime, RequestInTime, CacheInTime
<1>15. CASE Fail(r)
  <2>1. CASE At(r, {"lookup", "looked"})
    <3>1. RequestInTime([q EXCEPT !.users = None, !.pc = "reply"])
      BY <1>0, <2>1, Numbers DEF At, RequestInTime, Admitted, Request
    <3> QED
      BY <1>15, <2>1, <3>1, PutInTime DEF Fail
  <2>2. CASE ~At(r, {"lookup", "looked"})
    BY <1>1, <1>15, <2>2, PutInTime DEF Fail, Goto, At, Pcs, Admitted
  <2> QED
    BY <2>1, <2>2
<1> QED
  BY <1>2, <1>3, <1>4, <1>5, <1>6, <1>7, <1>8, <1>9, <1>10, <1>11, <1>12, <1>13, <1>14, <1>15
     DEF Step

-----------------------------------------------------------------------------
(* Types hold for any number of requests, lifetimes and rotations; keys    *)
(* are in the order of their publication wherever they are held; and every *)
(* copy, at the edge, in an instance or in a request, is in time.          *)
THEOREM Invariance == Spec => []IInv
<1>1. Init => IInv
  BY InitType, InitInv DEF IInv
<1>2. IInv /\ [Next]_vars => IInv'
  <2> SUFFICES ASSUME IInv, [Next]_vars
               PROVE  IInv'
    OBVIOUS
  <2> USE DEF IInv
  <2>1. CASE ChangeTable \/ ChangeNames \/ ChangeUsers \/ Rotate \/ Pass \/ Recycle
    BY <2>1, WorldType, WorldKeys, WorldTimes
  <2>2. ASSUME NEW r \in Requests, NEW route \in asked, NEW cookie \in Tokens(route),
               Arrive(r, route, cookie)
        PROVE  IInv'
    BY <2>2, ArriveType, ArriveKeys, ArriveTimes
  <2>3. ASSUME NEW r \in Requests, Step(r) \/ Fail(r)
        PROVE  IInv'
    BY <2>3, StepType, StepKeys, StepTimes
  <2>4. CASE UNCHANGED vars
    BY <2>4 DEF vars, caches, TypeOK, KeysInOrder, KeyInOrder, CopiesInTime, EdgeInTime,
                CacheInTime, RequestInTime
  <2> QED
    BY <2>1, <2>2, <2>3, <2>4 DEF Next
<1> QED
  BY <1>1, <1>2, PTL DEF Spec

(* No rotation of the signing key costs a sound token: get_current_user_id *)
(* refuses only tokens whose key has been replaced, whatever key is cached *)
(* and in whatever order concurrent fetches of it arrive, and admits none  *)
(* that no published key has signed.                                       *)
THEOREM RotationIsAlwaysSurvived == Spec => []RotationIsSurvived
<1>1. IInv => RotationIsSurvived
  <2> SUFFICES ASSUME IInv, NEW r \in Requests
               PROVE  /\ At(r, {"refused"}) => req[r].token # published
                      /\ req[r].route = "owners" /\ At(r, {"table", "users", "reply"})
                             => req[r].token \in 0..published
    BY DEF RotationIsSurvived
  <2>1. published \in Nat /\ KeyInOrder(req[r])
    BY DEF IInv, TypeOK, KeysInOrder
  <2> QED
    BY <2>1 DEF KeyInOrder, At, Admitted
<1> QED
  BY <1>1, Invariance, PTL

(* No answer is older than its route promises, through all the caches      *)
(* together, for any lifetimes of the copies at the edge and in an         *)
(* instance and any bound on the duration of a request.                    *)
THEOREM AnswersAreAlwaysRecent == Spec => []AnswersAreRecent
<1>1. IInv => AnswersAreRecent
  <2> SUFFICES ASSUME IInv, NEW r \in Requests, At(r, {"reply", "hit"})
               PROVE  LET q     == req[r]
                          delay == IF q.token = NoToken THEN Flight + (EdgeTTL - 1) + Flight
                                                        ELSE Flight
                      IN  /\ q.token # NoToken => ~q.outdated
                          /\ TrueWithin(q.table, delay)
                          /\ q.names # None => TrueWithin(q.names, delay + (NamesTTL - 1) + Flight)
                          /\ q.users # None => TrueWithin(q.users, Flight + (UsersTTL - 1) + Flight)
    BY DEF AnswersAreRecent
  <2> DEFINE q == req[r]
  <2>1. /\ RequestInTime(q) /\ q.age \in Nat /\ q.age <= Flight
        /\ q.table # None => q.table \in Nat
        /\ q.names # None => q.names \in Nat
        /\ q.users # None => q.users \in Nat
    BY LagType, Numbers DEF IInv, TypeOK, CopiesInTime, Request
  <2>2. CASE q.pc = "reply"
    BY <2>1, <2>2, Numbers DEF RequestInTime, TrueWithin, Admitted
  <2>3. CASE q.pc = "hit"
    BY <2>1, <2>3, Numbers DEF RequestInTime, TrueWithin, Admitted
  <2> QED
    BY <2>2, <2>3 DEF At
<1> QED
  BY <1>1, Invariance, PTL

-----------------------------------------------------------------------------
(* The broadcast-live pollers of module LiveStreams: the other part that   *)
(* keeps copies of what a service outside knows.                           *)
LEMMA RefsType ==
    ASSUME NEW p, NEW cs \in SUBSET Channels
    PROVE  Refs(p, cs) \in SUBSET Channels
  BY DEF Refs

(* What holds of one tick. *)
LEMMA IdleTick ==
    /\ Idle \in Tick
    /\ UNION {Idle.refs[k] : k \in DOMAIN Idle.refs}
         = Idle.todo \union DOMAIN Idle.seen
    /\ Idle.todo \cap DOMAIN Idle.seen = {}
    /\ Idle.failed = {}
<1>1. <<>> \in [{} -> SUBSET Channels] /\ <<>> \in [{} -> Titles \union {Off}] /\ DOMAIN <<>> = {}
  OBVIOUS
<1>2. <<>> \in Asked /\ <<>> \in Answers
  BY <1>1 DEF Asked, Answers
<1>3. Idle \in Tick
  BY <1>2 DEF Idle, Tick
<1> QED
  BY <1>1, <1>3 DEF Idle

LEMMA BegunTick ==
    ASSUME AirTypeOK, NEW p \in Platforms
    PROVE  LET t == Begun(p)
           IN  /\ t \in Tick
               /\ UNION {t.refs[k] : k \in DOMAIN t.refs} = t.todo \union DOMAIN t.seen
               /\ t.todo \cap DOMAIN t.seen = {}
               /\ t.failed = {}
<1> DEFINE refs == [k \in present |-> Refs(p, links[k])]
           todo == UNION {refs[k] : k \in present}
<1>1. present \in SUBSET Keys /\ \A k \in present : links[k] \in SUBSET Channels
  BY DEF AirTypeOK
<1>2. \A k \in present : refs[k] \in SUBSET Channels
  BY <1>1, RefsType
<1>3. refs \in [present -> SUBSET Channels] /\ DOMAIN refs = present
  BY <1>2
<1>4. refs \in Asked
  BY <1>1, <1>3 DEF Asked
<1>5. todo \in SUBSET Channels
  BY <1>2
<1>6. UNION {refs[k] : k \in DOMAIN refs} = todo
  BY <1>3
<1> HIDE DEF refs, todo
<1>7. Begun(p) = [Idle EXCEPT !.pc = "token", !.refs = refs, !.todo = todo]
  BY DEF Begun, refs, todo
<1>8. Begun(p) = [pc |-> "token", refs |-> refs, todo |-> todo, seen |-> <<>>, failed |-> {}]
  BY <1>7 DEF Idle
<1>9. <<>> \in Answers /\ DOMAIN <<>> = {}
  BY IdleTick DEF Idle, Tick
<1> QED
  BY <1>4, <1>5, <1>6, <1>8, <1>9 DEF Tick

(* An answer for a channel that is still to be asked about. *)
LEMMA AnsweredTick ==
    ASSUME NEW t \in Tick, NEW c \in t.todo, NEW a \in Titles \union {Off},
           UNION {t.refs[k] : k \in DOMAIN t.refs} = t.todo \union DOMAIN t.seen,
           t.todo \cap DOMAIN t.seen = {}
    PROVE  LET u == Answered(t, c, a)
           IN  /\ u \in Tick
               /\ UNION {u.refs[k] : k \in DOMAIN u.refs} = u.todo \union DOMAIN u.seen
               /\ u.todo \cap DOMAIN u.seen = {}
               /\ u.failed = t.failed
               /\ DOMAIN t.seen \union {c} \subseteq DOMAIN u.seen
<1> DEFINE seen == [x \in DOMAIN t.seen \union {c} |-> IF x = c THEN a ELSE t.seen[x]]
<1>1. PICK S \in SUBSET Channels : t.seen \in [S -> Titles \union {Off}]
  BY DEF Tick, Answers
<1>2. c \in Channels /\ S \union {c} \in SUBSET Channels /\ DOMAIN t.seen = S
  BY <1>1 DEF Tick
<1>3. seen \in [S \union {c} -> Titles \union {Off}] /\ DOMAIN seen = S \union {c}
  BY <1>1, <1>2
<1>4. seen \in Answers
  BY <1>2, <1>3 DEF Answers
<1> HIDE DEF seen
<1>5. Answered(t, c, a) = [t EXCEPT !.pc = "token", !.todo = @ \ {c}, !.seen = seen]
  BY DEF Answered, seen, Tick
<1>6. Answered(t, c, a) = [pc |-> "token", refs |-> t.refs, todo |-> t.todo \ {c}, seen |-> seen,
                           failed |-> t.failed]
  BY <1>5 DEF Tick
<1> QED
  BY <1>2, <1>3, <1>4, <1>6 DEF Tick

(* What every tick satisfies, as TypeOK says it. *)
Sound(t) ==
    /\ t \in Tick
    /\ UNION {t.refs[k] : k \in DOMAIN t.refs} = t.todo \union DOMAIN t.seen
    /\ t.todo \cap DOMAIN t.seen = {}
    /\ t.failed \subseteq DOMAIN t.seen

LEMMA TickReplaced ==
    ASSUME AirIInv, NEW p \in Platforms, NEW t, Sound(t), p = "twitch" => t.failed = {},
           tick' = [tick EXCEPT ![p] = t]
    PROVE  /\ tick' \in [Platforms -> Tick]
           /\ \A q \in Platforms : Sound(tick'[q])
           /\ TwitchNeverGuesses'
  BY DEF AirIInv, AirTypeOK, Sound, TwitchNeverGuesses, Platforms

LEMMA AirStarts == AirInit => AirIInv
<1> SUFFICES ASSUME AirInit
             PROVE  AirIInv
  OBVIOUS
<1>1. <<>> \in [{} -> Titles] /\ DOMAIN <<>> = {}
  OBVIOUS
<1>2. <<>> \in Snapshots
  BY <1>1 DEF Snapshots
<1> QED
  BY <1>1, <1>2, IdleTick, AirAssumption DEF AirInit, AirIInv, AirTypeOK,
     TwitchNeverGuesses, Platforms

(* The world and the token leave tables and ticks alone. *)
LEMMA WorldStep ==
    ASSUME AirIInv,
           \/ \E c \in Channels, a \in Titles \union {Off} : Broadcast(c, a)
           \/ \E k \in Keys, cs \in SUBSET Channels : Edit(k, cs)
           \/ Revoke
           \/ UNCHANGED airVars
    PROVE  AirIInv'
<1>1. CASE \E c \in Channels, a \in Titles \union {Off} : Broadcast(c, a)
  BY <1>1 DEF Broadcast, db, AirIInv, AirTypeOK, TwitchNeverGuesses
<1>2. CASE \E k \in Keys, cs \in SUBSET Channels : Edit(k, cs)
  BY <1>2, AirAssumption DEF Edit, db, AirIInv, AirTypeOK, TwitchNeverGuesses
<1>3. CASE Revoke
  BY <1>3, AirAssumption DEF Revoke, world, db, AirIInv, AirTypeOK, TwitchNeverGuesses
<1>4. CASE UNCHANGED airVars
  BY <1>4 DEF airVars, AirIInv, AirTypeOK, TwitchNeverGuesses
<1> QED
  BY <1>1, <1>2, <1>3, <1>4

(* An entry takes its live rows along. *)
LEMMA RemoveStep ==
    ASSUME AirIInv, NEW k \in Keys, Remove(k)
    PROVE  AirIInv'
<1>1. \A p \in Platforms : /\ rows'[p] = Narrowed(rows[p], present')
                           /\ hosts'[p] = hosts[p] \cap present'
  BY DEF Remove
<1>2. \A p \in Platforms : rows'[p] \in Snapshots /\ DOMAIN rows'[p] \subseteq present'
  <2> SUFFICES ASSUME NEW p \in Platforms
               PROVE  rows'[p] \in Snapshots /\ DOMAIN rows'[p] \subseteq present'
    OBVIOUS
  <2>1. PICK S \in SUBSET Rows : rows[p] \in [S -> Titles]
    BY DEF AirIInv, AirTypeOK, Snapshots
  <2>2. Narrowed(rows[p], present') \in [S \cap present' -> Titles]
    BY <2>1 DEF Narrowed
  <2>3. S \cap present' \in SUBSET Rows
    OBVIOUS
  <2> QED
    BY <1>1, <2>2, <2>3 DEF Snapshots
<1>3. rows' \in [Platforms -> Snapshots] /\ hosts' \in [Platforms -> SUBSET Tournaments]
  <2>1. rows' = [p \in Platforms |-> rows'[p]] /\ hosts' = [p \in Platforms |-> hosts'[p]]
    BY DEF Remove
  <2>2. \A p \in Platforms : hosts'[p] \in SUBSET Tournaments
    BY <1>1 DEF AirIInv, AirTypeOK
  <2> QED
    BY <1>2, <2>1, <2>2
<1>4. present' \subseteq Keys /\ edits' \in 0..MaxEdits
  BY AirAssumption DEF Remove, AirIInv, AirTypeOK
<1>5. \A p \in Platforms : DOMAIN rows'[p] \union hosts'[p] \subseteq present'
  BY <1>1, <1>2
<1>6. UNCHANGED <<onAir, links, tick, token, ids, failures>>
  BY DEF Remove
<1>7. AirTypeOK'
  BY <1>3, <1>4, <1>5, <1>6 DEF AirIInv, AirTypeOK
<1>8. TwitchNeverGuesses'
  BY <1>6 DEF AirIInv, TwitchNeverGuesses
<1> QED
  BY <1>7, <1>8 DEF AirIInv

(* A step of a poller between the reading of the links and the writing. *)
LEMMA TickStep ==
    ASSUME AirIInv, NEW p \in Platforms, NEW t, Sound(t),
           p = "twitch" => t.failed = {},
           tick' = [tick EXCEPT ![p] = t],
           UNCHANGED <<world, db, edits>>,
           token' \in {"none", "good", "revoked"},
           ids' \in [Handles -> {"unknown", "known", "none"}],
           failures' \in 0..MaxFailures
    PROVE  AirIInv'
<1>1. /\ tick' \in [Platforms -> Tick]
      /\ \A q \in Platforms : Sound(tick'[q])
      /\ TwitchNeverGuesses'
  BY TickReplaced
<1> QED
  BY <1>1 DEF AirIInv, AirTypeOK, Sound, world, db

LEMMA AskStep ==
    ASSUME AirIInv,
           \/ \E p \in Platforms : Start(p)
           \/ TakeToken \/ Unauthorized
           \/ \E c \in Twitch : AskTwitch(c)
           \/ \E c \in YouTube : LookUp(c) \/ AskYouTube(c)
           \/ \E p \in Platforms, c \in Channels : AskFails(p, c)
           \/ \E p \in Platforms : TickFails(p)
    PROVE  AirIInv'
<1>a. "twitch" \in Platforms /\ "youtube" \in Platforms
  BY DEF Platforms
<1>b. \A p \in Platforms : tick[p] \in Tick /\ Sound(tick[p])
  BY DEF AirIInv, AirTypeOK, Sound
<1>c. /\ token \in {"none", "good", "revoked"} /\ ids \in [Handles -> {"unknown", "known", "none"}]
      /\ failures \in 0..MaxFailures /\ MaxFailures \in Nat
  BY AirAssumption DEF AirIInv, AirTypeOK
<1>d. Sound(Idle) /\ Idle.failed = {}
  BY IdleTick DEF Sound
<1>e. \A c \in Channels : onAir[c] \in Titles \union {Off}
  BY DEF AirIInv, AirTypeOK
<1>f. tick["twitch"].failed = {}
  BY DEF AirIInv, TwitchNeverGuesses
<1>1. ASSUME NEW p \in Platforms, Start(p) PROVE AirIInv'
  <2>1. Sound(Begun(p)) /\ Begun(p).failed = {}
    BY BegunTick DEF Sound, AirIInv
  <2> QED
    BY <1>1, <1>c, <2>1, TickStep DEF Start
<1>2. ASSUME NEW pc \in {"request", "retry"}, tick' = [tick EXCEPT !["twitch"].pc = pc],
             UNCHANGED <<world, db, ids, edits, failures>>, token' \in {"none", "good", "revoked"}
      PROVE  AirIInv'
  <2> DEFINE t == [tick["twitch"] EXCEPT !.pc = pc]
  <2>1. Sound(t) /\ t.failed = {}
    BY <1>a, <1>b, <1>f DEF Sound, Tick
  <2>2. tick' = [tick EXCEPT !["twitch"] = t]
    BY <1>2
  <2> HIDE DEF t
  <2> QED
    BY <1>2, <1>a, <1>c, <2>1, <2>2, TickStep
<1>3. CASE TakeToken
  BY <1>3, <1>2, <1>c DEF TakeToken
<1>4. CASE Unauthorized
  <2>1. CASE tick["twitch"].pc = "request"
    BY <1>4, <2>1, <1>2 DEF Unauthorized, Remint
  <2>2. CASE tick["twitch"].pc # "request"
    BY <1>4, <2>2, <1>a, <1>c, <1>d, TickStep DEF Unauthorized
  <2> QED
    BY <2>1, <2>2
<1>5. ASSUME NEW p \in Platforms, NEW c \in tick[p].todo, NEW a \in Titles \union {Off}
      PROVE  /\ Sound(Answered(tick[p], c, a))
             /\ Answered(tick[p], c, a).failed = tick[p].failed
             /\ c \in DOMAIN Answered(tick[p], c, a).seen
  BY <1>b, AnsweredTick DEF Sound
<1>6. ASSUME NEW c \in Twitch, AskTwitch(c) PROVE AirIInv'
  <2>1. tick' = [tick EXCEPT !["twitch"] = Answered(tick["twitch"], c, onAir[c])]
    BY <1>6, <1>a DEF AskTwitch, AirIInv, AirTypeOK
  <2>2. Sound(Answered(tick["twitch"], c, onAir[c]))
        /\ Answered(tick["twitch"], c, onAir[c]).failed = {}
    BY <1>6, <1>5, <1>a, <1>e, <1>f DEF AskTwitch, Channels
  <2> QED
    BY <1>6, <1>a, <1>c, <2>1, <2>2, TickStep DEF AskTwitch
<1>7. ASSUME NEW c \in YouTube, AskYouTube(c) PROVE AirIInv'
  <2> DEFINE a == IF c \in Handles /\ ids[c] = "none" THEN Off ELSE onAir[c]
             t == Answered(tick["youtube"], c, a)
  <2>1. tick' = [tick EXCEPT !["youtube"] = t]
    BY <1>7, <1>a DEF AskYouTube, AirIInv, AirTypeOK
  <2>2. a \in Titles \union {Off}
    BY <1>7, <1>e DEF Channels
  <2> HIDE DEF a
  <2>3. Sound(t)
    BY <1>7, <1>5, <1>a, <2>2 DEF AskYouTube
  <2> HIDE DEF t
  <2> QED
    BY <1>7, <1>a, <1>c, <2>1, <2>3, TickStep DEF AskYouTube
<1>8. ASSUME NEW c \in YouTube, LookUp(c) PROVE AirIInv'
  <2>1. ids' \in [Handles -> {"unknown", "known", "none"}] /\ failures' \in 0..MaxFailures
    BY <1>8, <1>c DEF LookUp
  <2> QED
    BY <1>8, <2>1 DEF LookUp, world, db, AirIInv, AirTypeOK, TwitchNeverGuesses
<1>9. ASSUME NEW p \in Platforms, NEW c \in Channels, AskFails(p, c) PROVE AirIInv'
  <2> DEFINE u == Answered(tick[p], c, Off)
             g == [u EXCEPT !.failed = @ \union {c}]
  <2>1. c \in tick[p].todo /\ Off \in Titles \union {Off}
    BY <1>9 DEF AskFails
  <2>2. Sound(u) /\ c \in DOMAIN u.seen /\ c \in Channels
    BY <1>5, <2>1
  <2> HIDE DEF u
  <2>3. Sound(g)
    BY <2>2 DEF Sound, Tick
  <2>4. Sound(OnError(p, c)) /\ (p = "twitch" => OnError(p, c).failed = {})
    BY <1>d, <2>3 DEF OnError, u
  <2>5. failures' \in 0..MaxFailures
    BY <1>9, <1>c DEF AskFails
  <2>6. tick' = [tick EXCEPT ![p] = OnError(p, c)]
    BY <1>9 DEF AskFails
  <2> QED
    BY <1>9, <1>c, <2>4, <2>5, <2>6, TickStep DEF AskFails
<1>10. ASSUME NEW p \in Platforms, TickFails(p) PROVE AirIInv'
  <2>1. failures' \in 0..MaxFailures
    BY <1>10, <1>c DEF TickFails
  <2> QED
    BY <1>10, <1>c, <1>d, <2>1, TickStep DEF TickFails
<1> QED
  BY <1>1, <1>3, <1>4, <1>6, <1>7, <1>8, <1>9, <1>10

(* What a tick writes is of entries that exist. *)
LEMMA ApplyStep ==
    ASSUME AirIInv, NEW p \in Platforms, Apply(p)
    PROVE  AirIInv'
<1>1. PICK f \in NewRows(p) :
           IF Changed(p, f) /\ Writable(p)
           THEN rows' = [rows EXCEPT ![p] = f] /\ hosts' = [hosts EXCEPT ![p] = NewHosts(p)]
           ELSE UNCHANGED db
  BY DEF Apply
<1>2. f \in [LiveKeys(p) \cap Rows -> Titles]
  BY <1>1 DEF NewRows
<1>3. f \in Snapshots /\ NewHosts(p) \in SUBSET Tournaments
  BY <1>2 DEF Snapshots, NewHosts
<1>4. /\ rows' \in [Platforms -> Snapshots]
      /\ hosts' \in [Platforms -> SUBSET Tournaments]
      /\ \A q \in Platforms : DOMAIN rows'[q] \union hosts'[q] \subseteq present
  <2>1. CASE Changed(p, f) /\ Writable(p)
    BY <1>1, <1>2, <1>3, <2>1 DEF AirIInv, AirTypeOK, Writable, NewHosts
  <2>2. CASE ~(Changed(p, f) /\ Writable(p))
    BY <1>1, <2>2 DEF AirIInv, AirTypeOK, db
  <2> QED
    BY <2>1, <2>2
<1>5. /\ tick' \in [Platforms -> Tick]
      /\ \A q \in Platforms : Sound(tick'[q])
      /\ TwitchNeverGuesses'
  <2>1. Sound(Idle) /\ Idle.failed = {}
    BY IdleTick DEF Sound
  <2> QED
    BY <2>1, TickReplaced DEF Apply
<1> QED
  BY <1>4, <1>5 DEF Apply, AirIInv, AirTypeOK, Sound, world

LEMMA AirSteps == AirIInv /\ [AirNext]_airVars => AirIInv'
<1>1. "twitch" \in Platforms /\ "youtube" \in Platforms
  BY DEF Platforms
<1> QED
  BY <1>1, WorldStep, RemoveStep, AskStep, ApplyStep DEF AirNext, TwitchStep, YouTubeStep

(* Whatever streams, owners, failures and revoked tokens do, a live row is *)
(* of an entry that exists (live_streams.py:77-105), each tick accounts    *)
(* for every channel of the links it has read, and no answer of a Twitch   *)
(* tick is a guess.                                                        *)
THEOREM AirInvariance == AirSpec => []AirIInv
<1>1. AirInit => AirIInv
  BY AirStarts
<1>2. AirIInv /\ [AirNext]_airVars => AirIInv'
  BY AirSteps
<1> QED
  BY <1>1, <1>2, PTL DEF AirSpec

(* In particular, every state of a tick has its type, and every live row   *)
(* its entry.                                                              *)
THEOREM AirTypesHold == AirSpec => []AirTypeOK
<1>1. AirIInv => AirTypeOK
  BY DEF AirIInv
<1> QED
  BY <1>1, AirInvariance, PTL

(* Only a tick of Twitch clears a row of an entry that stays, and it does  *)
(* so because all the entry's channels were answered to be off air.        *)
LEMMA ClearedWasAnswered ==
    ASSUME AirIInv, [AirNext]_airVars, NEW k \in present',
           k \in DOMAIN rows["twitch"] \union hosts["twitch"],
           k \notin DOMAIN rows'["twitch"] \union hosts'["twitch"],
           k \in DOMAIN tick["twitch"].refs
    PROVE  /\ tick["twitch"].refs[k] \cap tick["twitch"].failed = {}
           /\ \A c \in tick["twitch"].refs[k] : tick["twitch"].seen[c] = Off
<1>1. ASSUME NEW l \in Keys, Remove(l) PROVE FALSE
  BY <1>1 DEF Remove, Narrowed, AirIInv, AirTypeOK, Platforms
<1>2. Apply("twitch") \/ Apply("youtube")
  <2>1. ~UNCHANGED db
    BY DEF db
  <2> QED
    BY <1>1, <2>1 DEF AirNext, airVars, db, Broadcast, Edit, Revoke,
       TwitchStep, YouTubeStep, Start, TakeToken,
       Unauthorized, AskTwitch, LookUp, AskYouTube, AskFails, TickFails
<1>3. PICK p \in Platforms : Apply(p)
  BY <1>2 DEF Platforms
<1>4. PICK f \in NewRows(p) :
           IF Changed(p, f) /\ Writable(p)
           THEN rows' = [rows EXCEPT ![p] = f] /\ hosts' = [hosts EXCEPT ![p] = NewHosts(p)]
           ELSE UNCHANGED db
  BY <1>3 DEF Apply
<1>5. p = "twitch" /\ rows'["twitch"] = f /\ hosts'["twitch"] = NewHosts("twitch")
  BY <1>4 DEF AirIInv, AirTypeOK, db, Platforms
<1>6. DOMAIN f = LiveKeys("twitch") \cap Rows
  BY <1>4, <1>5 DEF NewRows
<1>7. k \in Keys
  <2>1. "twitch" \in Platforms
    BY DEF Platforms
  <2> QED
    BY <2>1 DEF AirIInv, AirTypeOK
<1>8. k \notin LiveKeys("twitch")
  BY <1>5, <1>6, <1>7 DEF NewHosts, Keys
<1>9. LiveOf("twitch", k) = {}
  BY <1>8 DEF LiveKeys
<1> QED
  BY <1>9 DEF LiveOf, AirIInv, TwitchNeverGuesses

(* An outage of Twitch takes nobody off air: who is cleared was answered   *)
(* for, channel by channel, in that tick (broadcast.py:180-194).           *)
THEOREM OutagesClearNothing == AirSpec => OutageClearsNothing
<1>1. AirIInv /\ [AirNext]_airVars =>
        \A k \in present' :
          (k \in DOMAIN rows["twitch"] \union hosts["twitch"]
             /\ k \notin DOMAIN rows'["twitch"] \union hosts'["twitch"])
          => /\ k \in DOMAIN tick["twitch"].refs =>
                    /\ tick["twitch"].refs[k] \cap tick["twitch"].failed = {}
                    /\ \A c \in tick["twitch"].refs[k] : tick["twitch"].seen[c] = Off
  BY ClearedWasAnswered
<1>2. AirSpec => []AirIInv
  BY AirInvariance
<1> QED
  BY <1>1, <1>2, PTL DEF AirSpec, OutageClearsNothing
=============================================================================
