---------------------------- MODULE NudgesProofs ----------------------------
(***************************************************************************)
(* Proofs about the refetch signal of module Nudges, for any events,       *)
(* tournaments, tasks, instances, clients, queue size and number of stamps *)
(***************************************************************************)
EXTENDS Nudges, FiniteSetTheorems, SequenceTheorems, TLAPS

-----------------------------------------------------------------------------
LEMMA FunctionIsSeq ==
    ASSUME NEW S, NEW n \in Nat, NEW f \in [1..n -> S]
    PROVE  f \in Seq(S) /\ Len(f) = n
<1>1. f \in Seq(S)
  BY SeqDef
<1>2. Len(f) \in Nat /\ DOMAIN f = 1..Len(f)
  BY <1>1, LenProperties
<1> QED
  BY <1>1, <1>2

(* The queue.  Publishing keeps what is queued, in place, and adds in      *)
(* order whatever fits (EventHub.publish).                                 *)
LEMMA PushKeeps ==
    ASSUME NEW q \in Seq(Nudge), NEW ns \in Seq(Nudge), Len(q) <= QueueMax
    PROVE  /\ Push(q, ns) \in Seq(Nudge)
           /\ Len(Push(q, ns)) <= QueueMax
           /\ Len(q) <= Len(Push(q, ns))
           /\ \A k \in 1..Len(q) : Push(q, ns)[k] = q[k]
           /\ \A k \in 1..Len(ns) : Fits(q, k) =>
                 /\ Len(q) + k \in 1..Len(Push(q, ns))
                 /\ Push(q, ns)[Len(q) + k] = ns[k]
           /\ \A k \in 1..Len(Push(q, ns)) : k \notin 1..Len(q) =>
                 /\ k - Len(q) \in 1..Len(ns)
                 /\ Push(q, ns)[k] = ns[k - Len(q)]
<1> DEFINE n == IF Len(q) + Len(ns) <= QueueMax THEN Len(q) + Len(ns) ELSE QueueMax
           p == [k \in 1..n |-> IF k <= Len(q) THEN q[k] ELSE ns[k - Len(q)]]
<1>1. Len(q) \in Nat /\ Len(ns) \in Nat /\ QueueMax \in Nat
  BY ConstantsAssumption
<1>2. n \in Nat /\ Len(q) <= n /\ n <= QueueMax /\ n <= Len(q) + Len(ns)
  BY <1>1
<1>3. Push(q, ns) = p
  BY DEF Push
<1>4. ASSUME NEW k \in 1..n
      PROVE  p[k] \in Nudge
  BY <1>1, <1>2
<1>5. p \in [1..n -> Nudge]
  BY <1>4
<1>6. p \in Seq(Nudge) /\ Len(p) = n
  BY <1>2, <1>5, FunctionIsSeq
<1>7. ASSUME NEW k \in 1..Len(ns), Fits(q, k)
      PROVE  Len(q) + k \in 1..n /\ p[Len(q) + k] = ns[k]
  BY <1>1, <1>2, <1>7 DEF Fits
<1>8. \A k \in 1..Len(q) : p[k] = q[k]
  BY <1>1, <1>2
<1>9. ASSUME NEW k \in 1..n, k \notin 1..Len(q)
      PROVE  k - Len(q) \in 1..Len(ns) /\ p[k] = ns[k - Len(q)]
  BY <1>1, <1>2, <1>9
<1> QED
  BY <1>1, <1>2, <1>3, <1>6, <1>7, <1>8, <1>9

(* Whatever the order of the rows, what a poll publishes is a sequence of  *)
(* nudges with one for each event that advanced.                           *)
NudgesFor(i, order) ==
    [k \in DOMAIN order |-> [event |-> order[k], scope |-> batch[i][order[k]].scope]]

LEMMA PublishedNudges ==
    ASSUME TypeOK, NEW i \in Instances, NEW order \in Orders(Advanced(i))
    PROVE  /\ NudgesFor(i, order) \in Seq(Nudge)
           /\ DOMAIN NudgesFor(i, order) = 1..Len(NudgesFor(i, order))
           /\ \A e \in Advanced(i) : \E k \in DOMAIN NudgesFor(i, order) :
                 NudgesFor(i, order)[k] = [event |-> e, scope |-> batch[i][e].scope]
           /\ \A k \in DOMAIN NudgesFor(i, order) : NudgesFor(i, order)[k].event \in Advanced(i)
<1> DEFINE A == Advanced(i)
           n == Cardinality(A)
<1>1. A \subseteq Events
  BY DEF Advanced
<1>2. n \in Nat
  BY <1>1, ConstantsAssumption, FS_Subset, FS_CardinalityType
<1>3. order \in [1..n -> A] /\ \A e \in A : \E k \in DOMAIN order : order[k] = e
  BY DEF Orders
<1>4. ASSUME NEW k \in 1..n
      PROVE  [event |-> order[k], scope |-> batch[i][order[k]].scope] \in Nudge
  <2>1. order[k] \in Events
    BY <1>1, <1>3
  <2>2. batch[i][order[k]] \in Version
    BY <2>1 DEF TypeOK
  <2> QED
    BY <2>1, <2>2 DEF Nudge, Version
<1>5. NudgesFor(i, order) \in [1..n -> Nudge]
  BY <1>3, <1>4 DEF NudgesFor
<1>6. NudgesFor(i, order) \in Seq(Nudge) /\ Len(NudgesFor(i, order)) = n
  BY <1>2, <1>5, FunctionIsSeq
<1>7. ASSUME NEW e \in A
      PROVE  \E k \in DOMAIN NudgesFor(i, order) :
                NudgesFor(i, order)[k] = [event |-> e, scope |-> batch[i][e].scope]
  BY <1>3 DEF NudgesFor
<1>8. ASSUME NEW k \in DOMAIN NudgesFor(i, order)
      PROVE  NudgesFor(i, order)[k].event \in A
  BY <1>3 DEF NudgesFor
<1> QED
  BY <1>2, <1>5, <1>6, <1>7, <1>8

-----------------------------------------------------------------------------
(* Every reachable state is well typed, and no queue exceeds its limit. *)
LEMMA InitType == Init => TypeOK
<1> SUFFICES ASSUME Init PROVE TypeOK
  OBVIOUS
<1>1. QueueMax \in Nat
  BY ConstantsAssumption
<1>2. <<>> \in Seq(Nudge) /\ Len(<<>>) = 0
  OBVIOUS
<1>3. NoRow \in Version /\ NoRows \in [Events -> Version]
  BY DEF NoRow, NoRows, Version
<1>4. Idle \in TxType
  BY <1>3 DEF Idle, TxType
<1> QED
  BY <1>1, <1>2, <1>3, <1>4 DEF Init, TypeOK

LEMMA WorkerType ==
    ASSUME TypeOK, NEW k \in Tasks, Stamp(k) \/ LoadRow(k) \/ Commit(k) \/ Rollback(k)
    PROVE  TypeOK'
<1> USE DEF loopVars, clientVars
<1>0. EventOf[k] \in Events /\ ScopesOf[k] \subseteq SUBSET Tournaments /\ MaxStamp \in Nat
  BY ConstantsAssumption
<1>1. NoRow \in Version /\ Idle \in TxType
  BY DEF NoRow, Version, Idle, TxType
<1>2. CASE Stamp(k)
  <2>1. PICK scope \in ScopesOf[k], changed \in SUBSET Tournaments :
          tx' = [tx EXCEPT ![k] = [phase |-> "stamped", stamp |-> clock', scope |-> scope,
                                   changed |-> changed, base |-> NoRow]]
    BY <1>2 DEF Stamp
  <2>2. clock' \in Nat
    BY <1>2 DEF Stamp, TypeOK
  <2>3. [phase |-> "stamped", stamp |-> clock', scope |-> scope,
         changed |-> changed, base |-> NoRow] \in TxType
    BY <1>0, <1>1, <2>2 DEF TxType
  <2>4. tx' \in [Tasks -> TxType]
    BY <2>1, <2>3 DEF TypeOK
  <2> QED
    BY <1>2, <2>2, <2>4 DEF Stamp, TypeOK
<1>3. CASE LoadRow(k)
  <2>1. row[EventOf[k]] \in Version
    BY <1>0 DEF TypeOK
  <2>2. tx[k] \in TxType
    BY DEF TypeOK
  <2>3. [tx[k] EXCEPT !.phase = "loaded", !.base = row[EventOf[k]]] \in TxType
    BY <2>1, <2>2 DEF TxType
  <2>4. tx' \in [Tasks -> TxType]
    BY <1>3, <2>3 DEF LoadRow, TypeOK
  <2> QED
    BY <1>3, <2>4 DEF LoadRow, TypeOK
<1>4. CASE Commit(k)
  <2>1. Flushed(k) \in Version
    BY <1>0 DEF Flushed, Version, TypeOK, TxType
  <2>2. row' \in [Events -> Version]
    BY <1>4, <2>1 DEF Commit, TypeOK
  <2>3. tx' \in [Tasks -> TxType]
    BY <1>1, <1>4 DEF Commit, TypeOK
  <2>4. stale' \in [Clients -> SUBSET Events]
    BY <1>0, <1>4 DEF Commit, TypeOK
  <2> QED
    BY <1>4, <2>2, <2>3, <2>4 DEF Commit, TypeOK
<1>5. CASE Rollback(k)
  <2>1. tx' \in [Tasks -> TxType]
    BY <1>1, <1>5 DEF Rollback, TypeOK
  <2> QED
    BY <1>5, <2>1 DEF Rollback, TypeOK
<1> QED
  BY <1>2, <1>3, <1>4, <1>5

LEMMA InstanceType ==
    ASSUME TypeOK, NEW i \in Instances,
           PollRead(i) \/ PollPublish(i) \/ FirstPoll(i) \/ Restart(i)
    PROVE  TypeOK'
<1> USE DEF dbVars, loopVars, clientVars
<1>1. NoRows \in [Events -> Version]
  BY DEF NoRows, NoRow, Version
<1>2. SeenAfter(i) \in [Events -> Nat]
  BY DEF SeenAfter, TypeOK, Version
<1>3. CASE PollRead(i)
  BY <1>3 DEF PollRead, TypeOK
<1>4. CASE PollPublish(i)
  <2>1. PICK order \in Orders(Advanced(i)) :
          /\ queue' = [c \in Clients |-> IF conn[c] = i THEN Push(queue[c], NudgesFor(i, order))
                                                        ELSE queue[c]]
          /\ missed' = [c \in Clients |-> IF conn[c] = i THEN MissedAfter(c, NudgesFor(i, order))
                                                         ELSE missed[c]]
    BY <1>4 DEF PollPublish, NudgesFor
  <2>2. NudgesFor(i, order) \in Seq(Nudge)
    BY PublishedNudges
  <2>3. ASSUME NEW c \in Clients
        PROVE  queue'[c] \in Seq(Nudge) /\ Len(queue'[c]) <= QueueMax
    <3>1. queue[c] \in Seq(Nudge) /\ Len(queue[c]) <= QueueMax
      BY DEF TypeOK
    <3>2. /\ Push(queue[c], NudgesFor(i, order)) \in Seq(Nudge)
          /\ Len(Push(queue[c], NudgesFor(i, order))) <= QueueMax
      BY <2>2, <3>1, PushKeeps
    <3> QED
      BY <2>1, <3>1, <3>2
  <2>4. ASSUME NEW c \in Clients
        PROVE  missed'[c] \in SUBSET Events
    BY <2>1 DEF MissedAfter, TypeOK
  <2>5. queue' \in [Clients -> Seq(Nudge)] /\ missed' \in [Clients -> SUBSET Events]
    BY <2>1, <2>3, <2>4
  <2>6. seen' \in [Instances -> [Events -> Nat]] /\ batch' \in [Instances -> [Events -> Version]]
    BY <1>1, <1>2, <1>4 DEF PollPublish, TypeOK
  <2> QED
    BY <1>4, <2>3, <2>5, <2>6 DEF PollPublish, TypeOK
<1>5. CASE FirstPoll(i)
  <2>1. seen' \in [Instances -> [Events -> Nat]] /\ batch' \in [Instances -> [Events -> Version]]
    BY <1>1, <1>2, <1>5 DEF FirstPoll, TypeOK
  <2>2. missed' \in [Clients -> SUBSET Events]
    BY <1>5 DEF FirstPoll, TypeOK
  <2> QED
    BY <1>5, <2>1, <2>2 DEF FirstPoll, TypeOK
<1>6. CASE Restart(i)
  <2>1. seen' \in [Instances -> [Events -> Nat]] /\ batch' \in [Instances -> [Events -> Version]]
    BY <1>1, <1>6 DEF Restart, TypeOK
  <2>2. ASSUME NEW c \in Clients
        PROVE  queue'[c] \in Seq(Nudge) /\ Len(queue'[c]) <= QueueMax
    <3>1. <<>> \in Seq(Nudge) /\ Len(<<>>) = 0 /\ QueueMax \in Nat
      BY ConstantsAssumption
    <3> QED
      BY <1>6, <3>1 DEF Restart, TypeOK
  <2>3. /\ conn' \in [Clients -> Instances \union {Nowhere}]
        /\ todo' \in [Clients -> SUBSET Events]
        /\ missed' \in [Clients -> SUBSET Events]
    BY <1>6 DEF Restart, TypeOK
  <2>4. queue' \in [Clients -> Seq(Nudge)]
    BY <1>6, <2>2 DEF Restart
  <2> QED
    BY <1>6, <2>1, <2>2, <2>3, <2>4 DEF Restart, TypeOK
<1> QED
  BY <1>3, <1>4, <1>5, <1>6

LEMMA ClientType ==
    ASSUME TypeOK, NEW c \in Clients,
           \/ \E i \in Instances : Subscribe(c, i)
           \/ \E e \in Events : Refetch(c, e)
           \/ Deliver(c)
           \/ Unsubscribe(c)
    PROVE  TypeOK'
<1> USE DEF dbVars, loopVars
<1>1. <<>> \in Seq(Nudge) /\ Len(<<>>) = 0 /\ QueueMax \in Nat
  BY ConstantsAssumption
<1>2. ASSUME NEW i \in Instances, Subscribe(c, i)
      PROVE  TypeOK'
  BY <1>1, <1>2 DEF Subscribe, TypeOK
<1>3. ASSUME NEW e \in Events, Refetch(c, e)
      PROVE  TypeOK'
  BY <1>3 DEF Refetch, TypeOK
<1>4. CASE Deliver(c)
  <2>1. queue[c] \in Seq(Nudge) /\ queue[c] # <<>> /\ Len(queue[c]) <= QueueMax
    BY <1>4 DEF Deliver, TypeOK
  <2>2. /\ Head(queue[c]) \in Nudge
        /\ Tail(queue[c]) \in Seq(Nudge)
        /\ Len(Tail(queue[c])) <= QueueMax
    BY <1>1, <2>1, HeadTailProperties
  <2>3. Head(queue[c]).event \in Events
    BY <2>2 DEF Nudge
  <2>4. queue' \in [Clients -> Seq(Nudge)] /\ \A d \in Clients : Len(queue'[d]) <= QueueMax
    BY <1>4, <2>2 DEF Deliver, TypeOK
  <2>5. todo' \in [Clients -> SUBSET Events]
    BY <1>4, <2>3 DEF Deliver, TypeOK
  <2> QED
    BY <1>4, <2>4, <2>5 DEF Deliver, TypeOK
<1>5. CASE Unsubscribe(c)
  BY <1>1, <1>5 DEF Unsubscribe, TypeOK
<1> QED
  BY <1>2, <1>3, <1>4, <1>5

LEMMA NextType == TypeOK /\ [Next]_vars => TypeOK'
<1> SUFFICES ASSUME TypeOK, [Next]_vars PROVE TypeOK'
  OBVIOUS
<1>1. CASE WorkerNext
  BY <1>1, WorkerType DEF WorkerNext
<1>2. CASE InstanceNext
  BY <1>2, InstanceType DEF InstanceNext
<1>3. CASE ClientNext
  BY <1>3, ClientType DEF ClientNext
<1>4. CASE UNCHANGED vars
  BY <1>4 DEF vars, TypeOK
<1> QED
  BY <1>1, <1>2, <1>3, <1>4 DEF Next

THEOREM TypeCorrect == Spec => []TypeOK
<1> QED
  BY InitType, NextType, PTL DEF Spec

-----------------------------------------------------------------------------
(* The inductive step for each part of the invariants.  Each lemma goes     *)
(* through the actions that touch the part; the others leave its variables *)
(* alone.                                                                  *)

(* What a commit does to the row of its event. *)
LEMMA CommitRow ==
    ASSUME TypeOK, NEW k \in Tasks, Commit(k)
    PROVE  /\ EventOf[k] \in Events
           /\ row'[EventOf[k]].stamp = tx[k].stamp
           /\ row'[EventOf[k]].scope \in {tx[k].scope, row[EventOf[k]].scope}
           /\ \A e \in Events : e # EventOf[k] => row'[e] = row[e]
           /\ \A e \in Events : row[e].stamp \in Nat /\ row'[e].stamp \in Nat
<1>1. EventOf[k] \in Events
  BY ConstantsAssumption
<1>2. row' = [row EXCEPT ![EventOf[k]] = Flushed(k)]
  BY DEF Commit
<1>3. row'[EventOf[k]] = Flushed(k) /\ \A e \in Events : e # EventOf[k] => row'[e] = row[e]
  BY <1>1, <1>2 DEF TypeOK
<1>4. Flushed(k).stamp = tx[k].stamp /\ Flushed(k).scope \in {tx[k].scope, row[EventOf[k]].scope}
  BY DEF Flushed
<1>5. \A e \in Events : row[e].stamp \in Nat
  BY DEF TypeOK, Version
<1>6. tx[k].stamp \in Nat
  BY DEF TypeOK, TxType
<1> QED
  BY <1>1, <1>3, <1>4, <1>5, <1>6

(* A commit takes an event with one writer forward. *)
LEMMA CommitAdvances ==
    ASSUME NEW e \in Events, VersionInv(e), NEW k \in Tasks, Commit(k)
    PROVE  /\ row[e].stamp <= row'[e].stamp
           /\ EventOf[k] = e => row[e].stamp < row'[e].stamp
           /\ EventOf[k] # e => row'[e] = row[e]
<1>1. tx[k].phase = "loaded"
  BY DEF Commit
<1>2. EventOf[k] = e => row[e].stamp < tx[k].stamp
  BY <1>1 DEF VersionInv, WriterIsAhead
<1>3. tx[k].stamp \in Nat
  BY DEF VersionInv, TypeOK, TxType
<1> QED
  BY <1>2, <1>3, CommitRow DEF VersionInv

LEMMA SeenIsOldStep ==
    ASSUME NEW e \in Events, VersionInv(e), [Next]_vars
    PROVE  SeenIsOld(e)'
<1> USE DEF dbVars, loopVars, clientVars
<1>0. /\ SeenIsOld(e)
      /\ seen \in [Instances -> [Events -> Nat]]
      /\ batch \in [Instances -> [Events -> Version]]
      /\ row[e].stamp \in Nat
      /\ \A i \in Instances : batch[i][e].stamp \in Nat
  BY DEF VersionInv, TypeOK, Version
<1>1. ASSUME NEW k \in Tasks, Stamp(k) \/ LoadRow(k) \/ Rollback(k)
      PROVE  SeenIsOld(e)'
  BY <1>0, <1>1 DEF Stamp, LoadRow, Rollback, SeenIsOld
<1>2. ASSUME NEW k \in Tasks, Commit(k)
      PROVE  SeenIsOld(e)'
  <2>1. seen' = seen /\ batch' = batch /\ reading' = reading
    BY <1>2 DEF Commit
  <2>2. row[e].stamp <= row'[e].stamp /\ row'[e].stamp \in Nat
    BY <1>2, CommitAdvances, CommitRow DEF VersionInv
  <2>3. \A i \in Instances : seen[i][e] \in Nat
    BY <1>0
  <2> QED
    BY <1>0, <2>1, <2>2, <2>3 DEF SeenIsOld
<1>3. ASSUME NEW i \in Instances, PollRead(i)
      PROVE  SeenIsOld(e)'
  BY <1>0, <1>3 DEF PollRead, SeenIsOld
<1>4. ASSUME NEW i \in Instances, PollPublish(i) \/ FirstPoll(i)
      PROVE  SeenIsOld(e)'
  <2>1. /\ i \in reading
        /\ row' = row
        /\ seen' = [seen EXCEPT ![i] = SeenAfter(i)]
        /\ reading' = reading \ {i}
        /\ batch' = [batch EXCEPT ![i] = NoRows]
    BY <1>4 DEF PollPublish, FirstPoll
  <2>2. seen'[i][e] = batch[i][e].stamp
    BY <1>0, <2>1 DEF SeenAfter
  <2>3. \A j \in Instances \ {i} : seen'[j] = seen[j] /\ batch'[j] = batch[j]
    BY <1>0, <2>1
  <2> QED
    BY <1>0, <2>1, <2>2, <2>3 DEF SeenIsOld
<1>5. ASSUME NEW i \in Instances, Restart(i)
      PROVE  SeenIsOld(e)'
  <2>1. /\ row' = row
        /\ seen' = [seen EXCEPT ![i] = [f \in Events |-> 0]]
        /\ reading' = reading \ {i}
        /\ batch' = [batch EXCEPT ![i] = NoRows]
    BY <1>5 DEF Restart
  <2>2. seen'[i][e] = 0
    BY <1>0, <2>1
  <2>3. \A j \in Instances \ {i} : seen'[j] = seen[j] /\ batch'[j] = batch[j]
    BY <1>0, <2>1
  <2> QED
    BY <1>0, <2>1, <2>2, <2>3 DEF SeenIsOld
<1>6. CASE ClientNext
  BY <1>0, <1>6 DEF ClientNext, Subscribe, Refetch, Deliver, Unsubscribe, SeenIsOld
<1>7. CASE UNCHANGED vars
  BY <1>0, <1>7 DEF vars, SeenIsOld
<1> QED
  BY <1>1, <1>2, <1>3, <1>4, <1>5, <1>6, <1>7 DEF Next, WorkerNext, InstanceNext

LEMMA WriterIsAheadStep ==
    ASSUME NEW e \in Events, SoleWriterOf(e), VersionInv(e), [Next]_vars
    PROVE  WriterIsAhead(e)'
<1> USE DEF dbVars, loopVars, clientVars
<1>0. /\ WriterIsAhead(e)
      /\ clock \in Nat
      /\ tx \in [Tasks -> TxType]
      /\ row[e].stamp \in Nat
      /\ \A k \in Tasks : tx[k].stamp \in Nat /\ EventOf[k] \in Events
  BY ConstantsAssumption DEF VersionInv, TypeOK, Version, TxType
<1>1. ASSUME NEW k \in Tasks, Stamp(k)
      PROVE  WriterIsAhead(e)'
  <2>1. PICK scope \in ScopesOf[k], changed \in SUBSET Tournaments :
          tx' = [tx EXCEPT ![k] = [phase |-> "stamped", stamp |-> clock', scope |-> scope,
                                   changed |-> changed, base |-> NoRow]]
    BY <1>1 DEF Stamp
  <2>2. clock' = clock + 1 /\ row' = row
    BY <1>1 DEF Stamp
  <2>3. tx'[k].phase = "stamped" /\ tx'[k].stamp = clock + 1
    BY <1>0, <2>1, <2>2
  <2>4. \A j \in Tasks \ {k} : tx'[j] = tx[j]
    BY <1>0, <2>1
  <2> QED
    BY <1>0, <2>2, <2>3, <2>4 DEF WriterIsAhead
<1>2. ASSUME NEW k \in Tasks, LoadRow(k)
      PROVE  WriterIsAhead(e)'
  <2>1. tx[k].phase # "idle" /\ clock' = clock /\ row' = row
    BY <1>2 DEF LoadRow
  <2>2. tx'[k].stamp = tx[k].stamp /\ tx'[k].base = row[EventOf[k]]
    BY <1>0, <1>2 DEF LoadRow, TxType
  <2>3. \A j \in Tasks \ {k} : tx'[j] = tx[j]
    BY <1>0, <1>2 DEF LoadRow
  <2> QED
    BY <1>0, <2>1, <2>2, <2>3 DEF WriterIsAhead
<1>3. ASSUME NEW k \in Tasks, Commit(k)
      PROVE  WriterIsAhead(e)'
  <2>1. clock' = clock /\ tx' = [tx EXCEPT ![k] = Idle]
    BY <1>3 DEF Commit
  <2>2. tx'[k].phase = "idle" /\ tx'[k].stamp = 0
    BY <1>0, <2>1 DEF Idle
  <2>3. \A j \in Tasks \ {k} : tx'[j] = tx[j]
    BY <1>0, <2>1
  <2>4. CASE EventOf[k] = e
    <3>1. row'[e].stamp = tx[k].stamp
      BY <1>3, <2>4, CommitRow DEF VersionInv
    <3>2. \A j \in Tasks : EventOf[j] = e => j = k
      BY <2>4 DEF SoleWriterOf
    <3>3. tx[k].stamp <= clock
      BY <1>0, <2>4 DEF WriterIsAhead
    <3> QED
      BY <1>0, <2>1, <2>2, <3>1, <3>2, <3>3 DEF WriterIsAhead
  <2>5. CASE EventOf[k] # e
    <3>1. row'[e] = row[e]
      BY <1>3, <2>5, CommitAdvances
    <3> QED
      BY <1>0, <2>1, <2>3, <2>5, <3>1 DEF WriterIsAhead
  <2> QED
    BY <2>4, <2>5
<1>4. ASSUME NEW k \in Tasks, Rollback(k)
      PROVE  WriterIsAhead(e)'
  <2>1. clock' = clock /\ row' = row /\ tx' = [tx EXCEPT ![k] = Idle]
    BY <1>4 DEF Rollback
  <2>2. tx'[k].phase = "idle" /\ tx'[k].stamp = 0
    BY <1>0, <2>1 DEF Idle
  <2>3. \A j \in Tasks \ {k} : tx'[j] = tx[j]
    BY <1>0, <2>1
  <2> QED
    BY <1>0, <2>1, <2>2, <2>3 DEF WriterIsAhead
<1>5. CASE InstanceNext
  BY <1>0, <1>5 DEF InstanceNext, PollRead, PollPublish, FirstPoll, Restart, WriterIsAhead
<1>6. CASE ClientNext
  BY <1>0, <1>6 DEF ClientNext, Subscribe, Refetch, Deliver, Unsubscribe, WriterIsAhead
<1>7. CASE UNCHANGED vars
  BY <1>0, <1>7 DEF vars, WriterIsAhead
<1> QED
  BY <1>1, <1>2, <1>3, <1>4, <1>5, <1>6, <1>7 DEF Next, WorkerNext

LEMMA ScopesReachStep ==
    ASSUME NEW c \in Clients, NEW e \in Events, AlwaysReached(c, e),
           TypeOK, ScopesReach(c, e), [Next]_vars
    PROVE  ScopesReach(c, e)'
<1> USE DEF dbVars, loopVars, clientVars
<1> DEFINE Reaches(scope) == Covers(scope, Watch[c])
<1>0. /\ ScopesReach(c, e)
      /\ tx \in [Tasks -> TxType]
      /\ batch \in [Instances -> [Events -> Version]]
  BY DEF TypeOK
<1>1. Reaches({})
  BY DEF Covers
<1>2. ASSUME NEW k \in Tasks, Stamp(k)
      PROVE  ScopesReach(c, e)'
  <2>1. PICK scope \in ScopesOf[k], changed \in SUBSET Tournaments :
          tx' = [tx EXCEPT ![k] = [phase |-> "stamped", stamp |-> clock', scope |-> scope,
                                   changed |-> changed, base |-> NoRow]]
    BY <1>2 DEF Stamp
  <2>2. EventOf[k] = e => Reaches(tx'[k].scope)
    BY <1>0, <2>1 DEF AlwaysReached
  <2>3. \A j \in Tasks \ {k} : tx'[j] = tx[j]
    BY <1>0, <2>1
  <2> QED
    BY <1>0, <1>2, <2>2, <2>3 DEF Stamp, ScopesReach
<1>3. ASSUME NEW k \in Tasks, LoadRow(k)
      PROVE  ScopesReach(c, e)'
  <2>1. \A j \in Tasks : tx'[j].scope = tx[j].scope
    BY <1>0, <1>3 DEF LoadRow, TxType
  <2> QED
    BY <1>0, <1>3, <2>1 DEF LoadRow, ScopesReach
<1>4. ASSUME NEW k \in Tasks, Commit(k) \/ Rollback(k)
      PROVE  ScopesReach(c, e)'
  <2>1. tx' = [tx EXCEPT ![k] = Idle] /\ batch' = batch
    BY <1>4 DEF Commit, Rollback
  <2>2. \A j \in Tasks : EventOf[j] = e => Reaches(tx'[j].scope)
    BY <1>0, <1>1, <2>1 DEF Idle, ScopesReach
  <2>3. Reaches(row'[e].scope)
    <3>1. CASE Commit(k) /\ EventOf[k] = e
      BY <1>0, <3>1, CommitRow DEF ScopesReach
    <3>2. CASE Commit(k) /\ EventOf[k] # e
      BY <1>0, <3>2, CommitRow DEF ScopesReach
    <3>3. CASE Rollback(k)
      BY <1>0, <3>3 DEF Rollback, ScopesReach
    <3> QED
      BY <1>4, <3>1, <3>2, <3>3
  <2> QED
    BY <1>0, <2>1, <2>2, <2>3 DEF ScopesReach
<1>5. ASSUME NEW i \in Instances, PollRead(i)
      PROVE  ScopesReach(c, e)'
  BY <1>0, <1>5 DEF PollRead, ScopesReach
<1>6. ASSUME NEW i \in Instances, PollPublish(i) \/ FirstPoll(i) \/ Restart(i)
      PROVE  ScopesReach(c, e)'
  <2>1. row' = row /\ tx' = tx /\ batch' = [batch EXCEPT ![i] = NoRows]
    BY <1>6 DEF PollPublish, FirstPoll, Restart
  <2>2. Reaches(batch'[i][e].scope)
    BY <1>0, <1>1, <2>1 DEF NoRows, NoRow
  <2>3. \A j \in Instances \ {i} : batch'[j] = batch[j]
    BY <1>0, <2>1
  <2> QED
    BY <1>0, <2>1, <2>2, <2>3 DEF ScopesReach
<1>7. CASE ClientNext
  BY <1>0, <1>7 DEF ClientNext, Subscribe, Refetch, Deliver, Unsubscribe, ScopesReach
<1>8. CASE UNCHANGED vars
  BY <1>0, <1>8 DEF vars, ScopesReach
<1> QED
  BY <1>2, <1>3, <1>4, <1>5, <1>6, <1>7, <1>8 DEF Next, WorkerNext, InstanceNext

LEMMA OfflineIsQuietStep ==
    ASSUME TypeOK, OfflineIsQuiet, [Next]_vars
    PROVE  OfflineIsQuiet'
<1> USE DEF dbVars, loopVars, clientVars
<1>0. /\ OfflineIsQuiet
      /\ conn \in [Clients -> Instances \union {Nowhere}]
      /\ todo \in [Clients -> SUBSET Events]
      /\ Nowhere \notin Instances
  BY ConstantsAssumption DEF TypeOK
<1>1. CASE WorkerNext
  BY <1>0, <1>1 DEF WorkerNext, Stamp, LoadRow, Commit, Rollback, OfflineIsQuiet
<1>2. ASSUME NEW i \in Instances, PollRead(i) \/ PollPublish(i) \/ FirstPoll(i)
      PROVE  OfflineIsQuiet'
  BY <1>0, <1>2 DEF PollRead, PollPublish, FirstPoll, OfflineIsQuiet
<1>3. ASSUME NEW i \in Instances, Restart(i)
      PROVE  OfflineIsQuiet'
  BY <1>0, <1>3 DEF Restart, OfflineIsQuiet
<1>4. ASSUME NEW c \in Clients, NEW i \in Instances, Subscribe(c, i)
      PROVE  OfflineIsQuiet'
  BY <1>0, <1>4 DEF Subscribe, OfflineIsQuiet
<1>5. ASSUME NEW c \in Clients, Deliver(c)
      PROVE  OfflineIsQuiet'
  BY <1>0, <1>5 DEF Deliver, OfflineIsQuiet
<1>6. ASSUME NEW c \in Clients, NEW e \in Events, Refetch(c, e)
      PROVE  OfflineIsQuiet'
  BY <1>0, <1>6 DEF Refetch, OfflineIsQuiet
<1>7. ASSUME NEW c \in Clients, Unsubscribe(c)
      PROVE  OfflineIsQuiet'
  BY <1>0, <1>7 DEF Unsubscribe, OfflineIsQuiet
<1>8. CASE UNCHANGED vars
  BY <1>0, <1>8 DEF vars, OfflineIsQuiet
<1> QED
  BY <1>1, <1>2, <1>3, <1>4, <1>5, <1>6, <1>7, <1>8 DEF Next, InstanceNext, ClientNext

LEMMA InitViewerInv ==
    ASSUME Init, NEW e \in Events
    PROVE  /\ VersionInv(e)
           /\ \A c \in Clients : ScopesReach(c, e)
<1>1. SeenIsOld(e)
  BY DEF Init, NoRow, SeenIsOld
<1>2. WriterIsAhead(e)
  BY ConstantsAssumption DEF Init, NoRow, Idle, WriterIsAhead
<1>3. \A c \in Clients : ScopesReach(c, e)
  BY DEF Init, NoRows, NoRow, Idle, Covers, ScopesReach
<1> QED
  BY <1>1, <1>2, <1>3, InitType DEF VersionInv

LEMMA InitIInv == Init => IInv
<1> SUFFICES ASSUME Init PROVE IInv
  OBVIOUS
<1>1. OfflineIsQuiet
  BY DEF Init, OfflineIsQuiet
<1> QED
  BY <1>1, InitType, InitViewerInv DEF IInv

LEMMA NextVersionInv ==
    ASSUME NEW e \in Events, SoleWriterOf(e), VersionInv(e), [Next]_vars
    PROVE  VersionInv(e)'
<1>1. TypeOK'
  BY NextType DEF VersionInv
<1> QED
  BY <1>1, SeenIsOldStep, WriterIsAheadStep DEF VersionInv

LEMMA NextIInv ==
    ASSUME SoleWriter, EveryoneReached
    PROVE  IInv /\ [Next]_vars => IInv'
<1> SUFFICES ASSUME IInv, [Next]_vars PROVE IInv'
  OBVIOUS
<1>1. TypeOK' /\ OfflineIsQuiet'
  BY NextType, OfflineIsQuietStep DEF IInv
<1>2. \A e \in Events : VersionInv(e)'
  BY NextVersionInv DEF IInv, SoleWriter
<1>3. \A c \in Clients : \A e \in Events : ScopesReach(c, e)'
  BY ScopesReachStep DEF IInv, EveryoneReached
<1> QED
  BY <1>1, <1>2, <1>3 DEF IInv

(* The versions of an event with one writer are in order everywhere:       *)
(* last_seen, then the batch being read, then the table, then the stamp of *)
(* the open transaction (emit_nudge, poll_for_nudges).                     *)
THEOREM VersionsInOrder ==
    ASSUME NEW e \in Events, SoleWriterOf(e)
    PROVE  Spec => []VersionInv(e)
<1>1. Init => VersionInv(e)
  BY InitViewerInv
<1>2. VersionInv(e) /\ [Next]_vars => VersionInv(e)'
  BY NextVersionInv
<1> QED
  BY <1>1, <1>2, PTL DEF Spec

(* Where this is so of all events, and every tick concerns every viewer's  *)
(* tournament, each reachable state satisfies the invariant the refinement *)
(* rests on.                                                               *)
THEOREM Invariance ==
    ASSUME SoleWriter, EveryoneReached
    PROVE  Spec => []IInv
<1>1. Init => IInv
  BY InitIInv
<1>2. IInv /\ [Next]_vars => IInv'
  BY NextIInv
<1> QED
  BY <1>1, <1>2, PTL DEF Spec

-----------------------------------------------------------------------------
(* The version of an event never goes back in the table when one task      *)
(* writes it (emit_nudge).                                                 *)
LEMMA RowStep ==
    ASSUME NEW e \in Events, VersionInv(e), [Next]_vars
    PROVE  row'[e].stamp >= row[e].stamp
<1> USE DEF dbVars, loopVars, clientVars
<1>0. row[e].stamp \in Nat
  BY DEF VersionInv, TypeOK, Version
<1>1. ASSUME NEW k \in Tasks, Commit(k)
      PROVE  row'[e].stamp >= row[e].stamp
  BY <1>0, <1>1, CommitAdvances, CommitRow DEF VersionInv
<1>2. CASE row' = row
  BY <1>0, <1>2
<1>3. row' = row \/ \E k \in Tasks : Commit(k)
  BY DEF Next, WorkerNext, InstanceNext, ClientNext, Stamp, LoadRow, Rollback, PollRead,
         PollPublish, FirstPoll, Restart, Subscribe, Refetch, Deliver, Unsubscribe, vars
<1> QED
  BY <1>1, <1>2, <1>3

THEOREM RowMonotone ==
    ASSUME SoleWriter
    PROVE  Spec => RowNeverGoesBack
<1> DEFINE Inv == TypeOK /\ \A e \in Events : VersionInv(e)
<1>1. Init => Inv
  BY InitType, InitViewerInv
<1>2. Inv /\ [Next]_vars => Inv'
  BY NextType, NextVersionInv DEF SoleWriter
<1>3. Inv /\ [Next]_vars => [\A e \in Events : row'[e].stamp >= row[e].stamp]_vars
  BY RowStep
<1> QED
  BY <1>1, <1>2, <1>3, PTL DEF Spec, RowNeverGoesBack

(* An instance's last_seen never goes back while its poll loop runs. *)
LEMMA SeenStep ==
    ASSUME NEW e \in Events, VersionInv(e), [Next]_vars, NEW i \in Instances, i \in ready'
    PROVE  seen'[i][e] >= seen[i][e]
<1> USE DEF dbVars, loopVars, clientVars
<1>0. /\ SeenIsOld(e)
      /\ seen \in [Instances -> [Events -> Nat]]
      /\ batch \in [Instances -> [Events -> Version]]
      /\ \A j \in Instances : batch[j][e].stamp \in Nat
  BY DEF VersionInv, TypeOK, Version
<1>1. ASSUME NEW j \in Instances, PollPublish(j) \/ FirstPoll(j)
      PROVE  seen'[i][e] >= seen[i][e]
  <2>1. j \in reading /\ seen' = [seen EXCEPT ![j] = SeenAfter(j)]
    BY <1>1 DEF PollPublish, FirstPoll
  <2>2. seen[j][e] <= batch[j][e].stamp /\ seen'[j][e] = batch[j][e].stamp
    BY <1>0, <2>1 DEF SeenIsOld, SeenAfter
  <2>3. j # i => seen'[i] = seen[i]
    BY <1>0, <2>1
  <2> QED
    BY <1>0, <2>2, <2>3
<1>2. ASSUME NEW j \in Instances, Restart(j)
      PROVE  seen'[i][e] >= seen[i][e]
  <2>1. i # j
    BY <1>2 DEF Restart
  <2>2. seen'[i] = seen[i]
    BY <1>0, <1>2, <2>1 DEF Restart
  <2> QED
    BY <1>0, <2>2
<1>3. CASE seen' = seen
  BY <1>0, <1>3
<1>4. \/ seen' = seen
      \/ \E j \in Instances : PollPublish(j) \/ FirstPoll(j) \/ Restart(j)
  BY DEF Next, WorkerNext, InstanceNext, ClientNext, Stamp, LoadRow, Commit, Rollback, PollRead,
         Subscribe, Refetch, Deliver, Unsubscribe, vars
<1> QED
  BY <1>1, <1>2, <1>3, <1>4

THEOREM SeenMonotone ==
    ASSUME SoleWriter
    PROVE  Spec => SeenNeverGoesBack
<1> DEFINE Inv == TypeOK /\ \A e \in Events : VersionInv(e)
<1>1. Init => Inv
  BY InitType, InitViewerInv
<1>2. Inv /\ [Next]_vars => Inv'
  BY NextType, NextVersionInv DEF SoleWriter
<1>3. Inv /\ [Next]_vars =>
        [\A i \in Instances : \A e \in Events : i \in ready' => seen'[i][e] >= seen[i][e]]_vars
  BY SeenStep
<1> QED
  BY <1>1, <1>2, <1>3, PTL DEF Spec, SeenNeverGoesBack

-----------------------------------------------------------------------------
(* What becomes of the word on its way to one viewer about one event.      *)

(* Publishing a batch drops no word but those it counts as missed: what    *)
(* was queued stays queued, and an event that advanced is now in the queue *)
(* or missed (poll_for_nudges, EventHub.publish).                          *)
LEMMA PublishTells ==
    ASSUME NEW c \in Clients, NEW e \in Events, ViewerInv(c, e),
           NEW i \in Instances, PollPublish(i), conn[c] = i
    PROVE  /\ OnItsWay(c, e)' => OnItsWay(c, e)
           /\ OnItsWay(c, e) \/ e \in missed[c] => OnItsWay(c, e)' \/ e \in missed'[c]
<1>1. PICK order \in Orders(Advanced(i)) :
        /\ queue' = [d \in Clients |-> IF conn[d] = i THEN Push(queue[d], NudgesFor(i, order))
                                                      ELSE queue[d]]
        /\ missed' = [d \in Clients |-> IF conn[d] = i THEN MissedAfter(d, NudgesFor(i, order))
                                                       ELSE missed[d]]
  BY DEF PollPublish, NudgesFor
<1> DEFINE ns == NudgesFor(i, order)
           q == queue[c]
<1>2. /\ q \in Seq(Nudge) /\ Len(q) <= QueueMax /\ Watch[c] \in Tournaments
      /\ DOMAIN q = 1..Len(q) /\ Len(q) \in Nat
  BY ConstantsAssumption DEF ViewerInv, VersionInv, TypeOK
<1>3. ns \in Seq(Nudge) /\ DOMAIN ns = 1..Len(ns) /\ Len(ns) \in Nat
  BY PublishedNudges DEF ViewerInv, VersionInv
<1>4. queue'[c] = Push(q, ns) /\ missed'[c] = MissedAfter(c, ns)
  BY <1>1
<1>5. Push(q, ns) \in Seq(Nudge) /\ DOMAIN Push(q, ns) = 1..Len(Push(q, ns))
  BY <1>2, <1>3, PushKeeps
<1>6. conn' = conn /\ todo' = todo /\ row' = row /\ seen' = [seen EXCEPT ![i] = SeenAfter(i)]
  BY DEF PollPublish, dbVars
<1>7. /\ seen'[i][e] = batch[i][e].stamp
      /\ seen[i][e] <= batch[i][e].stamp /\ batch[i][e].stamp <= row[e].stamp
      /\ seen[i][e] \in Nat /\ batch[i][e].stamp \in Nat /\ row[e].stamp \in Nat
  BY <1>6 DEF PollPublish, SeenAfter, ViewerInv, VersionInv, SeenIsOld, TypeOK, Version
<1>8. ASSUME NEW k \in DOMAIN q, q[k].event = e, Covers(q[k].scope, Watch[c])
      PROVE  OnItsWay(c, e)'
  <2>1. k \in DOMAIN Push(q, ns) /\ Push(q, ns)[k] = q[k]
    BY <1>2, <1>3, <1>5, PushKeeps
  <2> QED
    BY <1>4, <1>8, <2>1 DEF OnItsWay
<1>9. ASSUME NEW k \in Concerning(ns, c, e)
      PROVE  OnItsWay(c, e)' \/ e \in missed'[c]
  <2>1. k \in DOMAIN ns /\ ns[k].event = e /\ Covers(ns[k].scope, Watch[c])
    BY DEF Concerning
  <2>2. CASE Fits(q, k)
    <3>1. Len(q) + k \in DOMAIN Push(q, ns) /\ Push(q, ns)[Len(q) + k] = ns[k]
      BY <1>2, <1>3, <1>5, <2>1, <2>2, PushKeeps
    <3> QED
      BY <1>4, <2>1, <3>1 DEF OnItsWay
  <2>3. CASE ~Fits(q, k)
    BY <1>4, <2>3 DEF MissedAfter
  <2> QED
    BY <2>2, <2>3
<1>10. ASSUME e \in Advanced(i)
       PROVE  \E k \in DOMAIN ns : k \in Concerning(ns, c, e)
  <2>1. PICK k \in DOMAIN ns : ns[k] = [event |-> e, scope |-> batch[i][e].scope]
    BY <1>10, PublishedNudges DEF ViewerInv, VersionInv
  <2>2. Covers(batch[i][e].scope, Watch[c])
    BY <1>2 DEF ViewerInv, ScopesReach
  <2> QED
    BY <2>1, <2>2 DEF Concerning
<1>11. ASSUME OnItsWay(c, e)
       PROVE  OnItsWay(c, e)' \/ e \in missed'[c]
  <2>1. CASE e \in todo[c]
    BY <1>6, <2>1 DEF OnItsWay
  <2>2. CASE \E k \in DOMAIN q : q[k].event = e /\ Covers(q[k].scope, Watch[c])
    BY <1>8, <2>2
  <2>3. CASE row[e].stamp > seen[i][e]
    <3>1. CASE e \in Advanced(i)
      BY <1>9, <1>10, <3>1
    <3>2. CASE e \notin Advanced(i)
      <4>1. row[e].stamp > batch[i][e].stamp
        BY <1>7, <2>3, <3>2 DEF Advanced
      <4> QED
        BY <1>6, <1>7, <4>1 DEF OnItsWay
    <3> QED
      BY <3>1, <3>2
  <2> QED
    BY <1>11, <2>1, <2>2, <2>3 DEF OnItsWay
<1>12. ASSUME e \in missed[c]
       PROVE  OnItsWay(c, e)' \/ e \in missed'[c]
  <2>1. CASE \E k \in DOMAIN ns : k \in Concerning(ns, c, e)
    BY <1>9, <2>1
  <2>2. CASE \A k \in DOMAIN ns : k \notin Concerning(ns, c, e)
    BY <1>4, <1>12, <2>2 DEF MissedAfter, Concerning
  <2> QED
    BY <2>1, <2>2
<1>13. ASSUME OnItsWay(c, e)'
       PROVE  OnItsWay(c, e)
  <2>1. CASE e \in todo'[c]
    BY <1>6, <2>1 DEF OnItsWay
  <2>2. CASE row'[e].stamp > seen'[conn'[c]][e]
    BY <1>6, <1>7, <2>2 DEF OnItsWay
  <2>3. ASSUME NEW k \in DOMAIN Push(q, ns), Push(q, ns)[k].event = e
        PROVE  (k \in DOMAIN q /\ Push(q, ns)[k] = q[k]) \/ e \in Advanced(i)
    <3>1. k \in 1..Len(Push(q, ns))
      BY <1>5
    <3>2. CASE k \in 1..Len(q)
      BY <1>2, <1>3, <3>2, PushKeeps
    <3>3. CASE k \notin 1..Len(q)
      <4>1. k - Len(q) \in DOMAIN ns /\ Push(q, ns)[k] = ns[k - Len(q)]
        BY <1>2, <1>3, <3>1, <3>3, PushKeeps
      <4>2. \A j \in DOMAIN ns : ns[j].event \in Advanced(i)
        BY PublishedNudges DEF ViewerInv, VersionInv
      <4> QED
        BY <2>3, <4>1, <4>2
    <3> QED
      BY <3>2, <3>3
  <2>4. e \in Advanced(i) => OnItsWay(c, e)
    BY <1>7 DEF Advanced, OnItsWay
  <2>5. CASE \E k \in DOMAIN queue'[c] :
               queue'[c][k].event = e /\ Covers(queue'[c][k].scope, Watch[c])
    BY <1>4, <2>3, <2>4, <2>5 DEF OnItsWay
  <2> QED
    BY <1>13, <2>1, <2>2, <2>5 DEF OnItsWay
<1> QED
  BY <1>11, <1>12, <1>13

(* A first poll takes an event's version as known without announcing it,   *)
(* and counts it as missed (the `initialized` flag of poll_for_nudges).    *)
LEMMA FirstPollTells ==
    ASSUME NEW c \in Clients, NEW e \in Events, ViewerInv(c, e),
           NEW i \in Instances, FirstPoll(i), conn[c] = i
    PROVE  /\ OnItsWay(c, e)' => OnItsWay(c, e)
           /\ OnItsWay(c, e) \/ e \in missed[c] => OnItsWay(c, e)' \/ e \in missed'[c]
<1>1. /\ seen'[i][e] = batch[i][e].stamp
      /\ seen[i][e] <= batch[i][e].stamp /\ batch[i][e].stamp <= row[e].stamp
      /\ seen[i][e] \in Nat /\ batch[i][e].stamp \in Nat /\ row[e].stamp \in Nat
  BY DEF FirstPoll, SeenAfter, ViewerInv, VersionInv, SeenIsOld, TypeOK, Version
<1>2. conn' = conn /\ todo' = todo /\ row' = row /\ queue' = queue
  BY DEF FirstPoll, dbVars
<1>3. missed'[c] = missed[c] \union {f \in Events : batch[i][f].stamp # 0}
  BY DEF FirstPoll
<1>4. OnItsWay(c, e)' => OnItsWay(c, e)
  BY <1>1, <1>2 DEF OnItsWay
<1>5. ASSUME OnItsWay(c, e)
      PROVE  OnItsWay(c, e)' \/ e \in missed'[c]
  <2>1. CASE batch[i][e].stamp # 0
    BY <1>3, <2>1
  <2>2. CASE batch[i][e].stamp = 0
    BY <1>1, <1>2, <1>5, <2>2 DEF OnItsWay
  <2> QED
    BY <2>1, <2>2
<1> QED
  BY <1>3, <1>4, <1>5

(* A frame that reaches the page becomes a refetch, or concerns others     *)
(* (_event_stream).                                                        *)
LEMMA DeliverTells ==
    ASSUME TypeOK, NEW c \in Clients, Deliver(c), NEW d \in Clients, NEW e \in Events
    PROVE  OnItsWay(d, e)' <=> OnItsWay(d, e)
<1>1. conn' = conn /\ row' = row /\ seen' = seen
  BY DEF Deliver, dbVars, loopVars
<1>2. queue' = [queue EXCEPT ![c] = Tail(@)]
  BY DEF Deliver
<1>3. queue \in [Clients -> Seq(Nudge)] /\ todo \in [Clients -> SUBSET Events]
  BY DEF TypeOK
<1>4. CASE d # c
  <2>1. queue'[d] = queue[d] /\ todo'[d] = todo[d]
    BY <1>2, <1>3, <1>4 DEF Deliver
  <2> QED
    BY <1>1, <2>1 DEF OnItsWay
<1>5. CASE d = c
  <2> DEFINE q == queue[c]
             first == Head(q)
  <2>1. q \in Seq(Nudge) /\ q # <<>> /\ queue'[c] = Tail(q)
    BY <1>2, <1>3 DEF Deliver
  <2>2. /\ Len(q) \in Nat \ {0} /\ DOMAIN q = 1..Len(q) /\ first = q[1]
        /\ Len(Tail(q)) = Len(q) - 1 /\ DOMAIN Tail(q) = 1..(Len(q) - 1)
        /\ \A k \in 1..(Len(q) - 1) : Tail(q)[k] = q[k + 1]
    BY <2>1
  <2>3. todo'[c] = IF Covers(first.scope, Watch[c]) THEN todo[c] \union {first.event} ELSE todo[c]
    BY <1>3 DEF Deliver
  <2>4. ASSUME NEW k \in DOMAIN q, q[k].event = e, Covers(q[k].scope, Watch[c])
        PROVE  OnItsWay(c, e)'
    <3>1. CASE k = 1
      BY <2>2, <2>3, <2>4, <3>1 DEF OnItsWay
    <3>2. CASE k # 1
      <4>1. k - 1 \in DOMAIN Tail(q) /\ Tail(q)[k - 1] = q[k]
        BY <2>2, <3>2
      <4> QED
        BY <2>1, <2>4, <4>1 DEF OnItsWay
    <3> QED
      BY <3>1, <3>2
  <2>5. ASSUME NEW k \in DOMAIN Tail(q), Tail(q)[k].event = e, Covers(Tail(q)[k].scope, Watch[c])
        PROVE  OnItsWay(c, e)
    <3>1. k + 1 \in DOMAIN q /\ q[k + 1] = Tail(q)[k]
      BY <2>2
    <3> QED
      BY <2>5, <3>1 DEF OnItsWay
  <2>6. ASSUME e \in todo'[c]
        PROVE  OnItsWay(c, e)
    <3>1. e \in todo[c] \/ (e = first.event /\ Covers(first.scope, Watch[c]))
      BY <2>3, <2>6
    <3>2. 1 \in DOMAIN q /\ first = q[1]
      BY <2>2
    <3> QED
      BY <3>1, <3>2 DEF OnItsWay
  <2>7. e \in todo[c] => e \in todo'[c]
    BY <2>3
  <2>8. OnItsWay(c, e) => OnItsWay(c, e)'
    BY <1>1, <2>4, <2>7 DEF OnItsWay
  <2>9. OnItsWay(c, e)' => OnItsWay(c, e)
    BY <1>1, <2>1, <2>5, <2>6 DEF OnItsWay
  <2> QED
    BY <1>5, <2>8, <2>9
<1> QED
  BY <1>4, <1>5

(* A poll tells the clients of other instances nothing, and their          *)
(* instances learn nothing from it.                                        *)
LEMMA PollLeavesOthers ==
    ASSUME TypeOK, NEW i \in Instances, PollPublish(i) \/ FirstPoll(i),
           NEW c \in Clients, conn[c] # i
    PROVE  /\ queue'[c] = queue[c] /\ missed'[c] = missed[c]
           /\ conn[c] \in Instances => seen'[conn[c]] = seen[conn[c]]
<1>1. conn[c] \in Instances => seen'[conn[c]] = seen[conn[c]]
  BY DEF PollPublish, FirstPoll, TypeOK
<1>2. CASE PollPublish(i)
  <2>1. PICK order \in Orders(Advanced(i)) :
          /\ queue' = [d \in Clients |-> IF conn[d] = i THEN Push(queue[d], NudgesFor(i, order))
                                                        ELSE queue[d]]
          /\ missed' = [d \in Clients |-> IF conn[d] = i THEN MissedAfter(d, NudgesFor(i, order))
                                                         ELSE missed[d]]
    BY <1>2 DEF PollPublish, NudgesFor
  <2> QED
    BY <1>1, <2>1
<1>3. CASE FirstPoll(i)
  BY <1>1, <1>3 DEF FirstPoll
<1> QED
  BY <1>2, <1>3

(* The steps that only pass word on: the worker before its commit, the     *)
(* poll loops and the streams.                                             *)
RelayNext ==
    \/ \E k \in Tasks : Stamp(k) \/ LoadRow(k) \/ Rollback(k)
    \/ \E i \in Instances : PollRead(i) \/ PollPublish(i) \/ FirstPoll(i)
    \/ \E c \in Clients : Deliver(c)
    \/ UNCHANGED vars

LEMMA RelayFrame ==
    ASSUME RelayNext
    PROVE  conn' = conn /\ stale' = stale /\ row' = row
  BY DEF RelayNext, Stamp, LoadRow, Rollback, PollRead, PollPublish, FirstPoll, Deliver,
         vars, dbVars, clientVars

LEMMA RelayTells ==
    ASSUME NEW c \in Clients, NEW e \in Events, ViewerInv(c, e), RelayNext, conn[c] # Nowhere
    PROVE  /\ OnItsWay(c, e)' => OnItsWay(c, e)
           /\ OnItsWay(c, e) \/ e \in missed[c] => OnItsWay(c, e)' \/ e \in missed'[c]
<1> USE DEF dbVars, loopVars, clientVars
<1>0. TypeOK
  BY DEF ViewerInv, VersionInv
<1>1. conn[c] \in Instances
  BY <1>0 DEF TypeOK
<1>2. CASE row' = row /\ seen' = seen /\ queue' = queue /\ todo' = todo /\ missed' = missed
  BY <1>2, RelayFrame DEF OnItsWay
<1>3. ASSUME NEW k \in Tasks, Stamp(k) \/ LoadRow(k) \/ Rollback(k)
      PROVE  row' = row /\ seen' = seen /\ queue' = queue /\ todo' = todo /\ missed' = missed
  BY <1>3 DEF Stamp, LoadRow, Rollback
<1>4. ASSUME NEW i \in Instances, PollRead(i)
      PROVE  row' = row /\ seen' = seen /\ queue' = queue /\ todo' = todo /\ missed' = missed
  BY <1>4 DEF PollRead
<1>5. ASSUME NEW i \in Instances, PollPublish(i) \/ FirstPoll(i), conn[c] = i
      PROVE  /\ OnItsWay(c, e)' => OnItsWay(c, e)
             /\ OnItsWay(c, e) \/ e \in missed[c] => OnItsWay(c, e)' \/ e \in missed'[c]
  BY <1>5, PublishTells, FirstPollTells
<1>6. ASSUME NEW i \in Instances, PollPublish(i) \/ FirstPoll(i), conn[c] # i
      PROVE  /\ OnItsWay(c, e)' <=> OnItsWay(c, e)
             /\ missed'[c] = missed[c]
  <2>1. queue'[c] = queue[c] /\ missed'[c] = missed[c] /\ seen'[conn[c]] = seen[conn[c]]
    BY <1>0, <1>1, <1>6, PollLeavesOthers
  <2>2. row' = row /\ todo' = todo /\ conn' = conn
    BY <1>6 DEF PollPublish, FirstPoll
  <2> QED
    BY <2>1, <2>2 DEF OnItsWay
<1>7. ASSUME NEW d \in Clients, Deliver(d)
      PROVE  /\ OnItsWay(c, e)' <=> OnItsWay(c, e)
             /\ missed' = missed
  BY <1>0, <1>7, DeliverTells DEF Deliver
<1>8. CASE UNCHANGED vars
  BY <1>2, <1>8 DEF vars
<1> QED
  BY <1>2, <1>3, <1>4, <1>5, <1>6, <1>7, <1>8 DEF RelayNext

(* A commit is not yet known to any instance: word of it is on its way to  *)
(* every open stream, and word of other events is where it was.            *)
LEMMA CommitTells ==
    ASSUME NEW c \in Clients, NEW e \in Events, VersionInv(e), conn[c] # Nowhere,
           NEW k \in Tasks, Commit(k)
    PROVE  /\ EventOf[k] = e => OnItsWay(c, e)'
           /\ EventOf[k] # e => (OnItsWay(c, e)' <=> OnItsWay(c, e))
<1>1. conn' = conn /\ queue' = queue /\ todo' = todo /\ seen' = seen
  BY DEF Commit, loopVars
<1>2. conn[c] \in Instances
  BY DEF VersionInv, TypeOK
<1>3. seen[conn[c]][e] <= row[e].stamp /\ seen[conn[c]][e] \in Nat
  BY <1>2 DEF VersionInv, SeenIsOld, TypeOK
<1>4. row[e].stamp \in Nat /\ row'[e].stamp \in Nat
  BY CommitRow DEF VersionInv
<1>5. ASSUME EventOf[k] = e
      PROVE  row'[e].stamp > seen'[conn'[c]][e]
  BY <1>1, <1>3, <1>4, <1>5, CommitAdvances
<1>6. EventOf[k] # e => row'[e] = row[e]
  BY CommitAdvances
<1> QED
  BY <1>1, <1>5, <1>6 DEF OnItsWay

-----------------------------------------------------------------------------
(* Told(c, e) from step to step, for one viewer and one event. *)
LEMMA ToldStep ==
    ASSUME NEW c \in Clients, NEW e \in Events, ViewerInv(c, e), Told(c, e), [Next]_vars
    PROVE  Told(c, e)'
<1> USE DEF dbVars, loopVars
<1>0. /\ TypeOK
      /\ conn \in [Clients -> Instances \union {Nowhere}]
      /\ queue \in [Clients -> Seq(Nudge)]
      /\ todo \in [Clients -> SUBSET Events] /\ stale \in [Clients -> SUBSET Events]
      /\ missed \in [Clients -> SUBSET Events]
      /\ seen \in [Instances -> [Events -> Nat]]
  BY DEF ViewerInv, VersionInv, TypeOK
<1>1. CASE RelayNext
  BY <1>1, RelayFrame, RelayTells DEF Told
<1>2. ASSUME NEW k \in Tasks, Commit(k)
      PROVE  Told(c, e)'
  <2>1. conn' = conn /\ missed' = missed
    BY <1>2 DEF Commit
  <2>2. EventOf[k] # e /\ e \in stale'[c] => e \in stale[c]
    BY <1>2 DEF Commit
  <2>3. /\ conn[c] # Nowhere /\ EventOf[k] = e => OnItsWay(c, e)'
        /\ conn[c] # Nowhere /\ EventOf[k] # e => (OnItsWay(c, e)' <=> OnItsWay(c, e))
    BY <1>2, CommitTells DEF ViewerInv
  <2> QED
    BY <2>1, <2>2, <2>3 DEF Told
<1>3. ASSUME NEW d \in Clients, NEW i \in Instances, Subscribe(d, i)
      PROVE  Told(c, e)'
  <2>1. CASE d = c
    <3>1. todo'[c] = Events
      BY <1>0, <1>3, <2>1 DEF Subscribe
    <3> QED
      BY <3>1 DEF Told, OnItsWay
  <2>2. CASE d # c
    <3>1. /\ conn'[c] = conn[c] /\ queue'[c] = queue[c] /\ todo'[c] = todo[c]
          /\ row' = row /\ seen' = seen /\ stale' = stale /\ missed' = missed
      BY <1>0, <1>3, <2>2 DEF Subscribe
    <3> QED
      BY <3>1 DEF Told, OnItsWay
  <2> QED
    BY <2>1, <2>2
<1>4. ASSUME NEW d \in Clients, NEW f \in Events, Refetch(d, f)
      PROVE  Told(c, e)'
  <2>1. conn' = conn /\ queue' = queue /\ row' = row /\ seen' = seen
    BY <1>4 DEF Refetch
  <2>2. CASE d = c /\ f = e
    <3>1. e \notin stale'[c]
      BY <1>0, <1>4, <2>2 DEF Refetch
    <3> QED
      BY <3>1 DEF Told
  <2>3. CASE d # c \/ f # e
    <3>1. /\ e \in todo'[c] <=> e \in todo[c]
          /\ e \in stale'[c] <=> e \in stale[c]
          /\ e \in missed'[c] <=> e \in missed[c]
      BY <1>0, <1>4, <2>3 DEF Refetch
    <3> QED
      BY <2>1, <3>1 DEF Told, OnItsWay
  <2> QED
    BY <2>2, <2>3
<1>5. ASSUME NEW i \in Instances, Restart(i)
      PROVE  Told(c, e)'
  <2>1. CASE conn[c] = i
    BY <1>5, <2>1 DEF Restart, Told
  <2>2. CASE conn[c] # i
    <3>1. /\ conn'[c] = conn[c] /\ queue'[c] = queue[c] /\ todo'[c] = todo[c]
          /\ missed'[c] = missed[c] /\ row' = row /\ stale' = stale
      BY <1>5, <2>2 DEF Restart
    <3>2. conn[c] # Nowhere => seen'[conn[c]] = seen[conn[c]]
      BY <1>0, <1>5, <2>2 DEF Restart
    <3> QED
      BY <3>1, <3>2 DEF Told, OnItsWay
  <2> QED
    BY <2>1, <2>2
<1>6. ASSUME NEW d \in Clients, Unsubscribe(d)
      PROVE  Told(c, e)'
  <2>1. CASE d = c
    BY <1>0, <1>6, <2>1 DEF Unsubscribe, Told
  <2>2. CASE d # c
    <3>1. /\ conn'[c] = conn[c] /\ queue'[c] = queue[c] /\ todo'[c] = todo[c]
          /\ missed'[c] = missed[c] /\ row' = row /\ seen' = seen /\ stale' = stale
      BY <1>0, <1>6, <2>2 DEF Unsubscribe
    <3> QED
      BY <3>1 DEF Told, OnItsWay
  <2> QED
    BY <2>1, <2>2
<1> QED
  BY <1>1, <1>2, <1>3, <1>4, <1>5, <1>6
     DEF Next, WorkerNext, InstanceNext, ClientNext, RelayNext

(* A viewer is told of every change to an event that one task emits, always*)
(* for its tournament too, whatever the other tasks and tournaments do: so a*)
(* tournament with a linked player is told of standings, although `live` has*)
(* up to three writers and scopes that come and go (emit_nudge,            *)
(* poll_for_nudges, EventHub.publish).                                     *)
THEOREM ViewerIsTold ==
    ASSUME NEW c \in Clients, NEW e \in Events, SoleWriterOf(e), AlwaysReached(c, e)
    PROVE  Spec => []Told(c, e)
<1> DEFINE Inv == ViewerInv(c, e) /\ Told(c, e)
<1>1. Init => Inv
  BY InitViewerInv, ConstantsAssumption DEF Init, Told, ViewerInv
<1>2. Inv /\ [Next]_vars => Inv'
  <2>1. ViewerInv(c, e) /\ [Next]_vars => ViewerInv(c, e)'
    BY NextVersionInv, ScopesReachStep DEF ViewerInv, VersionInv
  <2> QED
    BY <2>1, ToldStep
<1> QED
  BY <1>1, <1>2, PTL DEF Spec

-----------------------------------------------------------------------------
(* The promise of ViewerSignal, action by action.                          *)

(* Polling and delivering only relay word: Promise!Relay. *)
LEMMA RelayStep ==
    ASSUME IInv, RelayNext
    PROVE  Promise!Relay
<1>0. TypeOK /\ TypeOK'
  <2>1. [Next]_vars
    BY DEF RelayNext, Next, WorkerNext, InstanceNext, ClientNext
  <2> QED
    BY <2>1, NextType DEF IInv
<1>1. conn' = conn /\ stale' = stale
  BY RelayFrame
<1>2. Viewers' = Viewers
  BY <1>1 DEF Viewers
<1>3. ASSUME NEW c \in Clients, NEW e \in Events, conn[c] # Nowhere
      PROVE  /\ OnItsWay(c, e)' => OnItsWay(c, e)
             /\ OnItsWay(c, e) \/ e \in missed[c] => OnItsWay(c, e)' \/ e \in missed'[c]
  BY <1>3, RelayTells DEF IInv, ViewerInv
<1>4. ASSUME NEW c \in Clients, conn[c] = Nowhere
      PROVE  missed'[c] = missed[c]
  <2>1. \A i \in Instances : conn[c] # i
    BY <1>4, ConstantsAssumption
  <2>2. \A i \in Instances : PollPublish(i) \/ FirstPoll(i) => missed'[c] = missed[c]
    BY <1>0, <2>1, PollLeavesOthers
  <2>3. \/ missed' = missed
        \/ \E i \in Instances : PollPublish(i) \/ FirstPoll(i)
    BY DEF RelayNext, Stamp, LoadRow, Rollback, PollRead, Deliver, vars, clientVars
  <2> QED
    BY <2>2, <2>3
<1>5. Owed \in [Clients -> SUBSET Events] /\ Owed' \in [Clients -> SUBSET Events]
  BY DEF Owed
<1>6. missed \in [Clients -> SUBSET Events] /\ missed' \in [Clients -> SUBSET Events]
  BY <1>0 DEF TypeOK
<1>7. ASSUME NEW c \in Clients
      PROVE  /\ Owed'[c] \subseteq Owed[c]
             /\ Owed[c] \subseteq Owed'[c] \union missed'[c]
             /\ missed[c] \subseteq Owed'[c] \union missed'[c]
  <2>1. CASE conn[c] = Nowhere
    BY <1>1, <1>4, <2>1 DEF Owed
  <2>2. CASE conn[c] # Nowhere
    <3>1. /\ Owed[c] = {e \in Events : OnItsWay(c, e)}
          /\ Owed'[c] = {e \in Events : OnItsWay(c, e)'}
      BY <1>1, <2>2 DEF Owed
    <3> QED
      BY <1>3, <1>6, <2>2, <3>1
  <2> QED
    BY <2>1, <2>2
<1> QED
  BY <1>1, <1>2, <1>5, <1>6, <1>7 DEF Promise!Relay

(* A commit owes word to every open stream: Promise!Change. *)
LEMMA ChangeStep ==
    ASSUME IInv, NEW k \in Tasks, Commit(k)
    PROVE  \E e \in Events, C \in SUBSET Clients : Promise!Change(e, C)
<1> DEFINE f == EventOf[k]
           C == {c \in Clients : Watch[c] \in tx[k].changed}
<1>1. /\ conn' = conn /\ queue' = queue /\ todo' = todo /\ missed' = missed /\ seen' = seen
      /\ stale' = [c \in Clients |-> IF c \in C THEN stale[c] \union {f} ELSE stale[c]]
  BY DEF Commit, loopVars
<1>2. Viewers' = Viewers
  BY <1>1 DEF Viewers
<1>3. f \in Events
  BY ConstantsAssumption
<1>4. ASSUME NEW c \in Clients, conn[c] # Nowhere
      PROVE  OnItsWay(c, f)' /\ \A e \in Events : e # f => (OnItsWay(c, e)' <=> OnItsWay(c, e))
  BY <1>3, <1>4, CommitTells DEF IInv
<1>5. ASSUME NEW c \in Clients
      PROVE  Owed'[c] = IF c \in Viewers THEN Owed[c] \union {f} ELSE Owed[c]
  BY <1>1, <1>3, <1>4 DEF Owed, Viewers
<1>6. Owed' = [c \in Clients |-> IF c \in Viewers THEN Owed[c] \union {f} ELSE Owed[c]]
  BY <1>5 DEF Owed
<1>7. Promise!Change(f, C)
  BY <1>1, <1>2, <1>6 DEF Promise!Change
<1>8. C \in SUBSET Clients
  OBVIOUS
<1> QED
  BY <1>3, <1>7, <1>8

(* Opening a stream refetches everything: Promise!Join. *)
LEMMA JoinStep ==
    ASSUME IInv, NEW c \in Clients, NEW i \in Instances, Subscribe(c, i)
    PROVE  Promise!Join(c)
<1>0. /\ conn \in [Clients -> Instances \union {Nowhere}]
      /\ queue \in [Clients -> Seq(Nudge)] /\ todo \in [Clients -> SUBSET Events]
  BY DEF IInv, TypeOK
<1>1. /\ conn[c] = Nowhere /\ conn' = [conn EXCEPT ![c] = i]
      /\ queue' = [queue EXCEPT ![c] = <<>>] /\ todo' = [todo EXCEPT ![c] = Events]
      /\ row' = row /\ seen' = seen /\ stale' = stale /\ missed' = missed
  BY DEF Subscribe, dbVars, loopVars
<1>2. i # Nowhere
  BY ConstantsAssumption
<1>3. c \notin Viewers /\ Viewers' = Viewers \union {c}
  BY <1>0, <1>1, <1>2 DEF Viewers
<1>4. Owed'[c] = Events
  BY <1>0, <1>1, <1>2 DEF Owed, OnItsWay
<1>5. ASSUME NEW d \in Clients \ {c}
      PROVE  Owed'[d] = Owed[d]
  <2>1. conn'[d] = conn[d] /\ queue'[d] = queue[d] /\ todo'[d] = todo[d]
    BY <1>0, <1>1
  <2> QED
    BY <1>1, <2>1 DEF Owed, OnItsWay
<1>6. Owed' = [Owed EXCEPT ![c] = Events]
  BY <1>4, <1>5 DEF Owed
<1> QED
  BY <1>1, <1>3, <1>6 DEF Promise!Join

(* A page fetches only what it has word of: Promise!Fetch. *)
LEMMA FetchStep ==
    ASSUME IInv, NEW c \in Clients, NEW e \in Events, Refetch(c, e)
    PROVE  Promise!Fetch(c, e)
<1>0. todo \in [Clients -> SUBSET Events]
  BY DEF IInv, TypeOK
<1>1. /\ e \in todo[c] /\ todo' = [todo EXCEPT ![c] = @ \ {e}]
      /\ stale' = [stale EXCEPT ![c] = @ \ {e}] /\ missed' = [missed EXCEPT ![c] = @ \ {e}]
      /\ conn' = conn /\ queue' = queue /\ row' = row /\ seen' = seen
  BY DEF Refetch, dbVars, loopVars
<1>2. conn[c] # Nowhere
  BY <1>1 DEF IInv, OfflineIsQuiet
<1>3. e \in Owed[c]
  BY <1>1, <1>2 DEF Owed, OnItsWay
<1>4. ASSUME NEW d \in Clients \ {c}
      PROVE  Owed'[d] = Owed[d]
  <2>1. todo'[d] = todo[d]
    BY <1>0, <1>1
  <2> QED
    BY <1>1, <2>1 DEF Owed, OnItsWay
<1>5. \A f \in Events : f # e => (OnItsWay(c, f)' <=> OnItsWay(c, f))
  BY <1>0, <1>1 DEF OnItsWay
<1>6. Owed'[c] \in {Owed[c], Owed[c] \ {e}}
  BY <1>1, <1>2, <1>3, <1>5 DEF Owed
<1>7. Owed' \in {Owed, [Owed EXCEPT ![c] = @ \ {e}]}
  BY <1>4, <1>6 DEF Owed
<1>8. Viewers' = Viewers
  BY <1>1 DEF Viewers
<1> QED
  BY <1>1, <1>3, <1>7, <1>8 DEF Promise!Fetch

(* A recycled instance or a closed tab ends streams: Promise!Leave. *)
LEMMA LeaveStep ==
    ASSUME IInv, (\E i \in Instances : Restart(i)) \/ (\E c \in Clients : Unsubscribe(c))
    PROVE  \E C \in SUBSET Clients : Promise!Leave(C)
<1>0. /\ conn \in [Clients -> Instances \union {Nowhere}]
      /\ queue \in [Clients -> Seq(Nudge)] /\ todo \in [Clients -> SUBSET Events]
      /\ seen \in [Instances -> [Events -> Nat]]
      /\ missed \in [Clients -> SUBSET Events]
  BY DEF IInv, TypeOK
<1>1. PICK C \in SUBSET Clients :
        /\ \A c \in C : conn'[c] = Nowhere
        /\ \A c \in Clients \ C : /\ conn'[c] = conn[c] /\ queue'[c] = queue[c]
                                  /\ todo'[c] = todo[c]
                                  /\ conn[c] # Nowhere => seen'[conn[c]] = seen[conn[c]]
        /\ missed' = [c \in Clients |-> IF c \in C THEN {} ELSE missed[c]]
        /\ row' = row /\ stale' = stale
  <2>1. ASSUME NEW i \in Instances, Restart(i)
        PROVE  /\ \A c \in Connected(i) : conn'[c] = Nowhere
               /\ \A c \in Clients \ Connected(i) :
                     /\ conn'[c] = conn[c] /\ queue'[c] = queue[c] /\ todo'[c] = todo[c]
                     /\ conn[c] # Nowhere => seen'[conn[c]] = seen[conn[c]]
               /\ missed' = [c \in Clients |-> IF c \in Connected(i) THEN {} ELSE missed[c]]
               /\ row' = row /\ stale' = stale
    BY <1>0, <2>1 DEF Restart, Connected, dbVars
  <2>2. ASSUME NEW d \in Clients, Unsubscribe(d)
        PROVE  /\ conn'[d] = Nowhere
               /\ \A c \in Clients \ {d} :
                     /\ conn'[c] = conn[c] /\ queue'[c] = queue[c] /\ todo'[c] = todo[c]
                     /\ conn[c] # Nowhere => seen'[conn[c]] = seen[conn[c]]
               /\ missed' = [c \in Clients |-> IF c \in {d} THEN {} ELSE missed[c]]
               /\ row' = row /\ stale' = stale
    BY <1>0, <2>2 DEF Unsubscribe, dbVars, loopVars
  <2>3. \A i \in Instances : Connected(i) \in SUBSET Clients
    BY DEF Connected
  <2>4. CASE \E i \in Instances : Restart(i)
    BY <2>1, <2>3, <2>4
  <2>5. CASE \E d \in Clients : Unsubscribe(d)
    <3>1. PICK d \in Clients : Unsubscribe(d)
      BY <2>5
    <3>2. {d} \in SUBSET Clients
      OBVIOUS
    <3> QED
      BY <2>2, <3>1, <3>2
  <2> QED
    BY <2>4, <2>5
<1>2. Viewers' = Viewers \ C
  BY <1>1 DEF Viewers
<1>3. ASSUME NEW c \in Clients
      PROVE  Owed'[c] = IF c \in C THEN {} ELSE Owed[c]
  <2>1. CASE c \in C
    BY <1>1, <2>1 DEF Owed
  <2>2. CASE c \notin C
    BY <1>1, <2>2 DEF Owed, OnItsWay
  <2> QED
    BY <2>1, <2>2
<1>4. Owed' = [c \in Clients |-> IF c \in C THEN {} ELSE Owed[c]]
  BY <1>3 DEF Owed
<1>5. Promise!Leave(C)
  BY <1>1, <1>2, <1>4 DEF Promise!Leave
<1> QED
  BY <1>5

LEMMA PromiseStep ==
    ASSUME IInv, [Next]_vars
    PROVE  Promise!Next
<1>1. CASE \E k \in Tasks : Commit(k)
  BY <1>1, ChangeStep DEF Promise!Next
<1>2. CASE \E c \in Clients, i \in Instances : Subscribe(c, i)
  BY <1>2, JoinStep DEF Promise!Next
<1>3. CASE \E c \in Clients, e \in Events : Refetch(c, e)
  BY <1>3, FetchStep DEF Promise!Next
<1>4. CASE (\E i \in Instances : Restart(i)) \/ (\E c \in Clients : Unsubscribe(c))
  BY <1>4, LeaveStep DEF Promise!Next
<1>5. CASE RelayNext
  BY <1>5, RelayStep DEF Promise!Next
<1> QED
  BY <1>1, <1>2, <1>3, <1>4, <1>5 DEF Next, WorkerNext, InstanceNext, ClientNext, RelayNext

-----------------------------------------------------------------------------
(* ViewerSignal keeps its promise, however many viewers and events there   *)
(* are, and whatever implements it.                                        *)
LEMMA StepKeepsThePromise ==
    ASSUME Promise!TypeOK, Promise!NothingForgotten, [Promise!Next]_Promise!vars
    PROVE  (Promise!TypeOK /\ Promise!NothingForgotten)'
<1> USE DEF Promise!TypeOK, Promise!NothingForgotten
<1>1. ASSUME NEW e \in Events, NEW C \in SUBSET Clients, Promise!Change(e, C)
      PROVE  (Promise!TypeOK /\ Promise!NothingForgotten)'
  BY <1>1 DEF Promise!Change
<1>2. CASE Promise!Relay
  BY <1>2 DEF Promise!Relay
<1>3. ASSUME NEW c \in Clients, Promise!Join(c)
      PROVE  (Promise!TypeOK /\ Promise!NothingForgotten)'
  BY <1>3 DEF Promise!Join
<1>4. ASSUME NEW c \in Clients, NEW e \in Events, Promise!Fetch(c, e)
      PROVE  (Promise!TypeOK /\ Promise!NothingForgotten)'
  BY <1>4 DEF Promise!Fetch
<1>5. ASSUME NEW C \in SUBSET Clients, Promise!Leave(C)
      PROVE  (Promise!TypeOK /\ Promise!NothingForgotten)'
  BY <1>5 DEF Promise!Leave
<1>6. CASE UNCHANGED Promise!vars
  BY <1>6 DEF Promise!vars
<1> QED
  BY <1>1, <1>2, <1>3, <1>4, <1>5, <1>6 DEF Promise!Next

(* A viewer is stale only with word on its way or lost openly, in every    *)
(* behaviour of ViewerSignal.                                              *)
THEOREM PromiseKept == Promise!Spec => []Promise!NothingForgotten
<1>1. Promise!Init => Promise!TypeOK /\ Promise!NothingForgotten
  BY DEF Promise!Init, Promise!TypeOK, Promise!NothingForgotten
<1>2. Promise!TypeOK /\ Promise!NothingForgotten /\ [Promise!Next]_Promise!vars
          => (Promise!TypeOK /\ Promise!NothingForgotten)'
  BY StepKeepsThePromise
<1> QED
  BY <1>1, <1>2, PTL DEF Promise!Spec

(* The tables, poll loops and queues implement ViewerSignal, in any        *)
(* deployment where each event has one writer and every tick concerns      *)
(* every viewer's tournament.                                              *)
THEOREM Implementation ==
    ASSUME SoleWriter, EveryoneReached
    PROVE  Spec => KeepsThePromise
<1>1. Init => Promise!Init
  BY ConstantsAssumption DEF Init, Promise!Init, Viewers, Owed
<1>2. IInv /\ [Next]_vars => [Promise!Next]_Promise!vars
  BY PromiseStep
<1>3. Spec => []IInv
  BY Invariance
<1> QED
  BY <1>1, <1>2, <1>3, PTL DEF Spec, KeepsThePromise, Promise!Spec

(* So no viewer is left with an out-of-date copy and no word of it, other  *)
(* than by a full queue or a first poll (events.py as a whole).            *)
THEOREM Safety ==
    ASSUME SoleWriter, EveryoneReached
    PROVE  Spec => []NoSilentStaleness
<1>1. Spec => Promise!Spec
  BY Implementation DEF KeepsThePromise
<1>2. Promise!Spec => []Promise!NothingForgotten
  BY PromiseKept
<1>3. Promise!NothingForgotten => NoSilentStaleness
  BY DEF Promise!NothingForgotten, NoSilentStaleness, Told, Viewers, Owed
<1> QED
  BY <1>1, <1>2, <1>3, PTL
=============================================================================
