------------------------------- MODULE Nudges -------------------------------
(***************************************************************************)
(* The refetch signal that joins the two services (src/app/events.py).     *)
(*                                                                         *)
(* Worker tasks (the pollers of src/app/poller/) write polled data and, in *)
(* the same transaction, advance one row per event of nudge_versions.      *)
(* Every api instance polls that table and fans what advanced out to the   *)
(* bounded queue of each SSE client connected to it; the client refetches  *)
(* over REST.  No data travels with a nudge, so the model keeps only       *)
(* whether a viewer's copy of a slice is out of date.                      *)
(*                                                                         *)
(* Time stamps are drawn from a counter: the code compares them only.      *)
(***************************************************************************)
EXTENDS Naturals, Sequences, FiniteSets

CONSTANTS
    Events,       \* the EventTypes: standings, live, matches
    Tournaments,
    Tasks,        \* the poller tasks of the worker
    EventOf,      \* [Tasks -> Events]: the event a task's ticks emit
    ScopesOf,     \* [Tasks -> SUBSET SUBSET Tournaments]: scopes its ticks may store
    Instances,    \* api instances
    Clients,      \* browser tabs, each watching one tournament
    Watch,        \* [Clients -> Tournaments]
    Nowhere,      \* not an instance: where a client without a stream is
    QueueMax,     \* _SUBSCRIBER_QUEUE_MAXSIZE
    MaxStamp      \* bound: how many times the worker stamps a row

ASSUME ConstantsAssumption ==
    /\ IsFiniteSet(Events)
    /\ EventOf \in [Tasks -> Events]
    /\ ScopesOf \in [Tasks -> SUBSET SUBSET Tournaments]
    /\ Watch \in [Clients -> Tournaments]
    /\ Nowhere \notin Instances
    /\ QueueMax \in Nat \ {0}
    /\ MaxStamp \in Nat

VARIABLES
    clock,   \* the last time stamp handed out
    row,     \* nudge_versions: [Events -> stamp and scope]; stamp 0 = no such row
    tx,      \* the open transaction of each task
    seen,    \* last_seen of each instance's poll loop; 0 = not in the dict
    ready,   \* instances whose poll loop is initialized
    reading, \* instances between reading the rows and going through them
    batch,   \* the rows such an instance has read
    conn,    \* the instance a client's stream is open on
    queue,   \* the client's queue in that instance's hub
    todo,    \* events the client is about to refetch
    stale,   \* events whose data changed since the client last fetched them
    missed   \* events a client was not told of: queue full, or first poll

dbVars     == <<row, tx, clock>>
loopVars   == <<seen, ready, reading, batch>>
clientVars == <<conn, queue, todo, stale, missed>>
vars == <<clock, row, tx, seen, ready, reading, batch,
          conn, queue, todo, stale, missed>>

-----------------------------------------------------------------------------
(* An empty scope is stored as NULL, which tells everyone to refetch. *)
Covers(scope, t) == scope = {} \/ t \in scope

Version == [stamp : Nat, scope : SUBSET Tournaments]
NoRow   == [stamp |-> 0, scope |-> {}]
NoRows  == [e \in Events |-> NoRow]
Nudge   == [event : Events, scope : SUBSET Tournaments]

Idle == [phase |-> "idle", stamp |-> 0, scope |-> {}, changed |-> {}, base |-> NoRow]

TxType == [phase : {"idle", "stamped", "loaded"}, stamp : Nat,
           scope : SUBSET Tournaments, changed : SUBSET Tournaments, base : Version]

Connected(i) == {c \in Clients : conn[c] = i}

(* Slips, here and below: the definition that follows with one plausible   *)
(* mistake in it.  They replace it in turn to see the properties notice.   *)
(* Here: a full queue that drops its oldest.                               *)
PushDropOldest(q, ns) ==
    LET all == q \o ns
        cut == IF Len(all) <= QueueMax THEN 0 ELSE Len(all) - QueueMax
    IN  SubSeq(all, cut + 1, Len(all))

(* put_nowait of each nudge of ns in turn: a full queue drops the rest. *)
Push(q, ns) ==
    [k \in 1..(IF Len(q) + Len(ns) <= QueueMax THEN Len(q) + Len(ns) ELSE QueueMax)
        |-> IF k <= Len(q) THEN q[k] ELSE ns[k - Len(q)]]

(* The sequences that go through a set of events once each: the SELECT of  *)
(* nudge_versions has no ORDER BY.                                         *)
Orders(E) ==
    {s \in [1..Cardinality(E) -> E] : \A e \in E : \E k \in DOMAIN s : s[k] = e}

-----------------------------------------------------------------------------
Init ==
    /\ clock = 0
    /\ row = [e \in Events |-> NoRow]
    /\ tx = [k \in Tasks |-> Idle]
    /\ seen = [i \in Instances |-> [e \in Events |-> 0]]
    /\ ready = {}
    /\ reading = {}
    /\ batch = [i \in Instances |-> NoRows]
    /\ conn = [c \in Clients |-> Nowhere]
    /\ queue = [c \in Clients |-> <<>>]
    /\ todo = [c \in Clients |-> {}]
    /\ stale = [c \in Clients |-> Events]
    /\ missed = [c \in Clients |-> {}]

-----------------------------------------------------------------------------
(* Slip: `now` is read from a clock that a restart of the worker resets. *)
StampLocally(k) ==
    /\ tx[k].phase = "idle"
    /\ clock < MaxStamp
    /\ clock' = clock + 1
    /\ \E scope \in ScopesOf[k], now \in 1..(clock + 1) :
          tx' = [tx EXCEPT ![k] = [phase |-> "stamped", stamp |-> now, scope |-> scope,
                                   changed |-> Tournaments, base |-> NoRow]]
    /\ UNCHANGED <<row, loopVars, clientVars>>

(* The worker.  A tick has written its data (for the tournaments `changed`, *)
(* all within the scope it resolved) and calls emit_nudge: `now` is taken  *)
(* first, then session.get awaits the row.                                 *)
Stamp(k) ==
    /\ tx[k].phase = "idle"
    /\ clock < MaxStamp
    /\ clock' = clock + 1
    /\ \E scope \in ScopesOf[k] :
         \E changed \in SUBSET {t \in Tournaments : Covers(scope, t)} :
            tx' = [tx EXCEPT ![k] = [phase |-> "stamped", stamp |-> clock', scope |-> scope,
                                     changed |-> changed, base |-> NoRow]]
    /\ UNCHANGED <<row, loopVars, clientVars>>

LoadRow(k) ==
    /\ tx[k].phase = "stamped"
    /\ tx' = [tx EXCEPT ![k] = [@ EXCEPT !.phase = "loaded", !.base = row[EventOf[k]]]]
    /\ UNCHANGED <<clock, row, loopVars, clientVars>>

(* The flush of an INSERT for a row another task has inserted meanwhile    *)
(* violates the primary key; an UPDATE writes the columns that differ from *)
(* the row as this session loaded it.                                      *)
Flushed(k) ==
    LET t == tx[k]  IN
    [stamp |-> t.stamp,
     scope |-> IF t.base.stamp # 0 /\ t.scope = t.base.scope
                 THEN row[EventOf[k]].scope ELSE t.scope]

CanFlush(k) == tx[k].base.stamp # 0 \/ row[EventOf[k]].stamp = 0

(* Data and row become visible together; what the transaction changed is   *)
(* now out of date at every client watching one of those tournaments.      *)
Commit(k) ==
    /\ tx[k].phase = "loaded"
    /\ CanFlush(k)
    /\ row' = [row EXCEPT ![EventOf[k]] = Flushed(k)]
    /\ stale' = [c \in Clients |-> IF Watch[c] \in tx[k].changed
                                     THEN stale[c] \union {EventOf[k]} ELSE stale[c]]
    /\ tx' = [tx EXCEPT ![k] = Idle]
    /\ UNCHANGED <<clock, loopVars, conn, queue, todo, missed>>

(* The tick fails (upstream, database, primary-key conflict) or the worker *)
(* stops: the transaction leaves nothing behind, the runner logs and tries *)
(* again next cycle.                                                       *)
Rollback(k) ==
    /\ tx[k].phase # "idle"
    /\ tx' = [tx EXCEPT ![k] = Idle]
    /\ UNCHANGED <<clock, row, loopVars, clientVars>>

-----------------------------------------------------------------------------
(* An api instance's poll_for_nudges.  The read awaits the database, what  *)
(* follows it does not await.  A poll that fails changes nothing.          *)
PollRead(i) ==
    /\ i \notin reading
    /\ reading' = reading \union {i}
    /\ batch' = [batch EXCEPT ![i] = row]
    /\ UNCHANGED <<dbVars, seen, ready, clientVars>>

(* Slip: the first advance of an event that had no row is taken as known. *)
AdvancedIfKnown(i) == {e \in Events : seen[i][e] # 0 /\ batch[i][e].stamp > seen[i][e]}

Advanced(i) == {e \in Events : batch[i][e].stamp > seen[i][e]}

(* Slip: last_seen re-read from the table. *)
SeenReread(i) == [e \in Events |-> row[e].stamp]

SeenAfter(i) == [e \in Events |-> batch[i][e].stamp]

(* What became of the nudges `ns` at client c: told of e if one that       *)
(* concerns it found room in the queue.                                    *)
Concerning(ns, c, e) == {k \in DOMAIN ns : ns[k].event = e /\ Covers(ns[k].scope, Watch[c])}
Fits(q, k) == Len(q) + k <= QueueMax

MissedAfter(c, ns) ==
    {e \in Events :
        \/ e \in missed[c] /\ \A k \in Concerning(ns, c, e) : ~Fits(queue[c], k)
        \/ \E k \in Concerning(ns, c, e) : ~Fits(queue[c], k)}

PollPublish(i) ==
    /\ i \in reading
    /\ i \in ready
    /\ \E order \in Orders(Advanced(i)) :
         LET ns == [k \in DOMAIN order |-> [event |-> order[k], scope |-> batch[i][order[k]].scope]]
         IN  /\ queue' = [c \in Clients |-> IF conn[c] = i THEN Push(queue[c], ns) ELSE queue[c]]
             /\ missed' = [c \in Clients |-> IF conn[c] = i THEN MissedAfter(c, ns) ELSE missed[c]]
    /\ seen' = [seen EXCEPT ![i] = SeenAfter(i)]
    /\ reading' = reading \ {i}
    /\ batch' = [batch EXCEPT ![i] = NoRows]
    /\ UNCHANGED <<dbVars, ready, conn, todo, stale>>

(* The first successful poll records the versions without publishing, so   *)
(* whatever committed before it goes unannounced.                          *)
FirstPoll(i) ==
    /\ i \in reading
    /\ i \notin ready
    /\ missed' = [c \in Clients |->
                    IF conn[c] = i THEN missed[c] \union {e \in Events : batch[i][e].stamp # 0}
                                   ELSE missed[c]]
    /\ seen' = [seen EXCEPT ![i] = SeenAfter(i)]
    /\ ready' = ready \union {i}
    /\ reading' = reading \ {i}
    /\ batch' = [batch EXCEPT ![i] = NoRows]
    /\ UNCHANGED <<dbVars, conn, queue, todo, stale>>

(* The instance is recycled: its loop state and its hub are gone. *)
Restart(i) ==
    /\ i \in ready \/ i \in reading \/ Connected(i) # {}
    /\ seen' = [seen EXCEPT ![i] = [e \in Events |-> 0]]
    /\ ready' = ready \ {i}
    /\ reading' = reading \ {i}
    /\ batch' = [batch EXCEPT ![i] = NoRows]
    /\ conn' = [c \in Clients |-> IF conn[c] = i THEN Nowhere ELSE conn[c]]
    /\ queue' = [c \in Clients |-> IF conn[c] = i THEN <<>> ELSE queue[c]]
    /\ todo' = [c \in Clients |-> IF conn[c] = i THEN {} ELSE todo[c]]
    /\ missed' = [c \in Clients |-> IF conn[c] = i THEN {} ELSE missed[c]]
    /\ UNCHANGED <<dbVars, stale>>

-----------------------------------------------------------------------------
(* The SSE stream of one client.  The page fetches everything it shows     *)
(* once its stream is open.                                                *)
Subscribe(c, i) ==
    /\ conn[c] = Nowhere
    /\ conn' = [conn EXCEPT ![c] = i]
    /\ queue' = [queue EXCEPT ![c] = <<>>]
    /\ todo' = [todo EXCEPT ![c] = Events]
    /\ UNCHANGED <<dbVars, loopVars, stale, missed>>

(* The next frame reaches the page, which ignores what concerns others. *)
Deliver(c) ==
    /\ conn[c] # Nowhere
    /\ queue[c] # <<>>
    /\ queue' = [queue EXCEPT ![c] = Tail(@)]
    /\ todo' = [todo EXCEPT ![c] = IF Covers(Head(queue[c]).scope, Watch[c])
                                     THEN @ \union {Head(queue[c]).event} ELSE @]
    /\ UNCHANGED <<dbVars, loopVars, conn, stale, missed>>

(* A REST read returns the committed data. *)
Refetch(c, e) ==
    /\ e \in todo[c]
    /\ todo' = [todo EXCEPT ![c] = @ \ {e}]
    /\ stale' = [stale EXCEPT ![c] = @ \ {e}]
    /\ missed' = [missed EXCEPT ![c] = @ \ {e}]
    /\ UNCHANGED <<dbVars, loopVars, conn, queue>>

(* Tab closed, stream at its lifetime cap, or connection lost. *)
Unsubscribe(c) ==
    /\ conn[c] # Nowhere
    /\ conn' = [conn EXCEPT ![c] = Nowhere]
    /\ queue' = [queue EXCEPT ![c] = <<>>]
    /\ todo' = [todo EXCEPT ![c] = {}]
    /\ missed' = [missed EXCEPT ![c] = {}]
    /\ UNCHANGED <<dbVars, loopVars, stale>>

-----------------------------------------------------------------------------
WorkerNext == \E k \in Tasks : Stamp(k) \/ LoadRow(k) \/ Commit(k) \/ Rollback(k)

InstanceNext == \E i \in Instances :
                    PollRead(i) \/ PollPublish(i) \/ FirstPoll(i) \/ Restart(i)

ClientNext == \E c \in Clients :
                 \/ \E i \in Instances : Subscribe(c, i)
                 \/ \E e \in Events : Refetch(c, e)
                 \/ Deliver(c)
                 \/ Unsubscribe(c)

Next == WorkerNext \/ InstanceNext \/ ClientNext

Spec == Init /\ [][Next]_vars

(* The poll loop sleeps two seconds and polls again, a stream hands its    *)
(* queue on, and a page refetches what it was told to.  Nothing is assumed *)
(* of the worker, of new viewers or of restarts.                           *)
Fairness ==
    /\ \A i \in Instances : WF_vars(PollRead(i)) /\ WF_vars(PollPublish(i) \/ FirstPoll(i))
    /\ \A c \in Clients : WF_vars(Deliver(c))
    /\ \A c \in Clients, e \in Events : WF_vars(Refetch(c, e))

FairSpec == Spec /\ Fairness

-----------------------------------------------------------------------------
TypeOK ==
    /\ clock \in Nat
    /\ row \in [Events -> Version]
    /\ tx \in [Tasks -> TxType]
    /\ seen \in [Instances -> [Events -> Nat]]
    /\ ready \in SUBSET Instances
    /\ reading \in SUBSET Instances
    /\ batch \in [Instances -> [Events -> Version]]
    /\ conn \in [Clients -> Instances \union {Nowhere}]
    /\ queue \in [Clients -> Seq(Nudge)]
    /\ \A c \in Clients : Len(queue[c]) <= QueueMax
    /\ todo \in [Clients -> SUBSET Events]
    /\ stale \in [Clients -> SUBSET Events]
    /\ missed \in [Clients -> SUBSET Events]

(* What the promises below need of a deployment, for an event and a        *)
(* viewer: one task emits it (live has three where there are Twitch and    *)
(* YouTube credentials, standings and matches have one), and every tick of *)
(* it concerns the viewer's tournament (the scope of standings is every    *)
(* tournament with a linked player, player_stats.py:66-72).                *)
SoleWriterOf(e)     == \A k1, k2 \in Tasks : EventOf[k1] = e /\ EventOf[k2] = e => k1 = k2
AlwaysReached(c, e) == \A k \in Tasks : EventOf[k] = e =>
                           \A scope \in ScopesOf[k] : Covers(scope, Watch[c])

SoleWriter      == \A e \in Events : SoleWriterOf(e)
EveryoneReached == \A c \in Clients : \A e \in Events : AlwaysReached(c, e)

-----------------------------------------------------------------------------
(* Word of a change to e is on its way to c: the page is about to refetch, *)
(* the nudge is in its queue, or its instance has yet to see the row.      *)
OnItsWay(c, e) ==
    \/ e \in todo[c]
    \/ \E k \in DOMAIN queue[c] : queue[c][k].event = e /\ Covers(queue[c][k].scope, Watch[c])
    \/ row[e].stamp > seen[conn[c]][e]

(* A viewer whose copy is out of date is about to be told, unless one of   *)
(* the two losses the code accepts happened to it: its queue was full      *)
(* (the drop of EventHub.publish) or its instance's first, silent poll     *)
(* took in the change.                                                     *)
Told(c, e) == (conn[c] # Nowhere /\ e \in stale[c]) => OnItsWay(c, e) \/ e \in missed[c]

NoSilentStaleness == \A c \in Clients : \A e \in Events : Told(c, e)

(* The version token of an event never goes back, neither in the table     *)
(* nor in an instance's last_seen while it runs: poll_for_nudges compares  *)
(* the two with `>`, so a version that went back would hide the next one.  *)
RowNeverGoesBack == [][\A e \in Events : row'[e].stamp >= row[e].stamp]_vars

SeenNeverGoesBack ==
    [][\A i \in Instances : \A e \in Events :
            i \in ready' => seen'[i][e] >= seen[i][e]]_vars

(* A connected viewer with an out-of-date copy comes up to date, unless    *)
(* its nudge was one of the accepted losses or it goes away.               *)
StaleViewerIsServed ==
    \A c \in Clients : \A e \in Events :
        (conn[c] # Nowhere /\ e \in stale[c])
            ~> (e \notin stale[c] \/ e \in missed[c] \/ conn[c] = Nowhere)

(* The tables, poll loops and queues keep the promise of ViewerSignal: a   *)
(* nudge already in the table, in a queue or with the page is word owed.   *)
Viewers == {c \in Clients : conn[c] # Nowhere}
Owed    == [c \in Clients |-> {e \in Events : conn[c] # Nowhere /\ OnItsWay(c, e)}]

Promise == INSTANCE ViewerSignal WITH online <- Viewers, owed <- Owed, lost <- missed

KeepsThePromise == Promise!Spec

-----------------------------------------------------------------------------
(* The inductive invariants, in named parts, for each event and viewer:    *)
(* the versions of an event are in order where it has one writer, and what *)
(* is stored of it reaches the viewers that all its ticks concern.         *)

(* An instance knows no version the table does not have yet. *)
SeenIsOld(e) ==
    \A i \in Instances :
        /\ seen[i][e] <= row[e].stamp
        /\ i \in reading => seen[i][e] <= batch[i][e].stamp /\ batch[i][e].stamp <= row[e].stamp

(* A task's stamp is newer than the row it is about to write, and the row  *)
(* is as the task loaded it.                                               *)
WriterIsAhead(e) ==
    /\ row[e].stamp <= clock
    /\ \A k \in Tasks : EventOf[k] = e =>
         /\ tx[k].stamp <= clock
         /\ tx[k].phase # "idle" => tx[k].stamp > row[e].stamp
         /\ tx[k].phase = "loaded" => tx[k].base = row[e]

VersionInv(e) == TypeOK /\ SeenIsOld(e) /\ WriterIsAhead(e)

(* Every stored or published scope of e reaches the viewer. *)
ScopesReach(c, e) ==
    /\ Covers(row[e].scope, Watch[c])
    /\ \A k \in Tasks : EventOf[k] = e => Covers(tx[k].scope, Watch[c])
    /\ \A i \in Instances : Covers(batch[i][e].scope, Watch[c])

ViewerInv(c, e) == VersionInv(e) /\ ScopesReach(c, e)

(* A client without a stream is about to refetch nothing. *)
OfflineIsQuiet == \A c \in Clients : conn[c] = Nowhere => todo[c] = {}

(* What the refinement of ViewerSignal rests on. *)
IInv ==
    /\ TypeOK
    /\ \A e \in Events : VersionInv(e)
    /\ \A c \in Clients : \A e \in Events : ScopesReach(c, e)
    /\ OfflineIsQuiet
=============================================================================
