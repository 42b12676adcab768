-------------------------- MODULE MatchFeedProofs --------------------------
(***************************************************************************)
(* Proofs about the match pollers of module MatchFeed, for any matches,    *)
(* profiles, tournaments and rosters.                                      *)
(***************************************************************************)
EXTENDS MatchFeed, TLAPS

-----------------------------------------------------------------------------
(* Types.                                                                  *)
LEMMA IdleType ==
    /\ Idle \in [pc : Phase, tracked : SUBSET Profiles, seen : LiveSeen,
                 todo : SUBSET Matches, held : SUBSET Matches, rosters : Rosters \union {<<>>}]
    /\ Idle.held \union Idle.todo \subseteq DOMAIN Idle.seen
    /\ Idle.held = {}
    /\ Idle \in [pc : Phase, tracked : SUBSET Profiles, seen : RecentSeen,
                 todo : SUBSET (Profiles \union Matches), held : SUBSET Matches,
                 rosters : Rosters \union {<<>>}]
<1>1. <<>> \in [{} -> Open] /\ <<>> \in [{} -> SUBSET Matches]
  OBVIOUS
<1>2. <<>> \in LiveSeen /\ <<>> \in RecentSeen
  BY <1>1 DEF LiveSeen, RecentSeen
<1> QED
  BY <1>2 DEF Idle, Phase

LEMMA InitType == Init => TypeOK
<1> SUFFICES ASSUME Init
             PROVE  TypeOK
  OBVIOUS
<1>1. matches \in [Matches -> Row \union {NoRow}]
  BY DEF Init
<1>2. roster \in Rosters
  BY ConstantsAssumption DEF Init, Rosters
<1> QED
  BY <1>1, <1>2, IdleType, ConstantsAssumption DEF Init, TypeOK

LEMMA TrackedType == TypeOK => Tracked \subseteq Profiles
  BY DEF TypeOK, Tracked, Rosters

LEMMA FromLiveType ==
    ASSUME TypeOK, NEW m \in live.held
    PROVE  /\ FromLive(m) \in Row
           /\ matches[m].completed => FromLive(m) = matches[m]
<1>1. m \in Matches /\ live.seen[m] \in Open
  BY DEF TypeOK, LiveSeen
<1>2. matches[m] \in Row \union {NoRow}
  BY <1>1 DEF TypeOK
<1>3. CASE matches[m] = NoRow
  BY <1>1, <1>3 DEF FromLive, Row, OpenRow, NoRow
<1>4. CASE matches[m] = Completed
  BY <1>4 DEF FromLive, Row, Completed, NoRow
<1>5. CASE matches[m] \in OpenRow
  BY <1>1, <1>5 DEF FromLive, Row, OpenRow, NoRow, Open
<1> QED
  BY <1>2, <1>3, <1>4, <1>5 DEF Row

LEMMA LiveType ==
    ASSUME TypeOK, LiveNext \/ LiveFail
    PROVE  TypeOK'
<1>1. CASE LiveStart
  BY <1>1, TrackedType, IdleType DEF LiveStart, TypeOK, db, Begun, Idle, Phase
<1>2. CASE LiveFetch
  <2> DEFINE open == {m \in Matches : game[m] \in Open /\ Members[m] \cap live.tracked # {}}
             seen == [m \in open |-> game[m]]
  <2>1. open \in SUBSET Matches /\ seen \in [open -> Open] /\ DOMAIN seen = open
    OBVIOUS
  <2>2. seen \in LiveSeen
    BY <2>1 DEF LiveSeen
  <2>3. live' = [live EXCEPT !.pc = "writing", !.seen = seen, !.todo = open]
    BY <1>2 DEF LiveFetch, Fetched
  <2> QED
    BY <1>2, <2>1, <2>2, <2>3 DEF LiveFetch, TypeOK, db, Phase
<1>3. ASSUME NEW m \in Matches, LiveUpsert(m)
      PROVE  TypeOK'
  BY <1>3 DEF LiveUpsert, Upserted, TypeOK, db
<1>4. CASE LiveCommit
  <2>1. matches' \in [Matches -> Row \union {NoRow}]
    BY <1>4, FromLiveType DEF LiveCommit, TypeOK
  <2>2. links' \subseteq Matches \X Profiles
    BY <1>4 DEF LiveCommit, Replaced, Snapshot, TypeOK, LiveSeen
  <2> QED
    BY <1>4, <2>1, <2>2, IdleType DEF LiveCommit, TypeOK
<1>5. CASE LiveQuery
  BY <1>5 DEF LiveQuery, Scoped, TypeOK, db, Phase
<1>6. CASE LiveFail
  BY <1>6, IdleType, ConstantsAssumption DEF LiveFail, Fail, TypeOK, db
<1> QED
  BY <1>1, <1>2, <1>3, <1>4, <1>5, <1>6 DEF LiveNext

LEMMA AnswerType ==
    ASSUME TypeOK, NEW p \in Profiles, NEW s \in RecentSeen, recent.pc = "fetching",
           recent' = Answer(p, s)
    PROVE  recent' \in [pc : Phase, tracked : SUBSET Profiles, seen : RecentSeen,
                        todo : SUBSET (Profiles \union Matches), held : SUBSET Matches,
                        rosters : Rosters \union {<<>>}]
<1>1. UNION {s[q] : q \in DOMAIN s} \subseteq Matches
  BY DEF RecentSeen
<1> QED
  BY <1>1 DEF Answer, Fetched, TypeOK, Phase

LEMMA RecentType ==
    ASSUME TypeOK, RecentNext \/ (\E p \in Profiles : RecentFetchFails(p)) \/ RecentFail
    PROVE  TypeOK'
<1>1. CASE RecentStart
  BY <1>1, TrackedType, IdleType DEF RecentStart, TypeOK, db, Begun, Idle, Phase
<1>2. ASSUME NEW p \in Profiles, RecentFetch(p)
      PROVE  TypeOK'
  <2> DEFINE s == [q \in DOMAIN recent.seen \union {p} |-> IF q = p THEN History(p) ELSE recent.seen[q]]
  <2>1. History(p) \subseteq Matches
    BY DEF History
  <2>2. DOMAIN recent.seen \subseteq Profiles /\ \A q \in DOMAIN recent.seen : recent.seen[q] \subseteq Matches
    BY DEF TypeOK, RecentSeen
  <2>3. s \in [DOMAIN recent.seen \union {p} -> SUBSET Matches]
    BY <2>1, <2>2
  <2>4. s \in RecentSeen
    BY <2>2, <2>3 DEF RecentSeen
  <2>5. recent' = Answer(p, s)
    BY <1>2 DEF RecentFetch
  <2> QED
    BY <1>2, <2>4, <2>5, AnswerType DEF RecentFetch, TypeOK, db
<1>3. ASSUME NEW p \in Profiles, RecentFetchFails(p)
      PROVE  TypeOK'
  BY <1>3, AnswerType, ConstantsAssumption DEF RecentFetchFails, TypeOK, db
<1>4. ASSUME NEW m \in Matches, RecentUpsert(m)
      PROVE  TypeOK'
  BY <1>4 DEF RecentUpsert, Upserted, TypeOK, db
<1>5. CASE RecentCommit
  BY <1>5, IdleType DEF RecentCommit, TypeOK, Row
<1>6. CASE RecentQuery
  BY <1>6 DEF RecentQuery, Scoped, TypeOK, db, Phase
<1>7. CASE RecentFail
  BY <1>7, IdleType, ConstantsAssumption DEF RecentFail, Fail, TypeOK, db
<1> QED
  BY <1>1, <1>2, <1>3, <1>4, <1>5, <1>6, <1>7 DEF RecentNext

LEMMA NextType == TypeOK /\ [Next]_vars => TypeOK'
<1> SUFFICES ASSUME TypeOK, [Next]_vars
             PROVE  TypeOK'
  OBVIOUS
<1>1. ASSUME NEW m \in Matches, Play(m)
      PROVE  TypeOK'
  BY <1>1 DEF Play, TypeOK, db, Phases
<1>2. ASSUME NEW t \in Tournaments, NEW p \in Editable[t], Edit(t, p)
      PROVE  TypeOK'
  <2>1. p \in Profiles
    BY <1>2, ConstantsAssumption
  <2>2. roster' \in Rosters
    BY <1>2, <2>1 DEF Edit, TypeOK, Rosters
  <2> QED
    BY <1>2, <2>2, ConstantsAssumption DEF Edit, TypeOK, db
<1>3. CASE UNCHANGED vars
  BY <1>3 DEF vars, db, TypeOK
<1> QED
  BY <1>1, <1>2, <1>3, LiveType, RecentType DEF Next

(* Every reachable state is well typed: in particular state and            *)
(* completed_at agree in every row, which both feeds write.                *)
THEOREM TypeCorrect == Spec => []TypeOK
<1>1. Init => TypeOK
  BY InitType
<1>2. TypeOK /\ [Next]_vars => TypeOK'
  BY NextType
<1> QED
  BY <1>1, <1>2, PTL DEF Spec
-----------------------------------------------------------------------------
(* Completion.                                                             *)
LEMMA CompletedStays ==
    ASSUME TypeOK, [Next]_vars, NEW m \in Matches, matches[m].completed
    PROVE  matches'[m].completed
<1>1. CASE LiveCommit
  BY <1>1, FromLiveType DEF LiveCommit, TypeOK
<1>2. CASE RecentCommit
  BY <1>2 DEF RecentCommit, Completed, TypeOK
<1>3. CASE UNCHANGED matches
  BY <1>3
<1> QED
  BY <1>1, <1>2, <1>3 DEF Next, vars, db, LiveNext, RecentNext, Play, Edit, LiveStart, LiveFetch,
     LiveUpsert, LiveQuery, LiveFail, RecentStart, RecentFetch, RecentFetchFails, RecentUpsert,
     RecentQuery, RecentFail

(* A completed match stays completed and is on no page as live, whatever   *)
(* the two feeds have seen and in whatever order they commit.              *)
THEOREM CompletionIsFinal == Spec => CompletedIsFinal
<1> DEFINE Final == \A m \in Matches : matches[m].completed
              => matches'[m].completed /\ \A t \in Tournaments, p \in Profiles : <<m, p>> \notin InMatch(t)'
<1>1. TypeOK /\ TypeOK' /\ [Next]_vars => Final
  <2> SUFFICES ASSUME TypeOK, TypeOK', [Next]_vars, NEW m \in Matches, matches[m].completed
               PROVE  matches'[m].completed /\ \A t \in Tournaments, p \in Profiles : <<m, p>> \notin InMatch(t)'
    OBVIOUS
  <2>1. matches'[m].completed
    BY CompletedStays
  <2>2. matches'[m] \in Row \union {NoRow}
    BY DEF TypeOK
  <2>3. ~NoRow.completed /\ \A r \in OpenRow : ~r.completed
    BY DEF NoRow, OpenRow
  <2>4. matches'[m] = Completed
    BY <2>1, <2>2, <2>3 DEF Row
  <2>5. \A t \in Tournaments, p \in Profiles : <<m, p>> \notin InMatch(t)'
    BY <2>4 DEF InMatch, Completed, Open
  <2> QED
    BY <2>1, <2>5
<1> QED
  BY <1>1, TypeCorrect, PTL DEF Spec, CompletedIsFinal

-----------------------------------------------------------------------------
(* Nudges.                                                                 *)
LEMMA LiveChangeIsTold ==
    ASSUME TypeOK, LiveCommit, NEW t \in Tournaments, NEW l \in InMatchChange(t),
           l[2] \in live.rosters[t]
    PROVE  t \in LiveScope
<1>1. links' = Snapshot /\ Snapshot \subseteq Matches \X Profiles
  BY DEF LiveCommit, Replaced, Snapshot, TypeOK, LiveSeen
<1>2. l \in links \union Snapshot
  BY <1>1 DEF InMatchChange, InMatch
<1>3. l = <<l[1], l[2]>> /\ l[1] \in Matches /\ l[2] \in Profiles
  BY <1>1, <1>2 DEF TypeOK
<1>4. l[2] \in Linked(links) \union Linked(Snapshot)
  BY <1>2, <1>3 DEF Linked
<1> QED
  BY <1>4 DEF LiveScope, Concerned

(* A tournament whose page changes with a live tick is in the nudge, unless *)
(* all that changes is of players who were added after the query for it.    *)
THEOREM LiveChangesAreTold == Spec => LiveNudgeCovers
<1>1. TypeOK /\ [Next]_vars =>
        (LiveCommit =>
            \A t \in Tournaments :
                (\E l \in InMatchChange(t) : l[2] \in live.rosters[t]) => t \in LiveScope)
  BY LiveChangeIsTold
<1> QED
  BY <1>1, TypeCorrect, PTL DEF Spec, LiveNudgeCovers

(* What a recent tick writes is listed in an answer it has.                *)
LEMMA AnswerListed ==
    ASSUME TypeOK, WrittenIsListed, NEW p \in Profiles, NEW s, recent.pc = "fetching",
           \A q \in DOMAIN s : \A m \in s[q] : q \in Members[m],
           recent' = Answer(p, s)
    PROVE  WrittenIsListed'
<1>1. recent.held = {}
  BY DEF WrittenIsListed
<1>2. CASE recent.todo = {p}
  <2> DEFINE listed == UNION {s[q] : q \in DOMAIN s}
  <2>1. recent' = [recent EXCEPT !.pc = "writing", !.seen = s, !.todo = listed]
    BY <1>2 DEF Answer, Fetched
  <2> HIDE DEF listed
  <2>2. recent'.pc = "writing" /\ recent'.seen = s /\ recent'.todo = listed /\ recent'.held = {}
    BY <1>1, <2>1 DEF TypeOK
  <2> QED
    BY <2>2 DEF WrittenIsListed, listed
<1>3. CASE recent.todo # {p}
  <2>1. recent' = [recent EXCEPT !.todo = @ \ {p}, !.seen = s]
    BY <1>3 DEF Answer
  <2>2. recent'.pc = "fetching" /\ recent'.seen = s /\ recent'.held = {}
    BY <1>1, <2>1 DEF TypeOK
  <2> QED
    BY <2>2 DEF WrittenIsListed
<1> QED
  BY <1>2, <1>3

LEMMA ListedInit == Init => WrittenIsListed
  BY DEF Init, Idle, WrittenIsListed

LEMMA ListedStays ==
    ASSUME TypeOK, WrittenIsListed, [Next]_vars
    PROVE  WrittenIsListed'
<1>1. CASE UNCHANGED recent
  BY <1>1 DEF WrittenIsListed
<1>2. CASE RecentStart
  <2>1. recent'.pc = "fetching" /\ recent'.seen = <<>> /\ recent'.held = {}
    BY <1>2 DEF RecentStart, Begun, Idle
  <2> QED
    BY <2>1 DEF WrittenIsListed
<1>3. ASSUME NEW p \in Profiles, RecentFetch(p)
      PROVE  WrittenIsListed'
  <2> DEFINE s == [q \in DOMAIN recent.seen \union {p} |-> IF q = p THEN History(p) ELSE recent.seen[q]]
  <2>1. \A q \in DOMAIN s : \A m \in s[q] : q \in Members[m]
    BY DEF History, WrittenIsListed
  <2>2. recent.pc = "fetching" /\ recent' = Answer(p, s)
    BY <1>3 DEF RecentFetch
  <2> HIDE DEF s
  <2> QED
    BY <2>1, <2>2, AnswerListed
<1>4. ASSUME NEW p \in Profiles, RecentFetchFails(p)
      PROVE  WrittenIsListed'
  BY <1>4, AnswerListed DEF RecentFetchFails, WrittenIsListed
<1>5. ASSUME NEW m \in Matches, RecentUpsert(m)
      PROVE  WrittenIsListed'
  <2>1. /\ recent.pc = "writing" /\ m \in recent.todo
        /\ recent' = [recent EXCEPT !.todo = @ \ {m}, !.held = @ \union {m}]
    BY <1>5 DEF RecentUpsert, Upserted
  <2>2. /\ recent'.pc = "writing" /\ recent'.seen = recent.seen
        /\ recent'.todo = recent.todo \ {m} /\ recent'.held = recent.held \union {m}
    BY <2>1 DEF TypeOK
  <2> QED
    BY <2>1, <2>2 DEF WrittenIsListed
<1>6. CASE RecentQuery
  <2>1. /\ recent.pc = "writing" /\ recent'.pc = "scoped" /\ recent'.seen = recent.seen
        /\ recent'.todo = recent.todo /\ recent'.held = recent.held
    BY <1>6 DEF RecentQuery, Scoped, TypeOK
  <2> QED
    BY <2>1 DEF WrittenIsListed
<1>7. CASE RecentCommit \/ RecentFail
  BY <1>7 DEF RecentCommit, RecentFail, Idle, WrittenIsListed
<1> QED
  BY <1>1, <1>2, <1>3, <1>4, <1>5, <1>6, <1>7 DEF Next, vars, LiveNext, RecentNext, Play, Edit,
     LiveStart, LiveFetch, LiveUpsert, LiveQuery, LiveCommit, LiveFail

(* Types, and where what is written comes from, for every instance.        *)
THEOREM Invariance == Spec => []IInv
<1>1. Init => IInv
  BY InitType, ListedInit DEF IInv
<1>2. IInv /\ [Next]_vars => IInv'
  BY NextType, ListedStays DEF IInv
<1> QED
  BY <1>1, <1>2, PTL DEF Spec

(* A match whose results a commit changes was written by it. *)
LEMMA ChangedIsListed ==
    ASSUME IInv, RecentCommit, NEW t \in Tournaments, NEW m \in ResultsChange(t)
    PROVE  \E p \in DOMAIN recent.seen : p \in Members[m] /\ m \in recent.seen[p]
<1>1. m \in Matches /\ matches'[m] # matches[m]
  BY DEF ResultsChange, Results, RecentCommit
<1>2. m \in recent.held
  BY <1>1 DEF RecentCommit, IInv, TypeOK
<1>3. m \in UNION {recent.seen[p] : p \in DOMAIN recent.seen}
  BY <1>2 DEF RecentCommit, IInv, WrittenIsListed
<1> QED
  BY <1>3 DEF IInv, WrittenIsListed

(* A tournament whose results change with a recent tick is in the nudge,   *)
(* whoever's answer completed the match, unless none of its players in the *)
(* match was answered for: the scope is of all who were asked, not of      *)
(* those in whose answer it was listed.                                    *)
THEOREM RecentChangesAreTold == Spec => RecentNudgeCovers
<1> DEFINE Told(t, m) ==
               \/ t \in RecentScope
               \/ /\ Members[m] \cap recent.rosters[t] \cap DOMAIN recent.seen = {}
                  /\ \E p \in DOMAIN recent.seen \ recent.rosters[t] :
                         p \in Members[m] /\ m \in recent.seen[p]
<1>1. ASSUME IInv, RecentCommit, NEW t \in Tournaments, NEW m \in ResultsChange(t)
      PROVE  Told(t, m)
  <2>1. PICK p \in DOMAIN recent.seen : p \in Members[m] /\ m \in recent.seen[p]
    BY <1>1, ChangedIsListed
  <2>2. t \in RecentScope \/ recent.rosters[t] \cap DOMAIN recent.seen = {}
    BY DEF RecentScope, Concerned
  <2> QED
    BY <2>1, <2>2
<1>2. IInv => (RecentCommit => \A t \in Tournaments : \A m \in ResultsChange(t) : Told(t, m))
  BY <1>1
<1> QED
  BY <1>2, Invariance, PTL DEF RecentNudgeCovers
=============================================================================
