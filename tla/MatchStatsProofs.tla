-------------------------- MODULE MatchStatsProofs --------------------------
(***************************************************************************)
(* Proofs about the match log: what the endpoints fold of it, module       *)
(* MatchStats, for any log of games, any window and any entrants; and how  *)
(* its tags and results come to be written, module MatchLog, whatever      *)
(* upstream publishes and however often the worker restarts.               *)
(***************************************************************************)
EXTENDS MatchStats, MatchLog, FiniteSetTheorems, FunctionTheorems, WellFoundedInduction, TLAPS

-----------------------------------------------------------------------------
(* Naturals: a least member, and a greatest one where there is a bound.    *)
LEMMA LessThan ==
    \E R : /\ IsWellFoundedOn(R, Nat)
           /\ R = {ss \in Nat \X Nat : ss[1] < ss[2]}
<1>1. OpToRel(<, Nat) = {ss \in Nat \X Nat : ss[1] < ss[2]}
  BY Zenon DEF OpToRel
<1> QED
  BY <1>1, NatLessThanWellFounded, Zenon

LEMMA LeastOf ==
    ASSUME NEW T, T \subseteq Nat, T # {}
    PROVE  \E x \in T : \A y \in T : x <= y
<1>1. PICK R : IsWellFoundedOn(R, Nat) /\ R = {ss \in Nat \X Nat : ss[1] < ss[2]}
  BY LessThan, Zenon
<1>2. PICK x \in T : \A y \in T : ~(<<y, x>> \in R)
  BY <1>1, WFMin, Zenon
<1>3. ASSUME NEW y \in T
      PROVE  x <= y
  <2>1. ~(<<y, x>> \in {ss \in Nat \X Nat : ss[1] < ss[2]})
    BY <1>1, <1>2, Zenon
  <2> QED
    BY <2>1
<1> QED
  BY <1>3

LEMMA MaxOf ==
    ASSUME NEW S, S \subseteq Nat, S # {}, NEW b \in Nat, \A y \in S : y <= b
    PROVE  Max(S) \in S /\ \A y \in S : y <= Max(S)
<1> DEFINE T == {b - y : y \in S}
<1>1. T \subseteq Nat /\ T # {}
  <2>1. ASSUME NEW y \in S
        PROVE  b - y \in Nat
    OBVIOUS
  <2>2. PICK y \in S : TRUE
    OBVIOUS
  <2>3. b - y \in T
    OBVIOUS
  <2> QED
    BY <2>1, <2>3
<1>2. PICK x \in T : \A y \in T : x <= y
  <2> HIDE DEF T
  <2> QED
    BY <1>1, LeastOf, Zenon
<1>3. PICK m \in S : x = b - m
  BY <1>2
<1>4. ASSUME NEW y \in S
      PROVE  y <= m
  <2>1. x <= b - y
    BY <1>2
  <2> QED
    BY <1>3, <2>1
<1> QED
  BY <1>3, <1>4 DEF Max

(* A finite set of naturals has a bound. *)
LEMMA FiniteIsBounded ==
    ASSUME NEW S \in SUBSET Nat, IsFiniteSet(S)
    PROVE  \E b \in Nat : \A y \in S : y <= b
<1>1. PICK n \in Nat : ExistsBijection(1..n, S)
  BY FS_NatBijection
<1>2. PICK g \in Bijection(1..n, S) : TRUE
  BY <1>1 DEF ExistsBijection
<1>3. PICK f \in [1..n -> Nat] : \A y \in S : \E i \in 1..n : f[i] = y
  BY <1>2 DEF Bijection, Surjection
<1> DEFINE Wrong == {k \in 0..n : \A b \in Nat : \E i \in 1..k : ~(f[i] <= b)}
<1>4. Wrong = {}
  <2> SUFFICES ASSUME Wrong # {} PROVE FALSE
    OBVIOUS
  <2>1. Wrong \subseteq Nat
    OBVIOUS
  <2>2. PICK k \in Wrong : \A j \in Wrong : k <= j
    <3> HIDE DEF Wrong
    <3> QED
      BY <2>1, LeastOf
  <2>3. k \in 0..n /\ \A b \in Nat : \E i \in 1..k : ~(f[i] <= b)
    OBVIOUS
  <2>4. k # 0
    <3>1. PICK i \in 1..k : TRUE
      BY <2>3
    <3> QED
      BY <2>3, <3>1
  <2>5. k - 1 \in 0..n /\ ~(k <= k - 1) /\ k \in 1..n
    BY <2>3, <2>4
  <2>6. k - 1 \notin Wrong
    BY <2>2, <2>5
  <2>7. PICK b \in Nat : \A i \in 1..(k - 1) : f[i] <= b
    BY <2>5, <2>6
  <2> HIDE DEF Wrong
  <2>8. PICK v \in Nat : v = f[k]
    BY <1>3, <2>5
  <2>9. PICK c \in Nat : b <= c /\ v <= c
    <3>1. b <= b + v /\ v <= b + v /\ b + v \in Nat
      OBVIOUS
    <3> QED
      BY <3>1
  <2>10. PICK i \in 1..k : ~(f[i] <= c)
    BY <2>3, <2>9
  <2>11. i \in 1..(k - 1) \/ i = k
    BY <2>5, <2>10
  <2>12. i \in 1..n
    BY <2>5, <2>10
  <2>13. PICK w \in Nat : w = f[i]
    BY <1>3, <2>12
  <2>14. w <= b \/ w = v
    BY <2>7, <2>8, <2>11, <2>13
  <2>15. ~(w <= c)
    BY <2>10, <2>13
  <2> QED
    BY <2>9, <2>14, <2>15
<1>5. PICK b \in Nat : \A i \in 1..n : f[i] <= b
  <2>1. n \in 0..n /\ n \notin Wrong
    <3> HIDE DEF Wrong
    <3> QED
      BY <1>4
  <2>2. \E b \in Nat : ~\E i \in 1..n : ~(f[i] <= b)
    BY <2>1
  <2> HIDE DEF Wrong
  <2> QED
    BY <2>2
<1>6. \A i \in 1..n : f[i] \in Nat
  BY <1>3
<1>7. ASSUME NEW y \in S
      PROVE  y <= b
  <2>1. PICK i \in 1..n : f[i] = y
    BY <1>3
  <2> QED
    BY <1>5, <1>6, <2>1
<1> QED
  BY <1>7

-----------------------------------------------------------------------------
(* The scan for the longest run. *)
Stretch(C, a, b) == {t \in C : a <= t /\ t <= b}

Scanned(C, W, n, scan) ==
    [t \in 0..(n + 1) |->
        IF t = n + 1 THEN NoRun
        ELSE IF t \in C THEN Pass(scan[t + 1], t, t \in W) ELSE scan[t + 1]]

LEMMA ScanIsDefined ==
    ASSUME NEW C, NEW W, NEW n \in Nat
    PROVE  \E scan : scan = Scanned(C, W, n, scan)
<1> DEFINE Body(f, t) == IF t = n + 1 THEN NoRun
                         ELSE IF t \in C THEN Pass(f[t + 1], t, t \in W) ELSE f[t + 1]
           From(m, f) == f = [t \in m..(n + 1) |-> Body(f, t)]
           Stuck == {k \in 0..(n + 1) : ~\E f : From(n + 1 - k, f)}
<1>1. CASE Stuck = {}
  <2>1. 0 = n + 1 - (n + 1) /\ n + 1 \in 0..(n + 1)
    OBVIOUS
  <2>2. \E f : From(n + 1 - (n + 1), f)
    BY <1>1, <2>1
  <2>3. PICK f : From(0, f)
    BY <2>1, <2>2
  <2> QED
    BY <2>3 DEF Scanned
<1>2. CASE Stuck # {}
  <2>1. Stuck \subseteq Nat
    OBVIOUS
  <2>2. PICK k \in Stuck : \A j \in Stuck : k <= j
    <3> HIDE DEF Stuck
    <3> QED
      BY <1>2, <2>1, LeastOf
  <2>3. k \in 0..(n + 1) /\ ~\E f : From(n + 1 - k, f)
    OBVIOUS
  <2>4. CASE k = 0
    <3> DEFINE g == [t \in (n + 1)..(n + 1) |-> NoRun]
    <3>1. \A t \in (n + 1)..(n + 1) : t = n + 1
      OBVIOUS
    <3>2. g = [t \in (n + 1)..(n + 1) |-> Body(g, t)]
      BY <3>1
    <3>3. n + 1 - k = n + 1
      BY <2>4
    <3> QED
      BY <2>3, <3>2, <3>3
  <2>5. CASE k # 0
    <3> DEFINE m == n + 1 - k
    <3>1. /\ k - 1 \in 0..(n + 1) /\ ~(k <= k - 1) /\ n + 1 - (k - 1) = m + 1
          /\ m \in 0..n /\ m # n + 1 /\ m + 1 \in (m + 1)..(n + 1)
      BY <2>3, <2>5
    <3>2. \E f : From(n + 1 - (k - 1), f)
      BY <2>2, <3>1
    <3>3. PICK f : f = [t \in (m + 1)..(n + 1) |-> Body(f, t)]
      BY <3>1, <3>2
    <3> DEFINE g == [t \in m..(n + 1) |-> IF t = m THEN Body(f, t) ELSE f[t]]
    <3>4. \A t \in m..(n + 1) : t # n + 1 => g[t + 1] = f[t + 1]
      BY <3>1
    <3>5. ASSUME NEW t \in m..(n + 1)
          PROVE  Body(f, t) = Body(g, t)
      BY <3>4
    <3>6. ASSUME NEW t \in m..(n + 1)
          PROVE  g[t] = Body(f, t)
      <4>1. CASE t = m
        BY <4>1
      <4>2. CASE t # m
        <5>1. t \in (m + 1)..(n + 1)
          BY <3>1, <4>2
        <5>2. f[t] = Body(f, t)
          BY <3>3, <5>1
        <5> QED
          BY <4>2, <5>2
      <4> QED
        BY <4>1, <4>2
    <3>7. g = [t \in m..(n + 1) |-> g[t]]
      OBVIOUS
    <3> HIDE DEF g, Body
    <3>8. g = [t \in m..(n + 1) |-> Body(g, t)]
      BY <3>5, <3>6, <3>7
    <3> QED
      BY <2>3, <3>8
  <2> QED
    BY <2>4, <2>5
<1> QED
  BY <1>1, <1>2

(* What the scan of the games C, of which W are won, holds once it has     *)
(* seen those from t on.  The current run starts at the oldest of them and *)
(* ends where it cannot be continued; the best run is as long as any, and  *)
(* longer than any that begins later.                                      *)
RunType == [best : Nat, from : Nat \union {None}, to : Nat \union {None},
            run : Nat, last : Nat \union {None}]

Current(acc, C, W, t) ==
    /\ acc.run > 0 => /\ acc.last \in W /\ acc.last >= t /\ Stretch(C, t, acc.last) \subseteq W
                      /\ Cardinality(Stretch(C, t, acc.last)) = acc.run
    /\ \A d \in W : d >= t /\ Stretch(C, t, d) \subseteq W => acc.run > 0 /\ d <= acc.last

Delimited(acc, C, W, t) ==
    acc.best > 0 => /\ acc.from \in W /\ acc.to \in W /\ acc.from >= t
                    /\ Stretch(C, acc.from, acc.to) \subseteq W
                    /\ Cardinality(Stretch(C, acc.from, acc.to)) = acc.best

Longest(acc, C, W, t) ==
    \A c, d \in W : c >= t /\ Stretch(C, c, d) \subseteq W => Cardinality(Stretch(C, c, d)) <= acc.best

Latest(acc, C, W) ==
    acc.best > 0 => \A c, d \in W : c > acc.from /\ Stretch(C, c, d) \subseteq W
                                      => Cardinality(Stretch(C, c, d)) < acc.best

Scan(acc, C, W, t) ==
    /\ acc \in RunType /\ acc.run <= acc.best
    /\ Current(acc, C, W, t) /\ Delimited(acc, C, W, t)
    /\ Longest(acc, C, W, t) /\ Latest(acc, C, W)

LEMMA StretchType ==
    ASSUME NEW C, IsFiniteSet(C), NEW c, NEW d
    PROVE  /\ IsFiniteSet(Stretch(C, c, d)) /\ Stretch(C, c, d) \subseteq C
           /\ Cardinality(Stretch(C, c, d)) \in Nat
<1>1. Stretch(C, c, d) \in SUBSET C
  BY DEF Stretch
<1>2. IsFiniteSet(Stretch(C, c, d))
  BY <1>1, FS_Subset
<1> QED
  BY <1>1, <1>2, FS_CardinalityType

LEMMA StretchOf ==
    ASSUME NEW C \in SUBSET Nat, NEW t \in C
    PROVE  /\ Stretch(C, t, t) = {t}
           /\ \A d \in Nat : d >= t => Stretch(C, t, d) = Stretch(C, t + 1, d) \union {t}
           /\ \A d \in Nat : ~(d >= t) => Stretch(C, t, d) = {}
           /\ \A d \in Nat, e \in Nat : d <= e => Stretch(C, t, d) \subseteq Stretch(C, t, e)
<1>0. t \in Nat
  OBVIOUS
<1>1. ASSUME NEW u \in C
      PROVE  /\ u \in Nat
             /\ t <= u <=> u = t \/ t + 1 <= u
             /\ t <= u /\ u <= t => u = t
             /\ \A d \in Nat : ~(d >= t) => ~(t <= u /\ u <= d)
             /\ \A d \in Nat, e \in Nat : d <= e /\ u <= d => u <= e
  BY <1>0
<1>2. Stretch(C, t, t) = {t}
  BY <1>0, <1>1 DEF Stretch
<1>3. ASSUME NEW d \in Nat, d >= t
      PROVE  Stretch(C, t, d) = Stretch(C, t + 1, d) \union {t}
  <2>1. t <= d /\ t <= t
    BY <1>0, <1>3
  <2> QED
    BY <1>1, <2>1 DEF Stretch
<1>4. ASSUME NEW d \in Nat, ~(d >= t)
      PROVE  Stretch(C, t, d) = {}
  BY <1>1, <1>4 DEF Stretch
<1>5. ASSUME NEW d \in Nat, NEW e \in Nat, d <= e
      PROVE  Stretch(C, t, d) \subseteq Stretch(C, t, e)
  BY <1>1, <1>5 DEF Stretch
<1> QED
  BY <1>2, <1>3, <1>4, <1>5

(* Before the first game. *)
LEMMA NothingScanned ==
    ASSUME NEW C \in SUBSET Nat, NEW W \in SUBSET C, NEW n \in Nat, \A t \in C : t <= n
    PROVE  Scan(NoRun, C, W, n + 1)
<1>1. NoRun \in RunType
  BY DEF NoRun, RunType
<1>2. \A d \in W : ~(d >= n + 1)
  OBVIOUS
<1> QED
  BY <1>1, <1>2 DEF NoRun, Scan, Current, Delimited, Longest, Latest

(* A time no game of C is at. *)
LEMMA NoGameScanned ==
    ASSUME NEW C \in SUBSET Nat, NEW W \in SUBSET C, NEW t \in Nat, t \notin C,
           NEW acc, Scan(acc, C, W, t + 1)
    PROVE  Scan(acc, C, W, t)
<1>1. \A u \in C : u >= t <=> u >= t + 1
  OBVIOUS
<1>2. \A d \in Nat : Stretch(C, t, d) = Stretch(C, t + 1, d)
  BY <1>1 DEF Stretch
<1>3. \A d \in W : d \in C /\ d \in Nat
  OBVIOUS
<1>4. Current(acc, C, W, t)
  BY <1>1, <1>2, <1>3 DEF Scan, Current
<1>5. Delimited(acc, C, W, t)
  BY <1>1, <1>3 DEF Scan, Delimited
<1>6. Longest(acc, C, W, t)
  BY <1>1, <1>3 DEF Scan, Longest
<1> QED
  BY <1>4, <1>5, <1>6 DEF Scan

(* A game that was lost. *)
LEMMA LossScanned ==
    ASSUME NEW C \in SUBSET Nat, NEW W \in SUBSET C, NEW t \in C, t \notin W,
           NEW acc, Scan(acc, C, W, t + 1)
    PROVE  Scan(Pass(acc, t, t \in W), C, W, t)
<1> DEFINE new == [acc EXCEPT !.run = 0]
<1>1. Pass(acc, t, t \in W) = new
  BY DEF Pass
<1>2. acc \in RunType
  BY DEF Scan
<1>3. /\ new \in RunType /\ new.run = 0 /\ new.best = acc.best /\ new.from = acc.from
      /\ new.to = acc.to
  BY <1>2 DEF RunType
<1> HIDE DEF new
<1>4. \A d \in W : d \in Nat /\ d # t /\ (d >= t <=> d >= t + 1)
  OBVIOUS
<1>5. \A d \in W : d >= t => t \in Stretch(C, t, d)
  BY DEF Stretch
<1>6. Current(new, C, W, t)
  BY <1>3, <1>5 DEF Current
<1>7. Delimited(new, C, W, t)
  BY <1>3, <1>4 DEF Scan, Delimited
<1>8. Longest(new, C, W, t)
  BY <1>3, <1>4 DEF Scan, Longest
<1>9. Latest(new, C, W)
  BY <1>3 DEF Scan, Latest
<1>10. new.run <= new.best
  BY <1>3 DEF RunType
<1> QED
  BY <1>1, <1>3, <1>6, <1>7, <1>8, <1>9, <1>10 DEF Scan

(* A game that was won continues the current run or begins one. *)
EndOfRun(acc, t) == IF acc.run = 0 THEN t ELSE acc.last

LEMMA RunContinued ==
    ASSUME NEW C \in SUBSET Nat, IsFiniteSet(C), NEW W \in SUBSET C,
           NEW t \in W, NEW acc, acc \in RunType, Current(acc, C, W, t + 1)
    PROVE  /\ EndOfRun(acc, t) \in W /\ EndOfRun(acc, t) >= t
           /\ Stretch(C, t, EndOfRun(acc, t)) \subseteq W
           /\ Cardinality(Stretch(C, t, EndOfRun(acc, t))) = acc.run + 1
           /\ \A d \in W : d >= t /\ Stretch(C, t, d) \subseteq W => d <= EndOfRun(acc, t)
<1> DEFINE e == EndOfRun(acc, t)
<1>0. acc.run \in Nat /\ t \in C /\ t \in Nat /\ \A d \in W : d \in C /\ d \in Nat
  BY DEF RunType
<1>1. \A d \in W : d >= t => Stretch(C, t, d) = Stretch(C, t + 1, d) \union {t}
  BY <1>0, StretchOf
<1>2. \A d : t \notin Stretch(C, t + 1, d)
  BY <1>0 DEF Stretch
<1>3. CASE acc.run = 0
  <2>1. e = t
    BY <1>3 DEF EndOfRun
  <2>2. Stretch(C, t, t) = {t}
    BY <1>0, StretchOf
  <2>3. Cardinality({t}) = 1
    BY FS_Singleton
  <2>4. ASSUME NEW d \in W, d >= t, Stretch(C, t, d) \subseteq W
        PROVE  d <= t
    <3>1. Stretch(C, t + 1, d) \subseteq W
      BY <1>1, <2>4
    <3>2. ~(d >= t + 1)
      BY <1>3, <3>1 DEF Current
    <3> QED
      BY <1>0, <3>2
  <2> QED
    BY <1>0, <1>3, <2>1, <2>2, <2>3, <2>4
<1>4. CASE acc.run # 0
  <2>1. e = acc.last /\ acc.run > 0
    BY <1>0, <1>4 DEF EndOfRun
  <2> HIDE DEF e
  <2>2. /\ e \in W /\ e >= t + 1 /\ Stretch(C, t + 1, e) \subseteq W
        /\ Cardinality(Stretch(C, t + 1, e)) = acc.run
    BY <2>1 DEF Current
  <2>3. e \in Nat /\ e >= t
    BY <1>0, <2>2
  <2>4. Stretch(C, t, e) = Stretch(C, t + 1, e) \union {t}
    BY <1>1, <2>2, <2>3
  <2>5. Cardinality(Stretch(C, t + 1, e) \union {t}) = acc.run + 1
    BY <1>2, <2>2, StretchType, FS_AddElement
  <2>6. ASSUME NEW d \in W, d >= t, Stretch(C, t, d) \subseteq W
        PROVE  d <= e
    <3>1. Stretch(C, t + 1, d) \subseteq W
      BY <1>1, <2>6
    <3>2. d >= t + 1 => d <= e
      BY <2>1, <3>1 DEF Current
    <3> QED
      BY <1>0, <2>2, <2>3, <3>2
  <2> QED
    BY <2>2, <2>3, <2>4, <2>5, <2>6 DEF e
<1> QED
  BY <1>3, <1>4

LEMMA WinScanned ==
    ASSUME NEW C \in SUBSET Nat, IsFiniteSet(C), NEW W \in SUBSET C,
           NEW t \in C, t \in W, NEW acc, Scan(acc, C, W, t + 1)
    PROVE  Scan(Pass(acc, t, t \in W), C, W, t)
<1> DEFINE r == acc.run + 1
           e == EndOfRun(acc, t)
           new == Pass(acc, t, t \in W)
           longer == r > acc.best
<1>1. new = IF longer THEN [best |-> r, from |-> t, to |-> e, run |-> r, last |-> e]
                      ELSE [acc EXCEPT !.run = r, !.last = e]
  BY DEF Pass, EndOfRun
<1>2. acc \in RunType /\ acc.run <= acc.best /\ r \in Nat /\ r > 0 /\ acc.best \in Nat /\ t \in Nat
  BY DEF Scan, RunType
<1>3. /\ e \in W /\ e >= t /\ Stretch(C, t, e) \subseteq W /\ Cardinality(Stretch(C, t, e)) = r
      /\ \A d \in W : d >= t /\ Stretch(C, t, d) \subseteq W => d <= e
  <2>1. Current(acc, C, W, t + 1)
    BY DEF Scan
  <2> QED
    <3>1. t \in W /\ acc \in RunType /\ IsFiniteSet(C)
      BY <1>2
    <3>2. Cardinality(Stretch(C, t, EndOfRun(acc, t))) = acc.run + 1
      BY <2>1, <3>1, RunContinued
    <3>3. EndOfRun(acc, t) \in W /\ EndOfRun(acc, t) >= t
      BY <2>1, <3>1, RunContinued
    <3>4. \A d \in W : d >= t /\ Stretch(C, t, d) \subseteq W => d <= EndOfRun(acc, t)
      BY <2>1, <3>1, RunContinued
    <3>5. Stretch(C, t, EndOfRun(acc, t)) \subseteq W
      BY <2>1, <3>1, RunContinued
    <3> QED
      BY <3>2, <3>3, <3>4, <3>5
<1>4. e \in Nat
  BY <1>3
<1>5. /\ new.run = r /\ new.last = e
      /\ longer => new.best = r /\ new.from = t /\ new.to = e
      /\ ~longer => new.best = acc.best /\ new.from = acc.from /\ new.to = acc.to
      /\ new \in RunType
  <2>1. CASE longer
    BY <1>1, <1>2, <1>4, <2>1 DEF RunType
  <2>2. CASE ~longer
    BY <1>1, <1>2, <1>4, <2>2 DEF RunType
  <2> QED
    BY <2>1, <2>2
<1>6. acc.best <= new.best /\ r <= new.best /\ new.best \in Nat
  BY <1>2, <1>5
<1> HIDE DEF new, e, r, longer
<1>7. Current(new, C, W, t)
  BY <1>2, <1>3, <1>5 DEF Current
<1>8. Delimited(new, C, W, t)
  <2>1. CASE longer
    BY <1>2, <1>3, <1>5, <2>1 DEF Delimited
  <2>2. CASE ~longer
    <3>1. Delimited(acc, C, W, t + 1)
      BY DEF Scan
    <3>2. ASSUME new.best > 0
          PROVE  acc.from \in W /\ acc.from >= t
      <4>1. acc.from \in W /\ acc.from >= t + 1
        BY <1>5, <2>2, <3>1, <3>2 DEF Delimited
      <4>2. acc.from \in Nat
        BY <4>1
      <4> QED
        BY <1>2, <4>1, <4>2
    <3> QED
      BY <1>5, <2>2, <3>1, <3>2 DEF Delimited
  <2> QED
    BY <2>1, <2>2
<1>9. ASSUME NEW c \in W, NEW d \in W, c > t, Stretch(C, c, d) \subseteq W
      PROVE  Cardinality(Stretch(C, c, d)) <= acc.best
  <2>1. c >= t + 1
    BY <1>9
  <2> QED
    BY <1>9, <2>1 DEF Scan, Longest
<1>10. ASSUME NEW d \in W, Stretch(C, t, d) \subseteq W
       PROVE  Cardinality(Stretch(C, t, d)) <= r
  <2>1. d \in Nat
    OBVIOUS
  <2>2. CASE d >= t
    <3>1. d <= e
      BY <1>3, <1>10, <2>2
    <3>2. Stretch(C, t, d) \in SUBSET Stretch(C, t, e)
      BY <1>4, <2>1, <3>1, StretchOf
    <3>3. IsFiniteSet(Stretch(C, t, e))
      BY StretchType
    <3> QED
      BY <1>3, <3>2, <3>3, FS_Subset
  <2>3. CASE ~(d >= t)
    <3>1. Stretch(C, t, d) = {}
      BY <2>1, <2>3, StretchOf
    <3> QED
      BY <1>2, <3>1, FS_EmptySet
  <2> QED
    BY <2>2, <2>3
<1>11. ASSUME NEW c \in W, NEW d \in W, c >= t, Stretch(C, c, d) \subseteq W
       PROVE  Cardinality(Stretch(C, c, d)) <= new.best
  <2>1. Cardinality(Stretch(C, c, d)) \in Nat
    BY StretchType
  <2>2. CASE c = t
    BY <1>2, <1>6, <1>10, <1>11, <2>1, <2>2
  <2>3. CASE c # t
    <3>1. c > t
      BY <1>2, <1>11, <2>3
    <3> QED
      BY <1>2, <1>6, <1>9, <1>11, <2>1, <3>1
  <2> QED
    BY <2>2, <2>3
<1>12. Longest(new, C, W, t)
  BY <1>11 DEF Longest
<1>13. Latest(new, C, W)
  <2>1. CASE longer
    <3>1. acc.best < r
      BY <1>2, <2>1 DEF longer
    <3>2. ASSUME NEW c \in W, NEW d \in W, c > t, Stretch(C, c, d) \subseteq W
          PROVE  Cardinality(Stretch(C, c, d)) < r
      <4>1. Cardinality(Stretch(C, c, d)) \in Nat
        BY StretchType
      <4> QED
        BY <1>2, <1>9, <3>1, <3>2, <4>1
    <3> QED
      BY <1>5, <2>1, <3>2 DEF Latest
  <2>2. CASE ~longer
    BY <1>5, <2>2 DEF Scan, Latest
  <2> QED
    BY <2>1, <2>2
<1>14. new.run <= new.best
  BY <1>5, <1>6
<1> QED
  BY <1>5, <1>7, <1>8, <1>12, <1>13, <1>14 DEF Scan, new

(* The pass of _longest_win_run over any games, in whatever runs they were *)
(* won: it keeps the longest run, the latest of those, and its dates.      *)
LEMMA LongestRunScans ==
    ASSUME NEW C \in SUBSET Nat, NEW b \in Nat, \A t \in C : t <= b, NEW W \in SUBSET C
    PROVE  Scan(LongestRun(C, W), C, W, 0)
<1>1. CASE C = {}
  <2>1. LongestRun(C, W) = NoRun
    BY <1>1 DEF LongestRun
  <2>2. NoRun \in RunType
    BY DEF NoRun, RunType
  <2> QED
    BY <1>1, <2>1, <2>2 DEF NoRun, Scan, Current, Delimited, Longest, Latest
<1>2. CASE C # {}
  <2> DEFINE n == Max(C)
  <2>0. IsFiniteSet(C)
    BY FS_BoundedSetOfNaturals
  <2>1. n \in C /\ n \in Nat /\ \A t \in C : t <= n
    BY <1>2, MaxOf
  <2> DEFINE scan == CHOOSE f : f = Scanned(C, W, n, f)
  <2>2. LongestRun(C, W) = scan[0]
    BY <1>2 DEF LongestRun, Scanned
  <2>3. scan = Scanned(C, W, n, scan)
    BY <2>1, ScanIsDefined
  <2> HIDE DEF scan, n
  <2>4. scan[n + 1] = NoRun
    BY <2>1, <2>3 DEF Scanned
  <2>5. ASSUME NEW t \in 0..n
        PROVE  scan[t] = IF t \in C THEN Pass(scan[t + 1], t, t \in W) ELSE scan[t + 1]
    BY <2>1, <2>3 DEF Scanned
  <2> DEFINE Missed == {k \in 0..(n + 1) : ~Scan(scan[n + 1 - k], C, W, n + 1 - k)}
  <2>6. Missed = {}
    <3> SUFFICES ASSUME Missed # {} PROVE FALSE
      OBVIOUS
    <3>1. Missed \subseteq Nat
      BY <2>1
    <3>2. PICK k \in Missed : \A j \in Missed : k <= j
      <4> HIDE DEF Missed
      <4> QED
        BY <3>1, LeastOf
    <3>3. k \in 0..(n + 1) /\ ~Scan(scan[n + 1 - k], C, W, n + 1 - k)
      OBVIOUS
    <3>4. k # 0
      <4>1. Scan(NoRun, C, W, n + 1)
        BY <2>1, NothingScanned
      <4>2. n + 1 - 0 = n + 1
        BY <2>1
      <4> QED
        BY <2>4, <3>3, <4>1, <4>2
    <3> DEFINE t == n + 1 - k
    <3>5. /\ k - 1 \in 0..(n + 1) /\ ~(k <= k - 1) /\ n + 1 - (k - 1) = t + 1
          /\ t \in 0..n /\ t \in Nat
      BY <2>1, <3>3, <3>4
    <3>6. Scan(scan[t + 1], C, W, t + 1)
      BY <3>2, <3>5
    <3>7. ~Scan(scan[t], C, W, t)
      BY <3>3
    <3> HIDE DEF t
    <3>8. CASE t \notin C
      BY <2>5, <3>5, <3>6, <3>7, <3>8, NoGameScanned
    <3>9. CASE t \in C /\ t \notin W
      BY <2>5, <3>5, <3>6, <3>7, <3>9, LossScanned
    <3>10. CASE t \in C /\ t \in W
      BY <2>0, <2>5, <3>5, <3>6, <3>7, <3>10, WinScanned
    <3> QED
      BY <3>8, <3>9, <3>10
  <2>7. n + 1 \in 0..(n + 1) /\ n + 1 - (n + 1) = 0
    BY <2>1
  <2>8. Scan(scan[0], C, W, 0)
    BY <2>6, <2>7
  <2> QED
    BY <2>2, <2>8
<1> QED
  BY <1>1, <1>2

-----------------------------------------------------------------------------
(* The games of one player. *)
LEMMA CountedType ==
    ASSUME LogIsBounded, NEW p
    PROVE  /\ Counted(p) \in SUBSET DOMAIN log /\ Won(p) \in SUBSET Counted(p)
           /\ DOMAIN log \in SUBSET Nat /\ IsFiniteSet(DOMAIN log)
           /\ Counted(p) \in SUBSET Nat /\ IsFiniteSet(Counted(p))
           /\ \E b \in Nat : \A t \in DOMAIN log : t <= b
<1>1. Counted(p) \in SUBSET DOMAIN log /\ Won(p) \in SUBSET Counted(p)
  BY DEF Counted, Won, Settled, Played
<1>2. DOMAIN log \in SUBSET Nat
  BY ConstantsAssumption DEF LogIsBounded
<1>3. \E b \in Nat : \A t \in DOMAIN log : t <= b
  BY <1>2 DEF LogIsBounded
<1>4. IsFiniteSet(DOMAIN log)
  BY <1>2, <1>3, FS_BoundedSetOfNaturals
<1>5. IsFiniteSet(Counted(p))
  BY <1>1, <1>4, FS_Subset
<1> QED
  BY <1>1, <1>2, <1>3, <1>4, <1>5

LEMMA AsOfScans ==
    ASSUME LogIsBounded, NEW p, NEW T
    PROVE  Scan(LongestRun(Counted(p) \cap T, Won(p) \cap T),
                Counted(p) \cap T, Won(p) \cap T, 0)
<1>1. PICK b \in Nat : \A t \in DOMAIN log : t <= b
  BY CountedType
<1> DEFINE C == Counted(p) \cap T
           W == Won(p) \cap T
<1>2. C \in SUBSET Nat /\ W \in SUBSET C /\ \A t \in C : t <= b
  BY <1>1, CountedType
<1> HIDE DEF C, W
<1>3. Scan(LongestRun(C, W), C, W, 0)
  BY <1>2, LongestRunScans
<1> QED
  BY <1>3 DEF C, W

LEMMA PlayerScans ==
    ASSUME LogIsBounded, NEW p
    PROVE  Scan(LongestWinRun(p), Counted(p), Won(p), 0)
<1>1. Counted(p) \cap Counted(p) = Counted(p) /\ Won(p) \cap Counted(p) = Won(p)
  BY CountedType
<1> QED
  BY <1>1, AsOfScans DEF LongestWinRun

(* No run of wins is longer than the one reported, and no later one is as  *)
(* long.                                                                   *)
LEMMA RunIsLongest ==
    ASSUME LogIsBounded, NEW p
    PROVE  LET run == LongestWinRun(p)
           IN  /\ run.best = Max({0} \union RunLengths(p, Won(p)))
               /\ run.best > 0 =>
                      /\ {run.from, run.to} \subseteq Won(p)
                      /\ Between(p, run.from, run.to) \subseteq Won(p)
                      /\ Cardinality(Between(p, run.from, run.to)) = run.best
                      /\ run.best \notin RunLengths(p, {t \in Won(p) : t > run.from})
<1> DEFINE run == LongestWinRun(p)
           C == Counted(p)
           W == Won(p)
           L == RunLengths(p, W)
<1>1. Scan(run, C, W, 0)
  BY PlayerScans
<1>2. run.best \in Nat
  BY <1>1 DEF Scan, RunType
<1>3. \A a, b : Between(p, a, b) = Stretch(C, a, b)
  BY DEF Between, Stretch
<1>4. ASSUME NEW S \in SUBSET W, NEW n \in RunLengths(p, S)
      PROVE  \E c, d \in S : Stretch(C, c, d) \subseteq W /\ n = Cardinality(Stretch(C, c, d))
  BY <1>3 DEF RunLengths
<1>5. \A c \in W : c \in Nat /\ c >= 0
  BY CountedType
<1>6. ASSUME NEW n \in L
      PROVE  n \in Nat /\ n <= run.best
  <2>1. PICK c \in W, d \in W : Stretch(C, c, d) \subseteq W /\ n = Cardinality(Stretch(C, c, d))
    BY <1>4
  <2>2. n \in Nat
    BY <2>1, CountedType, StretchType
  <2>3. n <= run.best
    BY <1>1, <1>5, <2>1 DEF Scan, Longest
  <2> QED
    BY <2>2, <2>3
<1>7. ASSUME run.best > 0
      PROVE  /\ run.from \in W /\ run.to \in W /\ Stretch(C, run.from, run.to) \subseteq W
             /\ Cardinality(Stretch(C, run.from, run.to)) = run.best
  BY <1>1, <1>7 DEF Scan, Delimited
<1>8. run.best \in {0} \union L
  <2>1. CASE run.best = 0
    BY <2>1
  <2>2. CASE run.best > 0
    <3>1. <<run.from, run.to>> \in {v \in W \X W : Between(p, v[1], v[2]) \subseteq W}
      BY <1>3, <1>7, <2>2
    <3>2. run.best = Cardinality(Between(p, <<run.from, run.to>>[1], <<run.from, run.to>>[2]))
      BY <1>3, <1>7, <2>2
    <3> HIDE DEF run
    <3>3. run.best \in RunLengths(p, W)
      BY <3>1, <3>2 DEF RunLengths
    <3> QED
      BY <3>3
  <2> QED
    BY <1>2, <2>1, <2>2
<1>9. run.best = Max({0} \union L)
  <2> DEFINE S == {0} \union L
  <2>1. S \subseteq Nat /\ S # {} /\ \A y \in S : y <= run.best
    BY <1>2, <1>6
  <2>2. run.best \in S
    BY <1>8
  <2> HIDE DEF S, run
  <2>3. Max(S) \in S /\ \A y \in S : y <= Max(S)
    BY <1>2, <2>1, MaxOf
  <2>4. Max(S) \in Nat /\ Max(S) <= run.best /\ run.best <= Max(S)
    BY <2>1, <2>2, <2>3
  <2> QED
    BY <1>2, <2>4 DEF S
<1>10. ASSUME run.best > 0
       PROVE  run.best \notin RunLengths(p, {t \in W : t > run.from})
  <2> DEFINE S == {t \in W : t > run.from}
  <2>1. SUFFICES ASSUME run.best \in RunLengths(p, S) PROVE FALSE
    OBVIOUS
  <2>2. S \in SUBSET W
    OBVIOUS
  <2>3. PICK c \in S, d \in S : Stretch(C, c, d) \subseteq W
                              /\ run.best = Cardinality(Stretch(C, c, d))
    BY <1>4, <2>1, <2>2
  <2>4. run.best < run.best
    BY <1>1, <1>10, <2>3 DEF Scan, Latest
  <2> QED
    BY <1>2, <2>4
<1> QED
  BY <1>3, <1>7, <1>9, <1>10

(* The current streak is a run of wins, or is not positive. *)
LEMMA StreakIsARun ==
    ASSUME LogIsBounded, NEW p
    PROVE  Streak(p) <= LongestWinRun(p).best
<1> DEFINE best == LongestWinRun(p).best
           C == Counted(p)
           top == Max(C)
           lead == Side(top, p).outcome
           run == {t \in C : \A u \in C : u >= t => Side(u, p).outcome = lead}
<1>0. best \in Nat
  BY PlayerScans DEF Scan, RunType
<1>1. Streak(p) = IF C = {} THEN 0 ELSE IF lead = "win" THEN Cardinality(run) ELSE -Cardinality(run)
  BY DEF Streak
<1>2. run \in SUBSET C /\ Cardinality(run) \in Nat
  <2>1. run \in SUBSET C
    OBVIOUS
  <2>2. IsFiniteSet(run)
    BY <2>1, CountedType, FS_Subset
  <2> QED
    BY <2>1, <2>2, FS_CardinalityType
<1>3. CASE C = {}
  BY <1>0, <1>1, <1>3
<1>4. CASE C # {} /\ lead # "win"
  <2>1. Streak(p) = -Cardinality(run)
    BY <1>1, <1>4
  <2> HIDE DEF run
  <2> QED
    BY <1>0, <1>2, <2>1
<1>5. CASE C # {} /\ lead = "win"
  <2>1. PICK b \in Nat : \A t \in C : t <= b
    BY CountedType
  <2>2. top \in C /\ top \in Nat /\ \A t \in C : t <= top
    BY <1>5, <2>1, CountedType, MaxOf
  <2>3. \A t \in C : t \in Nat
    BY CountedType
  <2> HIDE DEF top
  <2>4. top \in run
    <3>1. \A u \in C : u >= top => u = top
      BY <2>2, <2>3
    <3> QED
      BY <2>2, <3>1
  <2>5. PICK m \in run : \A t \in run : m <= t
    <3>1. run \subseteq Nat /\ run # {}
      BY <2>3, <2>4
    <3> HIDE DEF run
    <3> QED
      BY <3>1, LeastOf
  <2>6. run = Stretch(C, m, top)
    <3>1. ASSUME NEW t \in run
          PROVE  t \in Stretch(C, m, top)
      BY <2>2, <2>5, <3>1 DEF Stretch
    <3>2. ASSUME NEW t \in Stretch(C, m, top)
          PROVE  t \in run
      <4>1. t \in C /\ m <= t /\ m \in Nat /\ t \in Nat
        BY <2>3, <2>5 DEF Stretch
      <4>2. \A u \in C : u >= t => u >= m
        BY <2>3, <4>1
      <4>3. \A u \in C : u >= m => Side(u, p).outcome = lead
        BY <2>5
      <4> QED
        BY <4>1, <4>2, <4>3
    <3> QED
      BY <3>1, <3>2
  <2>7. \A t \in run : t \in Won(p)
    <3>1. ASSUME NEW t \in run
          PROVE  t \in Won(p)
      <4>1. t >= t /\ t \in C
        BY <2>3
      <4>2. Side(t, p).outcome = "win"
        BY <1>5, <4>1
      <4> QED
        BY <4>1, <4>2 DEF Won
    <3> QED
      BY <3>1
  <2>8. m >= 0 /\ m \in Won(p) /\ top \in Won(p)
    BY <2>3, <2>4, <2>5, <2>7
  <2>9. Longest(LongestWinRun(p), C, Won(p), 0)
    BY PlayerScans DEF Scan
  <2>10. Cardinality(run) <= best
    <3>1. Stretch(C, m, top) \subseteq Won(p)
      BY <2>6, <2>7
    <3>2. Cardinality(Stretch(C, m, top)) <= best
      BY <2>8, <2>9, <3>1 DEF Longest
    <3> QED
      BY <2>6, <3>2
  <2> QED
    BY <1>1, <1>5, <2>10
<1> QED
  BY <1>3, <1>4, <1>5

-----------------------------------------------------------------------------
(* The leader of a card. *)
LEMMA LeaderOf ==
    ASSUME NEW value, NEW record, NEW b \in Nat,
           \A p \in Entrants : value[p] # None => value[p] \in Nat /\ value[p] <= b,
           \A p \in Entrants : record[p].games_played \in Nat /\ record[p].games_played <= b
    PROVE  PickLeader(value, record) \in {None} \union {p \in Entrants : value[p] # None}
<1> DEFINE able == {p \in Entrants : value[p] # None}
<1>1. CASE able = {}
  BY <1>1 DEF PickLeader
<1>2. CASE able # {}
  <2> DEFINE V == {value[p] : p \in able}
             first == {p \in able : value[p] = Max(V)}
             G == {record[p].games_played : p \in first}
             second == {p \in first : record[p].games_played = Max(G)}
  <2>1. Max(V) \in V /\ \A y \in V : y <= Max(V)
    <3>1. V \subseteq Nat /\ V # {} /\ \A y \in V : y <= b
      BY <1>2
    <3> HIDE DEF V
    <3> QED
      BY <3>1, MaxOf
  <2>2. first # {}
    BY <2>1
  <2>3. Max(G) \in G /\ \A y \in G : y <= Max(G)
    <3>1. G \subseteq Nat /\ G # {} /\ \A y \in G : y <= b
      BY <2>2
    <3> HIDE DEF G
    <3> QED
      BY <3>1, MaxOf
  <2>4. second # {} /\ second \subseteq Nat
    BY <2>3, ConstantsAssumption
  <2>5. PICK p \in second : \A q \in second : p <= q
    <3> HIDE DEF second
    <3> QED
      BY <2>4, LeastOf
  <2>6. \A q \in able : value[q] \in Nat /\ q \in Nat /\ record[q].games_played \in Nat
    BY ConstantsAssumption
  <2>7. p \in able /\ value[p] = Max(V) /\ record[p].games_played = Max(G)
    OBVIOUS
  <2>8. ASSUME NEW q \in able \ {p}
        PROVE  Above(value, record, p, q)
    <3>1. value[q] <= value[p]
      BY <2>1, <2>7
    <3>2. value[q] = value[p] => record[q].games_played <= record[p].games_played
      BY <2>3, <2>7
    <3>3. value[q] = value[p] /\ record[q].games_played = record[p].games_played => p <= q
      BY <2>5, <2>7
    <3> HIDE DEF V, G, first, second
    <3> QED
      BY <2>6, <2>7, <3>1, <3>2, <3>3 DEF Above
  <2>9. \E r \in able : \A q \in able \ {r} : Above(value, record, r, q)
    BY <2>7, <2>8
  <2> HIDE DEF able
  <2>10. (CHOOSE r \in able : \A q \in able \ {r} : Above(value, record, r, q)) \in able
    BY <2>9
  <2> QED
    BY <1>2, <2>10 DEF PickLeader, able
<1> QED
  BY <1>1, <1>2

LEMMA RecordNumbers ==
    ASSUME LogIsBounded, NEW p
    PROVE  /\ Record(p).longest = LongestWinRun(p).best
           /\ Record(p).longest \in Nat /\ Record(p).longest <= Cardinality(DOMAIN log)
           /\ Record(p).games_played \in Nat /\ Record(p).games_played <= Cardinality(DOMAIN log)
<1>1. Record(p).longest = LongestWinRun(p).best /\ Record(p).games_played = Cardinality(Counted(p))
  BY DEF Record
<1>2. Cardinality(DOMAIN log) \in Nat
  BY CountedType, FS_CardinalityType
<1>3. Cardinality(Counted(p)) \in Nat /\ Cardinality(Counted(p)) <= Cardinality(DOMAIN log)
  BY CountedType, FS_Subset, FS_CardinalityType
<1> DEFINE run == LongestWinRun(p)
<1>4. run.best \in Nat /\ Delimited(run, Counted(p), Won(p), 0)
  BY PlayerScans DEF Scan, RunType
<1>5. run.best > 0 => run.best <= Cardinality(DOMAIN log)
  <2> SUFFICES ASSUME run.best > 0 PROVE run.best <= Cardinality(DOMAIN log)
    OBVIOUS
  <2> DEFINE S == Stretch(Counted(p), run.from, run.to)
  <2>1. Cardinality(S) = run.best
    BY <1>4 DEF Delimited
  <2>2. S \in SUBSET DOMAIN log
    BY CountedType DEF Stretch
  <2>3. Cardinality(S) <= Cardinality(DOMAIN log)
    BY <2>2, CountedType, FS_Subset
  <2> QED
    BY <2>1, <2>3
<1> QED
  BY <1>1, <1>2, <1>3, <1>4, <1>5

-----------------------------------------------------------------------------
(* The steps. *)
LEMMA InitIInv == Init => IInv
<1> SUFFICES ASSUME Init PROVE IInv
  OBVIOUS
<1>1. DOMAIN log = {} /\ request.pc = "idle"
  BY DEF Init, Idle
<1>2. LogIsBounded
  BY <1>1 DEF LogIsBounded
<1> QED
  BY <1>1, <1>2 DEF IInv, Steps, ValueIsAsOf, CardSpansItsValue

(* A game that is committed changes no other. *)
LEMMA CommitKeeps ==
    ASSUME NEW t \in Times, NEW g, Commit(t, g), NEW p
    PROVE  /\ DOMAIN log' = DOMAIN log \union {t} /\ t \notin DOMAIN log
           /\ \A u \in DOMAIN log : u \in Counted(p)' <=> u \in Counted(p)
           /\ \A u \in DOMAIN log : u \in Won(p)' <=> u \in Won(p)
           /\ Counted(p)' \in SUBSET DOMAIN log' /\ Won(p)' \in SUBSET Counted(p)'
<1>1. DOMAIN log' = DOMAIN log \union {t} /\ t \notin DOMAIN log
  BY DEF Commit
<1>2. \A u \in DOMAIN log : log'[u] = log[u]
  BY DEF Commit
<1>3. \A u \in DOMAIN log : u \in Counted(p)' <=> u \in Counted(p)
  BY <1>1, <1>2 DEF Counted, Settled, Played, Side
<1>4. \A u \in DOMAIN log : u \in Won(p)' <=> u \in Won(p)
  BY <1>1, <1>2, <1>3 DEF Won, Side
<1>5. Counted(p)' \in SUBSET DOMAIN log' /\ Won(p)' \in SUBSET Counted(p)'
  BY DEF Won, Counted, Settled, Played
<1> QED
  BY <1>1, <1>3, <1>4, <1>5

LEMMA CommitStep ==
    ASSUME IInv, NEW t \in Times, NEW g, Commit(t, g)
    PROVE  IInv'
<1>1. request' = request
  BY DEF Commit
<1>2. DOMAIN log' = DOMAIN log \union {t} /\ t \notin DOMAIN log
  BY CommitKeeps
<1>3. LogIsBounded'
  <2>1. DOMAIN log \subseteq Nat /\ t \in Nat /\ DOMAIN log \subseteq Times
    BY CountedType, ConstantsAssumption DEF IInv, LogIsBounded
  <2>2. PICK b \in DOMAIN log \union {0} : \A u \in DOMAIN log : u <= b
    BY DEF IInv, LogIsBounded
  <2>3. CASE t <= b
    BY <1>2, <2>1, <2>2, <2>3 DEF LogIsBounded
  <2>4. CASE ~(t <= b)
    <3>1. \A u \in DOMAIN log' : u <= t
      BY <1>2, <2>1, <2>2, <2>4
    <3> QED
      BY <1>2, <2>1, <3>1 DEF LogIsBounded
  <2> QED
    BY <2>3, <2>4
<1>4. request.pc # "idle" => request'.asOf \subseteq DOMAIN log'
  BY <1>1, <1>2 DEF IInv
<1>5. ASSUME NEW p \in Entrants, request.pc # "idle"
      PROVE  /\ Counted(p)' \cap request.asOf = Counted(p) \cap request.asOf
             /\ Won(p)' \cap request.asOf = Won(p) \cap request.asOf
             /\ Counted(p)' \subseteq request.asOf => Counted(p)' = Counted(p)
  <2>1. request.asOf \subseteq DOMAIN log
    BY <1>5 DEF IInv
  <2>2. Counted(p) \in SUBSET DOMAIN log /\ Won(p) \in SUBSET Counted(p)
    BY CountedType DEF IInv
  <2> QED
    BY <2>1, <2>2, CommitKeeps
<1>6. ValueIsAsOf'
  <2> SUFFICES ASSUME NEW p \in Entrants, request.pc \in {"climb", "dates"}, request.streak = p
               PROVE  LET run == LongestRun(Counted(p)' \cap request.asOf,
                                            Won(p)' \cap request.asOf)
                      IN  request.value = run.best /\ run.best > 0
    BY <1>1 DEF ValueIsAsOf
  <2> QED
    BY <1>5 DEF IInv, ValueIsAsOf
<1>7. CardSpansItsValue'
  <2> SUFFICES ASSUME NEW p \in Entrants, request.pc = "answered", request.streak = p,
                      Counted(p)' \subseteq request.asOf
               PROVE  request.value = Cardinality(Between(p, request.from, request.to)')
    BY <1>1 DEF CardSpansItsValue
  <2>1. Counted(p)' = Counted(p)
    BY <1>5
  <2>2. Between(p, request.from, request.to)' = Between(p, request.from, request.to)
    BY <1>1, <2>1 DEF Between
  <2> QED
    BY <2>1, <2>2 DEF IInv, CardSpansItsValue
<1> QED
  BY <1>1, <1>3, <1>4, <1>6, <1>7 DEF IInv

(* The value is the longest run of the leader when it is read. *)
LEMMA RecordsStep ==
    ASSUME IInv, ReadRecords
    PROVE  IInv'
<1> DEFINE record == [p \in Entrants |-> Record(p)]
           runs == [p \in Entrants |-> PositiveOrNone(record[p].longest)]
           leader == PickLeader(runs, record)
<1>1. /\ log' = log /\ request'.pc = "climb" /\ request'.asOf = DOMAIN log
      /\ request'.streak = leader
      /\ request'.value = IF leader = None THEN 0 ELSE runs[leader]
  BY DEF ReadRecords
<1>2. LogIsBounded /\ LogIsBounded'
  BY <1>1 DEF IInv, LogIsBounded
<1>3. leader \in {None} \union {p \in Entrants : runs[p] # None}
  <2> DEFINE b == Cardinality(DOMAIN log)
  <2>1. b \in Nat
    BY <1>2, CountedType, FS_CardinalityType
  <2>2. ASSUME NEW p \in Entrants
        PROVE  /\ record[p].games_played \in Nat /\ record[p].games_played <= b
               /\ runs[p] # None => runs[p] \in Nat /\ runs[p] <= b
    BY <1>2, RecordNumbers DEF PositiveOrNone
  <2> HIDE DEF record, runs, b
  <2>3. PickLeader(runs, record) \in {None} \union {p \in Entrants : runs[p] # None}
    BY <2>1, <2>2, LeaderOf
  <2> QED
    BY <2>3
<1>4. ASSUME NEW p \in Entrants, leader = p
      PROVE  request'.value = LongestWinRun(p).best /\ LongestWinRun(p).best > 0
  <2>1. p # None
    BY ConstantsAssumption
  <2>2. runs[p] # None
    BY <1>3, <1>4, <2>1
  <2>3. runs[p] = PositiveOrNone(LongestWinRun(p).best)
    BY <1>2, RecordNumbers
  <2>4. request'.value = runs[p]
    BY <1>1, <1>4, <2>1
  <2> HIDE DEF runs, leader
  <2> QED
    BY <2>2, <2>3, <2>4 DEF PositiveOrNone
<1>5. ASSUME NEW p \in Entrants
      PROVE  Counted(p)' \cap DOMAIN log = Counted(p) /\ Won(p)' \cap DOMAIN log = Won(p)
  <2>1. Counted(p)' = Counted(p) /\ Won(p)' = Won(p)
    BY <1>1 DEF Counted, Won, Settled, Played, Side
  <2>2. Counted(p) \in SUBSET DOMAIN log /\ Won(p) \in SUBSET Counted(p)
    BY <1>2, CountedType
  <2> QED
    BY <2>1, <2>2
<1> HIDE DEF leader
<1>6. ValueIsAsOf'
  BY <1>1, <1>4, <1>5 DEF ValueIsAsOf, LongestWinRun
<1>7. CardSpansItsValue'
  BY <1>1 DEF CardSpansItsValue
<1> QED
  BY <1>1, <1>2, <1>6, <1>7 DEF IInv, Steps

LEMMA ChangesStep ==
    ASSUME IInv, ReadChanges
    PROVE  IInv'
<1>1. /\ log' = log /\ request.pc = "climb" /\ request'.pc = "dates"
      /\ request'.asOf = request.asOf /\ request'.streak = request.streak
      /\ request'.value = request.value
  BY DEF ReadChanges
<1>2. LogIsBounded'
  BY <1>1 DEF IInv, LogIsBounded
<1>3. \A p \in Entrants : Counted(p)' = Counted(p) /\ Won(p)' = Won(p)
  BY <1>1 DEF Counted, Won, Settled, Played, Side
<1>4. ValueIsAsOf'
  BY <1>1, <1>3 DEF IInv, ValueIsAsOf
<1>5. CardSpansItsValue'
  BY <1>1 DEF CardSpansItsValue
<1> QED
  BY <1>1, <1>2, <1>4, <1>5 DEF IInv, Steps

(* If no game of the leader has come since, the dates are of that run. *)
LEMMA DatesStep ==
    ASSUME IInv, ReadDates
    PROVE  IInv'
<1>1. /\ log' = log /\ request.pc = "dates" /\ request'.pc = "answered"
      /\ request'.asOf = request.asOf /\ request'.streak = request.streak
      /\ request'.value = request.value
      /\ request.streak # None =>
            /\ request'.from = LongestWinRun(request.streak).from
            /\ request'.to = LongestWinRun(request.streak).to
  BY DEF ReadDates
<1>2. LogIsBounded /\ LogIsBounded'
  BY <1>1 DEF IInv, LogIsBounded
<1>3. ValueIsAsOf'
  BY <1>1 DEF ValueIsAsOf
<1>4. ASSUME NEW p \in Entrants, request.streak = p, Counted(p) \subseteq request.asOf
      PROVE  request'.value = Cardinality(Between(p, request'.from, request'.to))
  <2> DEFINE run == LongestWinRun(p)
  <2>1. p # None
    BY ConstantsAssumption
  <2>2. Won(p) \in SUBSET Counted(p)
    BY <1>2, CountedType
  <2>3. Counted(p) \cap request.asOf = Counted(p) /\ Won(p) \cap request.asOf = Won(p)
    BY <1>4, <2>2
  <2>4. request.value = run.best /\ run.best > 0
    BY <1>1, <1>4, <2>3 DEF IInv, ValueIsAsOf, LongestWinRun
  <2>5. Delimited(run, Counted(p), Won(p), 0)
    BY <1>2, PlayerScans DEF Scan
  <2>6. request'.from = run.from /\ request'.to = run.to
    BY <1>1, <1>4, <2>1
  <2>7. Between(p, run.from, run.to) = Stretch(Counted(p), run.from, run.to)
    BY DEF Between, Stretch
  <2> HIDE DEF run
  <2> QED
    BY <1>1, <2>4, <2>5, <2>6, <2>7 DEF Delimited
<1>5. ASSUME NEW p \in Entrants
      PROVE  /\ Counted(p)' = Counted(p)
             /\ Between(p, request.from, request.to)' = Between(p, request'.from, request'.to)
  BY <1>1 DEF Between, Counted, Settled, Played, Side
<1>6. CardSpansItsValue'
  BY <1>1, <1>4, <1>5 DEF CardSpansItsValue
<1> QED
  BY <1>1, <1>2, <1>3, <1>6 DEF IInv, Steps

LEMMA NextIInv == IInv /\ [Next]_vars => IInv'
<1> SUFFICES ASSUME IInv, [Next]_vars PROVE IInv'
  OBVIOUS
<1>1. ASSUME NEW t \in Times, NEW g \in Plays[t], Commit(t, g)
      PROVE  IInv'
  BY <1>1, CommitStep
<1>2. CASE ReadRecords
  BY <1>2, RecordsStep
<1>3. CASE ReadChanges
  BY <1>3, ChangesStep
<1>4. CASE ReadDates
  BY <1>4, DatesStep
<1>5. CASE Answer
  <2>1. log' = log /\ request'.pc = "idle"
    BY <1>5 DEF Answer, Idle
  <2> QED
    BY <2>1 DEF IInv, LogIsBounded, Steps, ValueIsAsOf, CardSpansItsValue
<1>6. CASE UNCHANGED vars
  <2>1. log' = log /\ request' = request
    BY <1>6 DEF vars
  <2> QED
    BY <2>1 DEF IInv, LogIsBounded, ValueIsAsOf, CardSpansItsValue, Between, Counted, Won,
                Settled, Played, Side
<1> QED
  BY <1>1, <1>2, <1>3, <1>4, <1>5, <1>6 DEF Next

(* In every reachable state the log is bounded, and until the dates of a   *)
(* card are read its value is the leader's longest run as of the first     *)
(* query.                                                                  *)
THEOREM Invariance == Spec => []IInv
<1> QED
  BY InitIInv, NextIInv, PTL DEF Spec

(* The longest win streak is what it is called, for every log, window and  *)
(* player (_longest_win_run, _tournament_record_by_profile).               *)
THEOREM RunsAreAlwaysLongest == Spec => []RunsAreLongest
<1>1. IInv => RunsAreLongest
  <2> SUFFICES ASSUME IInv, NEW p \in Entrants
               PROVE  LET run == LongestWinRun(p)
                      IN  /\ run.best = Max({0} \union RunLengths(p, Won(p)))
                          /\ run.best > 0 =>
                                 /\ {run.from, run.to} \subseteq Won(p)
                                 /\ Between(p, run.from, run.to) \subseteq Won(p)
                                 /\ Cardinality(Between(p, run.from, run.to)) = run.best
                                 /\ run.best \notin RunLengths(p, {t \in Won(p) : t > run.from})
                          /\ Streak(p) <= run.best
    BY DEF RunsAreLongest
  <2>1. LogIsBounded
    BY DEF IInv
  <2> QED
    BY <2>1, RunIsLongest, StreakIsARun
<1> QED
  BY <1>1, Invariance, PTL

(* The number of wins on the streak card is the number of games between    *)
(* its two dates, unless a game of its leader is committed between the two *)
(* queries (tournaments.py, get_summary and _longest_win_streak_run).      *)
THEOREM CardAlwaysSpansItsValue == Spec => []CardSpansItsValue
<1>1. IInv => CardSpansItsValue
  BY DEF IInv
<1> QED
  BY <1>1, Invariance, PTL

-----------------------------------------------------------------------------
(* Sets of two at least. *)
LEMMA TwoOf ==
    ASSUME NEW S, Cardinality(S) >= 2
    PROVE  \E x, y \in S : x # y
<1>1. S # {}
  BY FS_EmptySet
<1>2. PICK x \in S : TRUE
  BY <1>1
<1>3. S # {x}
  BY FS_Singleton
<1> QED
  BY <1>2, <1>3

LEMMA AtLeastTwo ==
    ASSUME NEW S, IsFiniteSet(S), NEW x \in S, NEW y \in S, x # y
    PROVE  Cardinality(S) >= 2
<1>1. IsFiniteSet({x}) /\ Cardinality({x}) = 1
  BY FS_Singleton
<1>2. Cardinality({x} \union {y}) = 2
  BY <1>1, FS_AddElement
<1>3. {x} \union {y} \in SUBSET S
  OBVIOUS
<1>4. Cardinality({x} \union {y}) <= Cardinality(S)
  BY <1>3, FS_Subset
<1>5. Cardinality(S) \in Nat
  BY FS_CardinalityType
<1> QED
  BY <1>2, <1>4, <1>5

(* Two teams of entrants in a game are two entrants, each of whom opposes  *)
(* the other.                                                              *)
LEMMA EntrantsMeet == HeadToHeadIsMutual
<1> SUFFICES ASSUME NEW t \in HeadToHead
             PROVE  \E p, q \in Entrants \cap DOMAIN log[t].sides :
                        p \in Opponents(t, q) /\ q \in Opponents(t, p)
  BY DEF HeadToHeadIsMutual
<1> DEFINE us == Entrants \cap DOMAIN log[t].sides
<1>1. Cardinality({Side(t, p).team : p \in us} \ {None}) >= 2
  BY DEF HeadToHead
<1>2. PICK a, b \in {Side(t, p).team : p \in us} \ {None} : a # b
  BY <1>1, TwoOf
<1>3. PICK p \in us, q \in us : a = Side(t, p).team /\ b = Side(t, q).team
  BY <1>2
<1>4. p # q
  BY <1>2, <1>3
<1> QED
  BY <1>2, <1>3, <1>4 DEF Opponents

LEMMA SeenInTheFeed == OpponentsMeet
<1> SUFFICES ASSUME NEW p \in Entrants, NEW t \in Counted(p),
                    NEW q \in Opponents(t, p) \cap Entrants, log[t].done,
                    None \notin {Side(t, p).team, Side(t, q).team}
             PROVE  t \in HeadToHead
  BY DEF OpponentsMeet
<1> DEFINE us == Entrants \cap DOMAIN log[t].sides
           teams == {Side(t, r).team : r \in us}
<1>1. t \in DOMAIN log /\ log[t].ours /\ InWindow(t) /\ p \in us
  BY DEF Counted, Settled, Played
<1>2. q \in us /\ q # p /\ Side(t, q).team # Side(t, p).team
  BY DEF Opponents
<1>3. IsFiniteSet(us)
  <2>1. us \in SUBSET Entrants /\ IsFiniteSet(Entrants)
    BY ConstantsAssumption
  <2> QED
    BY <2>1, FS_Subset
<1>4. IsFiniteSet(teams)
  <2> DEFINE team == [r \in us |-> Side(t, r).team]
  <2>1. team \in Surjection(us, teams)
    BY DEF Surjection
  <2> HIDE DEF us, teams, team
  <2> QED
    BY <1>3, <2>1, FS_Surjection
<1>5. IsFiniteSet(teams \ {None})
  BY <1>4, FS_RemoveElement
<1>6. Cardinality(us) >= 2
  BY <1>1, <1>2, <1>3, AtLeastTwo
<1>7. Cardinality(teams \ {None}) >= 2
  <2>1. Side(t, p).team \in teams \ {None} /\ Side(t, q).team \in teams \ {None}
    BY <1>1, <1>2
  <2> HIDE DEF teams
  <2> QED
    BY <1>2, <1>5, <2>1, AtLeastTwo
<1> QED
  BY <1>1, <1>6, <1>7 DEF HeadToHead

-----------------------------------------------------------------------------
(* Lists of games. *)
LEMMA CappedOf ==
    ASSUME NEW n \in Nat, NEW S, NEW s \in [1..n -> S]
    PROVE  LET k == IF n < Limit THEN n ELSE Limit
           IN  /\ k \in 0..n /\ 1..k \subseteq 1..n
               /\ Capped(s) = [i \in 1..k |-> s[i]]
<1> DEFINE k == IF n < Limit THEN n ELSE Limit
<1>1. k \in 0..n /\ 1..k \subseteq 1..n
  BY ConstantsAssumption
<1>2. s \in Seq(S) /\ Len(s) = n
  OBVIOUS
<1>3. Capped(s) = SubSeq(s, 1, k)
  BY <1>2 DEF Capped
<1>4. SubSeq(s, 1, k) = [i \in 1..k |-> s[i]]
  BY <1>1, <1>2
<1> QED
  BY <1>1, <1>3, <1>4

LEMMA ListType ==
    ASSUME NEW S
    PROVE  /\ DOMAIN NewestFirst(S) = 1..Cardinality(S)
           /\ NewestFirst(S) = [i \in 1..Cardinality(S) |-> NewestFirst(S)[i]]
<1> DEFINE at(i) == CHOOSE t \in S : Cardinality({u \in S : u > t}) = i - 1
<1>1. NewestFirst(S) = [i \in 1..Cardinality(S) |-> at(i)]
  BY DEF NewestFirst
<1> HIDE DEF at
<1> QED
  BY <1>1

LEMMA SameForm ==
    ASSUME LogIsBounded
    PROVE  FormsAgree
<1> SUFFICES ASSUME NEW p \in Entrants, Settled(p) = Counted(p)
             PROVE  RecentResults(p) = [i \in DOMAIN RecentMatchups(p) |-> RecentMatchups(p)[i].outcome]
  BY DEF FormsAgree
<1> DEFINE n == Cardinality(Counted(p))
           list == NewestFirst(Counted(p))
           forms == [i \in DOMAIN list |-> Side(list[i], p).outcome]
           k == IF n < Limit THEN n ELSE Limit
<1>1. n \in Nat
  <2>1. IsFiniteSet(Counted(p))
    BY CountedType
  <2> QED
    BY <2>1, FS_CardinalityType
<1>2. DOMAIN list = 1..n /\ list = [i \in 1..n |-> list[i]]
  BY ListType
<1>3. RecentResults(p) = Capped(forms)
  BY DEF RecentResults
<1> HIDE DEF n, list
<1>4. Capped(list) = [i \in 1..k |-> list[i]] /\ 1..k \subseteq 1..n
  <2>1. list \in [1..n -> {list[i] : i \in 1..n}]
    BY <1>2
  <2> QED
    BY <1>1, <2>1, CappedOf
<1>5. Capped(forms) = [i \in 1..k |-> forms[i]]
  <2>1. forms \in [1..n -> {forms[i] : i \in 1..n}]
    BY <1>2
  <2> HIDE DEF forms
  <2> QED
    BY <1>1, <2>1, CappedOf
<1>6. RecentMatchups(p) = [i \in 1..k |-> Matchup(list[i], p)]
  BY <1>4 DEF RecentMatchups, list
<1>7. \A t : Matchup(t, p).outcome = Side(t, p).outcome
  BY DEF Matchup
<1> HIDE DEF k
<1>8. [i \in DOMAIN RecentMatchups(p) |-> RecentMatchups(p)[i].outcome] = [i \in 1..k |-> Side(list[i], p).outcome]
  BY <1>6, <1>7
<1>9. Capped(forms) = [i \in 1..k |-> Side(list[i], p).outcome]
  BY <1>2, <1>4, <1>5
<1> QED
  BY <1>3, <1>8, <1>9

(* The first and the last of a list, oldest first. *)
LEMMA EndsOfList ==
    ASSUME NEW S \in SUBSET Nat, S # {}, NEW b \in Nat, \A y \in S : y <= b
    PROVE  /\ Cardinality(S) \in Nat \ {0}
           /\ OldestFirst(S)[1] = Min(S) /\ Min(S) \in S
           /\ OldestFirst(S)[Cardinality(S)] = Max(S) /\ Max(S) \in S
<1> DEFINE n == Cardinality(S)
           below(t) == {u \in S : u < t}
           at(i) == CHOOSE t \in S : Cardinality(below(t)) = i - 1
<1>1. IsFiniteSet(S)
  BY FS_BoundedSetOfNaturals
<1>2. n \in Nat \ {0}
  BY <1>1, FS_CardinalityType, FS_EmptySet
<1>3. OldestFirst(S)[1] = at(1) /\ OldestFirst(S)[n] = at(n)
  <2>1. OldestFirst(S) = [i \in 1..n |-> at(i)]
    BY DEF OldestFirst
  <2> HIDE DEF at, n
  <2> QED
    BY <1>2, <2>1
<1>4. ASSUME NEW t \in S
      PROVE  /\ IsFiniteSet(below(t)) /\ Cardinality(below(t)) \in Nat
             /\ below(t) \in SUBSET (S \ {t})
             /\ IsFiniteSet(S \ {t}) /\ Cardinality(S \ {t}) = n - 1
  <2>1. below(t) \in SUBSET S /\ below(t) \in SUBSET (S \ {t})
    OBVIOUS
  <2>2. IsFiniteSet(below(t))
    BY <1>1, <2>1, FS_Subset
  <2>3. IsFiniteSet(S \ {t}) /\ Cardinality(S \ {t}) = n - 1
    BY <1>1, FS_RemoveElement
  <2> HIDE DEF below
  <2> QED
    BY <2>1, <2>2, <2>3, FS_CardinalityType
<1>5. PICK lo \in S : lo = Min(S) /\ lo \in Nat /\ \A y \in S : y \in Nat /\ lo <= y
  <2>1. \E x \in S : \A y \in S : x <= y
    BY LeastOf
  <2> QED
    BY <2>1 DEF Min
<1>6. PICK hi \in S : hi = Max(S) /\ hi \in Nat /\ \A y \in S : y \in Nat /\ y <= hi
  BY MaxOf
<1>7. at(1) = lo
  <2>1. ASSUME NEW t \in S
        PROVE  Cardinality(below(t)) = 1 - 1 <=> below(t) = {}
    <3>1. IsFiniteSet(below(t))
      BY <1>4
    <3> HIDE DEF below
    <3>2. Cardinality(below(t)) = 0 <=> below(t) = {}
      BY <3>1, FS_EmptySet
    <3> QED
      BY <3>2
  <2>2. below(lo) = {}
    <3>1. \A u \in S : ~(u < lo)
      BY <1>5
    <3> QED
      BY <3>1
  <2>3. Cardinality(below(lo)) = 1 - 1
    BY <2>1, <2>2
  <2>4. PICK x \in S : x = at(1) /\ Cardinality(below(x)) = 1 - 1
    <3> HIDE DEF below
    <3> QED
      BY <2>3
  <2>5. below(x) = {}
    BY <2>1, <2>4
  <2>6. ~(lo < x)
    BY <2>5
  <2> QED
    BY <1>5, <2>4, <2>6
<1>8. at(n) = hi
  <2>1. ASSUME NEW t \in S
        PROVE  Cardinality(below(t)) = n - 1 <=> below(t) = S \ {t}
    <3> HIDE DEF below, n
    <3> QED
      BY <1>4, FS_Subset
  <2>2. below(hi) = S \ {hi}
    <3>1. \A u \in S : u # hi <=> u < hi
      BY <1>6
    <3> QED
      BY <3>1
  <2>3. Cardinality(below(hi)) = n - 1
    BY <2>1, <2>2
  <2>4. PICK x \in S : x = at(n) /\ Cardinality(below(x)) = n - 1
    <3> HIDE DEF below, n
    <3> QED
      BY <2>3
  <2>5. below(x) = S \ {x}
    BY <2>1, <2>4
  <2>6. hi # x => hi < x
    BY <2>5
  <2>7. x <= hi /\ x \in Nat
    BY <1>6
  <2>8. hi = x
    BY <1>6, <2>6, <2>7
  <2> HIDE DEF at
  <2> QED
    BY <2>4, <2>8
<1> QED
  BY <1>2, <1>3, <1>5, <1>6, <1>7, <1>8

(* What the climber card says is the difference of the chart's ends. *)
LEMMA CardIsCharted ==
    ASSUME LogIsBounded
    PROVE  ClimbsAsCharted
<1> SUFFICES ASSUME NEW p \in Entrants,
                    \A t \in Played(p) : log[t].done <=> Side(t, p).outcome # None
             PROVE  NetRatingChange(p) = IF Len(Progression(p)) < 2 THEN None
                                         ELSE Progression(p)[Len(Progression(p))] - Progression(p)[1]
  BY DEF ClimbsAsCharted
<1> DEFINE R == {t \in Counted(p) : Side(t, p).rating # None}
           n == Cardinality(R)
           chart == [i \in 1..n |-> Side(OldestFirst(R)[i], p).rating]
<1>1. R = {t \in Played(p) : log[t].done /\ InWindow(t) /\ Side(t, p).rating # None}
  BY DEF Counted, Settled
<1>2. Progression(p) = chart
  BY <1>1 DEF Progression
<1>3. NetRatingChange(p) = IF n < 2 THEN None ELSE Side(Max(R), p).rating - Side(Min(R), p).rating
  BY DEF NetRatingChange
<1>4. R \in SUBSET Nat /\ IsFiniteSet(R) /\ n \in Nat
  <2>1. R \in SUBSET Counted(p) /\ Counted(p) \in SUBSET Nat /\ IsFiniteSet(Counted(p))
    BY CountedType
  <2>2. IsFiniteSet(R)
    BY <2>1, FS_Subset
  <2> HIDE DEF R
  <2> QED
    BY <2>1, <2>2, FS_CardinalityType
<1>5. PICK b \in Nat : \A t \in R : t <= b
  <2>1. PICK b \in Nat : \A t \in DOMAIN log : t <= b
    BY CountedType
  <2>2. R \subseteq DOMAIN log
    BY CountedType
  <2> QED
    BY <2>1, <2>2
<1> HIDE DEF R
<1>6. Len(chart) = n
  BY <1>4
<1>7. CASE n < 2
  BY <1>2, <1>3, <1>6, <1>7
<1>8. CASE ~(n < 2)
  <2>1. R # {}
    BY <1>8, FS_EmptySet
  <2>2. OldestFirst(R)[1] = Min(R) /\ OldestFirst(R)[n] = Max(R)
    BY <1>4, <1>5, <2>1, EndsOfList
  <2> HIDE DEF n
  <2>3. 1 \in 1..n /\ n \in 1..n
    BY <1>4, <1>8
  <2>4. chart[1] = Side(Min(R), p).rating /\ chart[n] = Side(Max(R), p).rating
    BY <2>2, <2>3
  <2> HIDE DEF chart
  <2> QED
    BY <1>2, <1>3, <1>6, <1>8, <2>4
<1> QED
  BY <1>7, <1>8

-----------------------------------------------------------------------------
(* The sum over the players of a count of games is the count of the pairs  *)
(* of a game and its player.                                               *)
Summed(f, S, n, sum) ==
    [p \in 0..(n + 1) |->
        IF p = n + 1 THEN 0
        ELSE IF p \in S THEN sum[p + 1] + f[p] ELSE sum[p + 1]]

LEMMA SumIsDefined ==
    ASSUME NEW f, NEW S, NEW n \in Nat
    PROVE  \E sum : sum = Summed(f, S, n, sum)
<1> DEFINE Body(h, p) == IF p = n + 1 THEN 0
                         ELSE IF p \in S THEN h[p + 1] + f[p] ELSE h[p + 1]
           From(m, h) == h = [p \in m..(n + 1) |-> Body(h, p)]
           Stuck == {k \in 0..(n + 1) : ~\E h : From(n + 1 - k, h)}
<1>1. CASE Stuck = {}
  <2>1. 0 = n + 1 - (n + 1) /\ n + 1 \in 0..(n + 1)
    OBVIOUS
  <2>2. \E h : From(n + 1 - (n + 1), h)
    BY <1>1, <2>1
  <2>3. PICK h : From(0, h)
    BY <2>1, <2>2
  <2> QED
    BY <2>3 DEF Summed
<1>2. CASE Stuck # {}
  <2>1. Stuck \subseteq Nat
    OBVIOUS
  <2>2. PICK k \in Stuck : \A j \in Stuck : k <= j
    <3> HIDE DEF Stuck
    <3> QED
      BY <1>2, <2>1, LeastOf
  <2>3. k \in 0..(n + 1) /\ ~\E h : From(n + 1 - k, h)
    OBVIOUS
  <2>4. CASE k = 0
    <3> DEFINE g == [p \in (n + 1)..(n + 1) |-> 0]
    <3>1. \A p \in (n + 1)..(n + 1) : p = n + 1
      OBVIOUS
    <3>2. g = [p \in (n + 1)..(n + 1) |-> Body(g, p)]
      BY <3>1
    <3>3. n + 1 - k = n + 1
      BY <2>4
    <3> QED
      BY <2>3, <3>2, <3>3
  <2>5. CASE k # 0
    <3> DEFINE m == n + 1 - k
    <3>1. /\ k - 1 \in 0..(n + 1) /\ ~(k <= k - 1) /\ n + 1 - (k - 1) = m + 1
          /\ m \in 0..n /\ m # n + 1 /\ m + 1 \in (m + 1)..(n + 1)
      BY <2>3, <2>5
    <3>2. \E h : From(n + 1 - (k - 1), h)
      BY <2>2, <3>1
    <3>3. PICK h : h = [p \in (m + 1)..(n + 1) |-> Body(h, p)]
      BY <3>1, <3>2
    <3> DEFINE g == [p \in m..(n + 1) |-> IF p = m THEN Body(h, p) ELSE h[p]]
    <3>4. \A p \in m..(n + 1) : p # n + 1 => g[p + 1] = h[p + 1]
      BY <3>1
    <3>5. ASSUME NEW p \in m..(n + 1)
          PROVE  Body(h, p) = Body(g, p)
      BY <3>4
    <3>6. ASSUME NEW p \in m..(n + 1)
          PROVE  g[p] = Body(h, p)
      <4>1. CASE p = m
        BY <4>1
      <4>2. CASE p # m
        <5>1. p \in (m + 1)..(n + 1)
          BY <3>1, <4>2
        <5>2. h[p] = Body(h, p)
          BY <3>3, <5>1
        <5> QED
          BY <4>2, <5>2
      <4> QED
        BY <4>1, <4>2
    <3>7. g = [p \in m..(n + 1) |-> g[p]]
      OBVIOUS
    <3> HIDE DEF g, Body
    <3>8. g = [p \in m..(n + 1) |-> Body(g, p)]
      BY <3>5, <3>6, <3>7
    <3> QED
      BY <2>3, <3>8
  <2> QED
    BY <2>4, <2>5
<1> QED
  BY <1>1, <1>2

Pairs(G, S, n) == {k \in Nat \X S : k[2] >= n /\ k[1] \in G[k[2]]}

LEMMA GamesOfOne ==
    ASSUME NEW G \in SUBSET Nat, IsFiniteSet(G), NEW S, NEW p \in S,
           NEW one, one = {k \in Nat \X S : k[2] = p /\ k[1] \in G}
    PROVE  IsFiniteSet(one) /\ Cardinality(one) = Cardinality(G)
<1> DEFINE pair == [t \in G |-> <<t, p>>]
<1>1. pair \in [G -> one]
  OBVIOUS
<1>2. \A s, t \in G : pair[s] = pair[t] => s = t
  OBVIOUS
<1>3. \A k \in one : \E t \in G : pair[t] = k
  OBVIOUS
<1> HIDE DEF pair
<1>4. pair \in Bijection(G, one)
  BY <1>1, <1>2, <1>3, Fun_IsBij
<1>5. ExistsBijection(G, one)
  BY <1>4 DEF ExistsBijection
<1>6. IsFiniteSet(one) /\ Cardinality(one) = Cardinality(G)
  BY <1>5, FS_Bijection
<1> QED
  BY <1>6

LEMMA OneMore ==
    ASSUME NEW S \in SUBSET Nat, NEW G, \A p \in S : G[p] \in SUBSET Nat /\ IsFiniteSet(G[p]),
           NEW p \in Nat, IsFiniteSet(Pairs(G, S, p + 1))
    PROVE  /\ IsFiniteSet(Pairs(G, S, p))
           /\ Cardinality(Pairs(G, S, p + 1)) \in Nat
           /\ p \notin S => Cardinality(Pairs(G, S, p)) = Cardinality(Pairs(G, S, p + 1))
           /\ p \in S => Cardinality(Pairs(G, S, p))
                           = Cardinality(Pairs(G, S, p + 1)) + Cardinality(G[p])
<1>1. Cardinality(Pairs(G, S, p + 1)) \in Nat
  BY FS_CardinalityType
<1>2. \A q \in S : q \in Nat /\ (q >= p <=> q = p \/ q >= p + 1) /\ ~(q = p /\ q >= p + 1)
  OBVIOUS
<1>3. CASE p \notin S
  <2>1. Pairs(G, S, p) = Pairs(G, S, p + 1)
    BY <1>2, <1>3 DEF Pairs
  <2> QED
    BY <1>1, <1>3, <2>1
<1>4. CASE p \in S
  <2> DEFINE one == {k \in Nat \X S : k[2] = p /\ k[1] \in G[p]}
             rest == Pairs(G, S, p + 1)
  <2>1. IsFiniteSet(one) /\ Cardinality(one) = Cardinality(G[p])
    <3>1. G[p] \in SUBSET Nat /\ IsFiniteSet(G[p])
      BY <1>4
    <3>2. one = {k \in Nat \X S : k[2] = p /\ k[1] \in G[p]}
      OBVIOUS
    <3> HIDE DEF one
    <3> QED
      BY <1>4, <3>1, <3>2, GamesOfOne
  <2>2. Cardinality(one) \in Nat
    BY <2>1, FS_CardinalityType
  <2>3. Pairs(G, S, p) = rest \union one /\ rest \cap one = {}
    BY <1>2 DEF Pairs
  <2>4. IsFiniteSet(rest)
    OBVIOUS
  <2> HIDE DEF one, rest
  <2>5. /\ IsFiniteSet(rest \union one)
        /\ Cardinality(rest \union one) = Cardinality(rest) + Cardinality(one) - Cardinality({})
    BY <2>1, <2>3, <2>4, FS_Union
  <2>6. Cardinality(rest \union one) = Cardinality(rest) + Cardinality(one)
    BY <1>1, <2>2, <2>5, FS_EmptySet DEF rest
  <2> QED
    BY <1>1, <1>4, <2>1, <2>3, <2>5, <2>6 DEF rest
<1> QED
  BY <1>3, <1>4

LEMMA TotalCounts ==
    ASSUME NEW S \in SUBSET Nat, NEW b \in Nat, \A p \in S : p <= b,
           NEW G, \A p \in S : G[p] \in SUBSET Nat /\ IsFiniteSet(G[p]),
           NEW f, \A p \in S : f[p] = Cardinality(G[p])
    PROVE  Total(f, S) = Cardinality(Pairs(G, S, 0))
<1>1. CASE S = {}
  <2>1. Pairs(G, S, 0) = {}
    BY <1>1 DEF Pairs
  <2> QED
    BY <1>1, <2>1, FS_EmptySet DEF Total
<1>2. CASE S # {}
  <2> DEFINE n == Max(S)
             sum == CHOOSE g : g = Summed(f, S, n, g)
             Correct(p) == /\ IsFiniteSet(Pairs(G, S, p))
                            /\ sum[p] = Cardinality(Pairs(G, S, p))
  <2>1. n \in S /\ n \in Nat /\ \A p \in S : p <= n
    BY <1>2, MaxOf
  <2>2. Total(f, S) = sum[0]
    BY <1>2 DEF Total, Summed
  <2>3. sum = Summed(f, S, n, sum)
    BY <2>1, SumIsDefined
  <2> HIDE DEF sum, n
  <2>4. sum[n + 1] = 0
    BY <2>1, <2>3 DEF Summed
  <2>5. ASSUME NEW p \in 0..n
        PROVE  sum[p] = IF p \in S THEN sum[p + 1] + f[p] ELSE sum[p + 1]
    BY <2>1, <2>3 DEF Summed
  <2> DEFINE Wrong == {k \in 0..(n + 1) : ~Correct(n + 1 - k)}
  <2>6. Wrong = {}
    <3> SUFFICES ASSUME Wrong # {} PROVE FALSE
      OBVIOUS
    <3>1. Wrong \subseteq Nat
      BY <2>1
    <3>2. PICK k \in Wrong : \A j \in Wrong : k <= j
      <4> HIDE DEF Wrong
      <4> QED
        BY <3>1, LeastOf
    <3>3. k \in 0..(n + 1) /\ ~Correct(n + 1 - k)
      OBVIOUS
    <3>4. k # 0
      <4>1. Pairs(G, S, n + 1) = {}
        <5>1. \A p \in S : ~(p >= n + 1)
          BY <2>1
        <5> QED
          BY <5>1 DEF Pairs
      <4>2. Correct(n + 1)
        BY <2>4, <4>1, FS_EmptySet
      <4>3. n + 1 - 0 = n + 1
        BY <2>1
      <4> HIDE DEF Correct
      <4> QED
        BY <3>3, <4>2, <4>3
    <3> DEFINE p == n + 1 - k
    <3>5. /\ k - 1 \in 0..(n + 1) /\ ~(k <= k - 1) /\ n + 1 - (k - 1) = p + 1
          /\ p \in 0..n /\ p \in Nat
      BY <2>1, <3>3, <3>4
    <3>6. Correct(p + 1)
      <4> HIDE DEF Correct
      <4> QED
        BY <3>2, <3>5
    <3>7. ~Correct(p)
      BY <3>3
    <3> HIDE DEF p
    <3>8. Correct(p)
      BY <2>5, <3>5, <3>6, OneMore
    <3> QED
      BY <3>7, <3>8
  <2>7. n + 1 \in 0..(n + 1) /\ n + 1 - (n + 1) = 0
    BY <2>1
  <2>8. Correct(0)
    <3> HIDE DEF Correct
    <3> QED
      BY <2>6, <2>7
  <2> QED
    BY <2>2, <2>8
<1> QED
  BY <1>1, <1>2

(* The picks and wins of a civilization, merged, are those of each player. *)
LEMMA CountsAreMerged ==
    ASSUME LogIsBounded
    PROVE  CountsAddUp
<1> SUFFICES ASSUME NEW S \in SUBSET Entrants
             PROVE  LET known == {k \in (DOMAIN log) \X S :
                                    k[1] \in Counted(k[2]) /\ Side(k[1], k[2]).civ # Unknown}
                        on(c) == {k \in known : Side(k[1], k[2]).civ = c}
                    IN  /\ DOMAIN Merged(S) = {Side(k[1], k[2]).civ : k \in known}
                        /\ \A c \in DOMAIN Merged(S) :
                               /\ Merged(S)[c].picks = Cardinality(on(c))
                               /\ Merged(S)[c].wins
                                    = Cardinality({k \in on(c) : k[1] \in Won(k[2])})
  BY DEF CountsAddUp
<1> DEFINE known == {k \in (DOMAIN log) \X S :
                        k[1] \in Counted(k[2]) /\ Side(k[1], k[2]).civ # Unknown}
           on(c) == {k \in known : Side(k[1], k[2]).civ = c}
           games(c, p) == {t \in Counted(p) : Side(t, p).civ = c}
           with(c) == {p \in S : c \in DOMAIN CivCounts(p)}
           Civs(p) == {Side(t, p).civ : t \in Counted(p)} \ {Unknown}
<1>1. \A p : /\ DOMAIN CivCounts(p) = Civs(p)
             /\ \A c \in Civs(p) : /\ CivCounts(p)[c].picks = Cardinality(games(c, p))
                                   /\ CivCounts(p)[c].wins = Cardinality(games(c, p) \cap Won(p))
  BY DEF CivCounts
<1>2. /\ DOMAIN Merged(S) = UNION {DOMAIN CivCounts(p) : p \in S}
      /\ \A c \in DOMAIN Merged(S) :
             /\ Merged(S)[c].picks = Total([p \in with(c) |-> CivCounts(p)[c].picks], with(c))
             /\ Merged(S)[c].wins = Total([p \in with(c) |-> CivCounts(p)[c].wins], with(c))
  BY DEF Merged
<1>3. \A p \in S : Counted(p) \in SUBSET Nat /\ IsFiniteSet(Counted(p))
                   /\ Counted(p) \subseteq DOMAIN log
  BY CountedType
<1>4. DOMAIN log \subseteq Nat
  BY CountedType
<1>5. DOMAIN Merged(S) = {Side(k[1], k[2]).civ : k \in known}
  <2>1. ASSUME NEW c
        PROVE  c \in DOMAIN Merged(S) <=> \E p \in S : c \in Civs(p)
    <3>1. c \in DOMAIN Merged(S) <=> \E p \in S : c \in DOMAIN CivCounts(p)
      BY <1>2
    <3> HIDE DEF Civs
    <3> QED
      BY <1>1, <3>1
  <2>2. ASSUME NEW c, NEW p \in S, c \in Civs(p)
        PROVE  \E k \in known : c = Side(k[1], k[2]).civ
    <3>1. PICK t \in Counted(p) : c = Side(t, p).civ /\ c # Unknown
      BY <2>2
    <3>2. <<t, p>> \in known
      BY <1>3, <3>1
    <3> QED
      BY <3>1, <3>2
  <2>3. ASSUME NEW k \in known
        PROVE  k[2] \in S /\ Side(k[1], k[2]).civ \in Civs(k[2])
    OBVIOUS
  <2> HIDE DEF known, Civs
  <2> QED
    BY <2>1, <2>2, <2>3
<1>6. PICK b \in Nat : \A p \in S : p \in Nat /\ p <= b
  <2>1. S \in SUBSET Nat /\ S \in SUBSET Entrants /\ IsFiniteSet(Entrants)
    BY ConstantsAssumption
  <2>2. IsFiniteSet(S)
    BY <2>1, FS_Subset
  <2> QED
    BY <2>1, <2>2, FiniteIsBounded
<1>7. ASSUME NEW c \in DOMAIN Merged(S)
      PROVE  /\ Merged(S)[c].picks = Cardinality(on(c))
             /\ Merged(S)[c].wins = Cardinality({k \in on(c) : k[1] \in Won(k[2])})
  <2> DEFINE P == with(c)
             G == [p \in P |-> games(c, p)]
             H == [p \in P |-> games(c, p) \cap Won(p)]
             f == [p \in P |-> CivCounts(p)[c].picks]
             g == [p \in P |-> CivCounts(p)[c].wins]
             won == {k \in on(c) : k[1] \in Won(k[2])}
  <2>1. c # Unknown /\ \A p : c \in Civs(p) <=> \E t \in Counted(p) : Side(t, p).civ = c
    BY <1>5
  <2>2. P \in SUBSET Nat /\ P \subseteq S /\ \A p \in P : p <= b
    BY <1>6
  <2>3. \A p \in P : c \in Civs(p)
    BY <1>1
  <2>4. \A p \in P : /\ G[p] \in SUBSET Counted(p) /\ H[p] \in SUBSET Counted(p)
                     /\ G[p] = games(c, p) /\ H[p] = games(c, p) \cap Won(p)
    OBVIOUS
  <2>5. \A p \in P : f[p] = Cardinality(G[p]) /\ g[p] = Cardinality(H[p])
    BY <1>1, <2>3
  <2>6. Pairs(G, P, 0) = on(c)
    <3>1. ASSUME NEW k \in Pairs(G, P, 0)
          PROVE  k \in on(c)
      BY <1>3, <2>1, <2>2, <2>4 DEF Pairs
    <3>2. ASSUME NEW k \in on(c)
          PROVE  k \in Pairs(G, P, 0)
      <4>1. k \in (DOMAIN log) \X S /\ k[1] \in games(c, k[2]) /\ k[2] \in S
        OBVIOUS
      <4>2. k[2] \in P
        <5>1. c \in Civs(k[2])
          BY <2>1, <4>1
        <5>2. c \in DOMAIN CivCounts(k[2])
          BY <1>1, <5>1
        <5> QED
          BY <4>1, <5>2
      <4>3. k \in Nat \X P /\ k[2] >= 0
        BY <1>4, <2>2, <4>1, <4>2
      <4> HIDE DEF P, on
      <4> QED
        BY <2>4, <4>1, <4>2, <4>3 DEF Pairs
    <3> QED
      BY <3>1, <3>2
  <2>7. Pairs(H, P, 0) = won
    <3>1. \A k : k \in Pairs(H, P, 0) <=> k \in Pairs(G, P, 0) /\ k[1] \in Won(k[2])
      BY <2>4 DEF Pairs
    <3> HIDE DEF G, H, P, on
    <3> QED
      BY <2>6, <3>1
  <2>8. \A p \in P : /\ G[p] \in SUBSET Nat /\ IsFiniteSet(G[p])
                     /\ H[p] \in SUBSET Nat /\ IsFiniteSet(H[p])
    <3> HIDE DEF G, H
    <3>1. ASSUME NEW p \in P
          PROVE  /\ G[p] \in SUBSET Nat /\ IsFiniteSet(G[p])
                 /\ H[p] \in SUBSET Nat /\ IsFiniteSet(H[p])
      <4>1. p \in S /\ G[p] \in SUBSET Counted(p) /\ H[p] \in SUBSET Counted(p)
        BY <2>2, <2>4
      <4>2. Counted(p) \in SUBSET Nat /\ IsFiniteSet(Counted(p))
        BY <1>3, <4>1
      <4>3. IsFiniteSet(G[p]) /\ IsFiniteSet(H[p])
        BY <4>1, <4>2, FS_Subset
      <4> QED
        BY <4>1, <4>2, <4>3
    <3> QED
      BY <3>1
  <2>9. Merged(S)[c].picks = Total(f, P) /\ Merged(S)[c].wins = Total(g, P)
    BY <1>2
  <2> HIDE DEF f, g, G, H, P, on, won
  <2>10. Total(f, P) = Cardinality(Pairs(G, P, 0))
    BY <2>2, <2>5, <2>8, TotalCounts
  <2>11. Total(g, P) = Cardinality(Pairs(H, P, 0))
    BY <2>2, <2>5, <2>8, TotalCounts
  <2>12. Merged(S)[c].picks = Cardinality(on(c)) /\ Merged(S)[c].wins = Cardinality(won)
    BY <2>6, <2>7, <2>9, <2>10, <2>11
  <2> QED
    BY <2>12 DEF won
<1> QED
  BY <1>5, <1>7

(* The views of a game agree between any two requests, for every log,      *)
(* window and roster (get_standings, get_recent_matches, get_civ_stats,    *)
(* the head-to-head feed, the summary cards and the chart).                *)
THEOREM ViewsAlwaysAgree == Spec => []ViewsAgree
<1>1. IInv => ViewsAgree
  <2>1. IInv => LogIsBounded
    BY DEF IInv
  <2> QED
    BY <2>1, EntrantsMeet, SeenInTheFeed, SameForm, CountsAreMerged, CardIsCharted DEF ViewsAgree
<1> QED
  BY <1>1, Invariance, PTL

-----------------------------------------------------------------------------
(* How the log that the statistics fold comes about, module MatchLog: the  *)
(* leaderboard loader, the map it shares with the recent-matches poller,   *)
(* and the tags and results of finished matches.                           *)
LEMMA Overlay ==
    ASSUME NEW S, NEW T, NEW f \in Partial(S, T), NEW g \in Partial(S, T)
    PROVE  Over(f, g) \in Partial(S, T)
<1>1. PICK U \in SUBSET S : f \in [U -> T]
  BY DEF Partial
<1>2. PICK V \in SUBSET S : g \in [V -> T]
  BY DEF Partial
<1>3. Over(f, g) \in [U \union V -> T] /\ U \union V \in SUBSET S
  BY <1>1, <1>2 DEF Over
<1> QED
  BY <1>3 DEF Partial

LEMMA OverlayDomain ==
    ASSUME NEW f, NEW g
    PROVE  DOMAIN Over(f, g) = DOMAIN f \union DOMAIN g
BY DEF Over

LEMMA PartialValues ==
    ASSUME NEW S, NEW T, NEW f \in Partial(S, T)
    PROVE  DOMAIN f \subseteq S /\ \A x \in DOMAIN f : f[x] \in T
BY DEF Partial

LEMMA LoadedGrows ==
    ASSUME TypeOK
    PROVE  /\ Loaded \in Maps
           /\ DOMAIN Floor \subseteq DOMAIN Loaded /\ DOMAIN map \subseteq DOMAIN Loaded
<1>1. loader.payload \in Maps /\ map \in Maps /\ Floor \in Maps
  BY LogAssumption DEF TypeOK
<1> DEFINE low == Over(loader.payload, Floor)
<1>2. low \in Maps /\ DOMAIN low = DOMAIN loader.payload \union DOMAIN Floor
  BY <1>1, Overlay, OverlayDomain DEF Maps
<1>3. Loaded = Over(low, map)
  BY DEF Loaded
<1> HIDE DEF low
<1>4. Over(low, map) \in Maps /\ DOMAIN Over(low, map) = DOMAIN low \union DOMAIN map
  BY <1>1, <1>2, Overlay, OverlayDomain DEF Maps
<1> QED
  BY <1>2, <1>3, <1>4

LEMMA NothingLogged ==
    /\ DOMAIN Nothing = {}
    /\ \A S, T : Nothing \in Partial(S, T)
<1>1. DOMAIN Nothing = {}
  BY DEF Nothing
<1>2. ASSUME NEW S, NEW T PROVE Nothing \in Partial(S, T)
  <2>1. Nothing \in [{} -> T] /\ {} \in SUBSET S
    BY DEF Nothing
  <2> QED
    BY <2>1 DEF Partial
<1> QED
  BY <1>1, <1>2

LEMMA IdleLog ==
    /\ IdleTick \in Ticks /\ DOMAIN IdleTick.rows = {}
    /\ Loading \in [pc : {"idle", "fetched"}, payload : Maps]
BY NothingLogged DEF IdleTick, Loading, Ticks, Maps

(* An answer is put beside the others; nothing is written yet.             *)
LEMMA AnswerIsKept ==
    ASSUME TypeOK, NEW p \in Tracked, NEW answer \in Partial(Matches, Stat), Answered(p, answer)
    PROVE  tick' \in Ticks /\ tick'.rows = tick.rows
<1> DEFINE T == Partial(Matches, Stat)
           more == [q \in DOMAIN tick.answers \union {p} |->
                       IF q = p THEN answer ELSE tick.answers[q]]
<1>1. tick \in Ticks /\ tick.answers \in Partial(Tracked, T)
  BY DEF TypeOK, Ticks
<1>2. more \in Partial(Tracked, T)
  <2> HIDE DEF T
  <2>1. answer \in T
    BY DEF T
  <2>2. PICK U \in SUBSET Tracked : tick.answers \in [U -> T]
    BY <1>1 DEF Partial
  <2>3. more \in [U \union {p} -> T] /\ U \union {p} \in SUBSET Tracked
    BY <2>1, <2>2
  <2> HIDE DEF more
  <2> QED
    BY <2>3 DEF Partial
<1>3. tick' = [tick EXCEPT !.answers = more]
  BY DEF Answered
<1> HIDE DEF more, T
<1> QED
  BY <1>1, <1>2, <1>3 DEF Ticks, T

(* What the rows of an answer are when it is parsed.                       *)
LEMMA ParsedRows ==
    ASSUME LogIInv, NEW answer \in Partial(Matches, Stat)
    PROVE  /\ Parsed(answer) \in Partial(Matches, Row)
           /\ Reports(answer) \in Partial(Matches, Outcomes)
           /\ \A m \in DOMAIN Parsed(answer) :
                 /\ Parsed(answer)[m].tag \in Leaderboards <=> matchtype[m] \in DOMAIN map
                 /\ matchtype[m] \in DOMAIN map => Parsed(answer)[m].tag # Null
<1>1. /\ map \in Maps /\ matchtype \in [Matches -> Matchtypes]
      /\ Null \notin Leaderboards
  BY LogAssumption DEF LogIInv, TypeOK
<1>2. \A t \in DOMAIN map : map[t] \in Leaderboards
  BY <1>1, PartialValues DEF Maps
<1>3. PICK U \in SUBSET Matches : answer \in [U -> Stat]
  BY DEF Partial
<1>4. \A m \in U : answer[m].completed \in BOOLEAN /\ answer[m].report \in Outcomes
  BY <1>3 DEF Stat
<1>5. \A m \in U : /\ Tag(m) \in Leaderboards \union {Null}
                   /\ Tag(m) \in Leaderboards <=> matchtype[m] \in DOMAIN map
                   /\ matchtype[m] \in DOMAIN map => Tag(m) # Null
  BY <1>1, <1>2 DEF Tag
<1>6. Parsed(answer) \in [U -> Row] /\ Reports(answer) \in [U -> Outcomes]
  BY <1>3, <1>4, <1>5 DEF Parsed, Reports, Row
<1>7. \A m \in U : Parsed(answer)[m].tag = Tag(m)
  BY <1>3 DEF Parsed
<1> QED
  BY <1>5, <1>6, <1>7 DEF Partial

LEMMA LogStarts == LogInit => LogIInv
<1> SUFFICES ASSUME LogInit PROVE LogIInv
  OBVIOUS
<1> USE LogAssumption
<1>1. Null \in Outcomes
  BY DEF Outcomes
<1>2. TypeOK
  BY <1>1, IdleLog DEF LogInit, TypeOK, Stat
<1>3. FloorHolds /\ TagsAreMapped
  BY IdleLog DEF LogInit, FloorHolds, Floored, TagsAreMapped, NoRow
<1> QED
  BY <1>2, <1>3 DEF LogIInv

(* One lemma per step that disturbs more than one variable of the worker   *)
(* or the database.                                                        *)
LEMMA LogUpdate == LogIInv /\ LoaderUpdate => LogIInv'
<1> SUFFICES ASSUME LogIInv, LoaderUpdate PROVE LogIInv'
  OBVIOUS
<1>1. /\ map' = Loaded /\ loader' = Loading
      /\ boards' = boards \union {loader.payload[t] : t \in DOMAIN loader.payload}
      /\ UNCHANGED <<published, matchtype, histories, stats, tick, tagged, matches, outcomes,
                     failures, restarts>>
  BY DEF LoaderUpdate, upstream, counts
<1>2. map' \in Maps /\ DOMAIN Floor \subseteq DOMAIN map' /\ DOMAIN map \subseteq DOMAIN map'
  BY <1>1, LoadedGrows DEF LogIInv
<1>3. boards' \subseteq Leaderboards
  BY <1>1, PartialValues DEF LogIInv, TypeOK, Maps
<1>4. TypeOK'
  BY <1>1, <1>2, <1>3, IdleLog DEF LogIInv, TypeOK
<1>5. FloorHolds' /\ TagsAreMapped'
  BY <1>1, <1>2 DEF LogIInv, FloorHolds, Floored, TagsAreMapped
<1> QED
  BY <1>4, <1>5 DEF LogIInv

(* While a tick fetches, the invariant is about what does not change.      *)
LEMMA LogAnswered ==
    ASSUME LogIInv, NEW p \in Tracked, NEW answer \in Partial(Matches, Stat), Answered(p, answer),
           failures' \in Nat,
           UNCHANGED <<upstream, map, loader, tagged, db, restarts>>
    PROVE  LogIInv'
<1>1. tick' \in Ticks /\ tick'.rows = tick.rows
  BY AnswerIsKept DEF LogIInv
<1>2. TypeOK'
  BY <1>1 DEF LogIInv, TypeOK, upstream, db
<1>3. FloorHolds' /\ TagsAreMapped'
  BY <1>1 DEF LogIInv, FloorHolds, Floored, TagsAreMapped, upstream, db
<1> QED
  BY <1>2, <1>3 DEF LogIInv

LEMMA LogFetch ==
    ASSUME LogIInv, NEW p \in Tracked, TickFetch(p) \/ FetchFails(p)
    PROVE  LogIInv'
<1>1. CASE TickFetch(p)
  <2> DEFINE answer == [m \in histories[p] |-> stats[m]]
  <2>1. histories[p] \in SUBSET Matches /\ answer \in [histories[p] -> Stat]
    BY DEF LogIInv, TypeOK
  <2>2. answer \in Partial(Matches, Stat)
    BY <2>1 DEF Partial
  <2>3. /\ Answered(p, answer) /\ failures' \in Nat
        /\ UNCHANGED <<upstream, map, loader, tagged, db, restarts>>
    BY <1>1 DEF TickFetch, counts, LogIInv, TypeOK
  <2> HIDE DEF answer
  <2> QED
    BY <2>2, <2>3, LogAnswered
<1>2. CASE FetchFails(p)
  <2>1. /\ Answered(p, Nothing) /\ failures' \in Nat
        /\ UNCHANGED <<upstream, map, loader, tagged, db, restarts>>
    BY <1>2 DEF FetchFails, LogIInv, TypeOK
  <2> QED
    BY <2>1, NothingLogged, LogAnswered
<1> QED
  BY <1>1, <1>2

LEMMA LogUpsert ==
    ASSUME LogIInv, NEW p \in Tracked, TickUpsert(p)
    PROVE  LogIInv'
<1> DEFINE T == Partial(Matches, Stat)
           new == Parsed(tick.answers[p])
           rest == [tick.answers EXCEPT ![p] = Nothing]
<1>1. /\ p \in DOMAIN tick.answers
      /\ tick' = [answers |-> rest, parsed |-> tick.parsed \union {p},
                  rows |-> Over(new, tick.rows),
                  results |-> Over(tick.results, Reports(tick.answers[p]))]
      /\ UNCHANGED <<published, matchtype, histories, stats, map, loader, tagged, matches, outcomes,
                     boards, failures, restarts>>
  BY DEF TickUpsert, Fetched, upstream, db, counts
<1>2. /\ tick.answers \in Partial(Tracked, T) /\ tick.parsed \in SUBSET Tracked
      /\ tick.rows \in Partial(Matches, Row) /\ tick.results \in Partial(Matches, Outcomes)
  BY DEF LogIInv, TypeOK, Ticks
<1> HIDE DEF T
<1>3. tick.answers[p] \in T
  BY <1>1, <1>2, PartialValues
<1>4. rest \in Partial(Tracked, T)
  <2>1. Nothing \in T
    BY NothingLogged DEF T
  <2>2. PICK U \in SUBSET Tracked : tick.answers \in [U -> T]
    BY <1>2 DEF Partial
  <2>3. rest \in [U -> T]
    BY <2>1, <2>2
  <2> HIDE DEF rest
  <2> QED
    BY <2>3 DEF Partial
<1>5. /\ new \in Partial(Matches, Row)
      /\ Reports(tick.answers[p]) \in Partial(Matches, Outcomes)
      /\ \A m \in DOMAIN new :
            /\ new[m].tag \in Leaderboards <=> matchtype[m] \in DOMAIN map
            /\ matchtype[m] \in DOMAIN map => new[m].tag # Null
  BY <1>3, ParsedRows DEF T
<1> HIDE DEF new, rest
<1>6. /\ Over(new, tick.rows) \in Partial(Matches, Row)
      /\ DOMAIN Over(new, tick.rows) = DOMAIN new \union DOMAIN tick.rows
      /\ \A m \in DOMAIN Over(new, tick.rows) :
            Over(new, tick.rows)[m] = IF m \in DOMAIN new THEN new[m] ELSE tick.rows[m]
  <2>1. Over(new, tick.rows) \in Partial(Matches, Row)
    BY <1>2, <1>5, Overlay
  <2>2. /\ DOMAIN Over(new, tick.rows) = DOMAIN new \union DOMAIN tick.rows
        /\ \A m \in DOMAIN new \union DOMAIN tick.rows :
              Over(new, tick.rows)[m] = IF m \in DOMAIN new THEN new[m] ELSE tick.rows[m]
    BY DEF Over
  <2> QED
    BY <2>1, <2>2
<1>7. Over(tick.results, Reports(tick.answers[p])) \in Partial(Matches, Outcomes)
  BY <1>2, <1>5, Overlay
<1>8. tick' \in Ticks
  BY <1>1, <1>2, <1>4, <1>6, <1>7 DEF Ticks, T
<1>9. TypeOK'
  BY <1>1, <1>8 DEF LogIInv, TypeOK
<1>10. /\ tick'.rows = Over(new, tick.rows)
       /\ UNCHANGED <<matchtype, map, tagged, matches, restarts>>
  BY <1>1
<1>11. FloorHolds'
  BY <1>5, <1>6, <1>10 DEF LogIInv, FloorHolds, Floored
<1>12. TagsAreMapped'
  BY <1>5, <1>6, <1>10 DEF LogIInv, TagsAreMapped
<1> QED
  BY <1>9, <1>11, <1>12 DEF LogIInv

(* What a commit writes of a match: the row under way, if there is one.    *)
LEMMA LogCommitted ==
    ASSUME LogIInv, TickCommit
    PROVE  /\ \A m \in Matches : m \in DOMAIN tick.rows =>
                 tick.rows[m] \in Row /\ matches'[m] = tick.rows[m]
           /\ \A m \in Matches : m \notin DOMAIN tick.rows => matches'[m] = matches[m]
           /\ \A m \in Matches : Outcome(m) \in Outcomes \union {"none"}
<1>1. /\ tick.rows \in Partial(Matches, Row) /\ tick.results \in Partial(Matches, Outcomes)
      /\ outcomes \in [Matches -> Outcomes \union {"none"}]
  BY DEF LogIInv, TypeOK, Ticks
<1>2. \A m \in DOMAIN tick.rows : tick.rows[m] \in Row
  BY <1>1, PartialValues
<1>3. \A m \in DOMAIN tick.results : tick.results[m] \in Outcomes
  BY <1>1, PartialValues
<1> QED
  BY <1>1, <1>2, <1>3 DEF TickCommit, Upserted, Outcome

LEMMA LogCommit == LogIInv /\ TickCommit => LogIInv'
<1> SUFFICES ASSUME LogIInv, TickCommit PROVE LogIInv'
  OBVIOUS
<1>1. /\ tick' = IdleTick
      /\ matches'  = [m \in Matches |-> Upserted(m)]
      /\ outcomes' = [m \in Matches |-> Outcome(m)]
      /\ tagged' = tagged \union
             {matchtype[m] : m \in {x \in DOMAIN tick.rows : tick.rows[x].tag \in Leaderboards}}
      /\ UNCHANGED <<published, matchtype, histories, stats, map, loader, boards, failures, restarts>>
  BY DEF TickCommit, upstream, counts
<1>2. DOMAIN tick.rows \subseteq Matches
  BY PartialValues DEF LogIInv, TypeOK, Ticks
<1>3. /\ matches' \in [Matches -> Row \union {NoRow}]
      /\ outcomes' \in [Matches -> Outcomes \union {"none"}]
  <2>1. \A m \in Matches : Upserted(m) \in Row \union {NoRow}
    BY LogCommitted DEF Upserted, LogIInv, TypeOK
  <2> QED
    BY <1>1, <2>1, LogCommitted
<1>4. tagged' \subseteq Matchtypes
  BY <1>1, <1>2 DEF LogIInv, TypeOK
<1>5. TypeOK'
  BY <1>1, <1>3, <1>4, IdleLog DEF LogIInv, TypeOK
<1>6. FloorHolds'
  BY <1>1, LogCommitted, IdleLog DEF LogIInv, FloorHolds, Floored
<1>7. TagsAreMapped'
  <2>1. tagged' \subseteq DOMAIN map'
    BY <1>1 DEF LogIInv, TagsAreMapped
  <2>2. DOMAIN tick'.rows = {}
    BY <1>1, IdleLog
  <2>3. ASSUME restarts' = 0, NEW m \in Matches, matches'[m].tag \in Leaderboards
        PROVE  matchtype'[m] \in tagged'
    BY <1>1, <2>3, LogCommitted DEF LogIInv, TagsAreMapped
  <2> QED
    BY <2>1, <2>2, <2>3 DEF TagsAreMapped
<1> QED
  BY <1>5, <1>6, <1>7 DEF LogIInv

LEMMA LogLive ==
    ASSUME LogIInv, NEW m \in Matches, LiveInserts(m)
    PROVE  LogIInv'
<1> DEFINE row == [completed |-> FALSE, tag |-> Null]
<1>1. /\ matches' = [matches EXCEPT ![m] = row]
      /\ UNCHANGED <<published, matchtype, histories, stats, map, loader, tick, tagged, outcomes,
                     boards, failures, restarts>>
  BY DEF LiveInserts, upstream, counts
<1>2. matches' \in [Matches -> Row \union {NoRow}]
  BY <1>1 DEF LogIInv, TypeOK, Row
<1>3. TypeOK'
  BY <1>1, <1>2 DEF LogIInv, TypeOK
<1>4. \A x \in Matches : matches'[x] = IF x = m THEN row ELSE matches[x]
  BY <1>1 DEF LogIInv, TypeOK
<1>5. FloorHolds'
  BY <1>1, <1>4 DEF LogIInv, FloorHolds, Floored
<1>6. TagsAreMapped'
  BY <1>1, <1>4, LogAssumption DEF LogIInv, TagsAreMapped
<1> QED
  BY <1>3, <1>5, <1>6 DEF LogIInv

LEMMA LogRestart == LogIInv /\ Restart => LogIInv'
<1> SUFFICES ASSUME LogIInv, Restart PROVE LogIInv'
  OBVIOUS
<1>1. /\ map' = Floor /\ loader' = Loading /\ tick' = IdleTick /\ tagged' = {}
      /\ restarts' = restarts + 1
      /\ UNCHANGED <<published, matchtype, histories, stats, matches, outcomes, boards, failures>>
  BY DEF Restart, upstream, db
<1>2. TypeOK' /\ restarts' # 0
  BY <1>1, IdleLog, LogAssumption DEF LogIInv, TypeOK
<1>3. FloorHolds' /\ TagsAreMapped'
  BY <1>1, <1>2, IdleLog DEF LogIInv, FloorHolds, Floored, TagsAreMapped
<1> QED
  BY <1>2, <1>3 DEF LogIInv

LEMMA LogSteps == LogIInv /\ [LogNext]_logVars => LogIInv'
<1> SUFFICES ASSUME LogIInv, [LogNext]_logVars PROVE LogIInv'
  OBVIOUS
<1>1. CASE UNCHANGED <<matchtype, map, tick, tagged, matches, restarts>> /\ TypeOK'
  BY <1>1 DEF LogIInv, FloorHolds, Floored, TagsAreMapped
<1>2. CASE UNCHANGED logVars
  <2>1. TypeOK'
    BY <1>2 DEF logVars, upstream, db, counts, LogIInv, TypeOK
  <2> QED
    BY <1>1, <1>2, <2>1 DEF logVars, upstream, db, counts
<1>3. ASSUME NEW p \in Payloads, Publish(p) PROVE LogIInv'
  BY <1>1, <1>3, LogAssumption DEF Publish, db, counts, LogIInv, TypeOK
<1>4. ASSUME NEW p \in Tracked, NEW S \in SUBSET Matches, Relist(p, S) PROVE LogIInv'
  <2>1. histories' \in [Tracked -> SUBSET Matches]
    BY <1>4 DEF Relist, LogIInv, TypeOK
  <2> QED
    BY <1>1, <1>4, <2>1 DEF Relist, db, counts, LogIInv, TypeOK
<1>5. ASSUME NEW m \in Matches, Advance(m) PROVE LogIInv'
  <2>1. stats \in [Matches -> Stat] /\ TRUE \in BOOLEAN /\ "result" \in Outcomes
    BY DEF LogIInv, TypeOK, Outcomes
  <2>2. stats' = [stats EXCEPT ![m].completed = TRUE] \/ stats' = [stats EXCEPT ![m].report = "result"]
    BY <1>5 DEF Advance
  <2>3. stats' \in [Matches -> Stat]
    BY <2>1, <2>2 DEF Stat
  <2> QED
    BY <1>1, <1>5, <2>3 DEF Advance, db, counts, LogIInv, TypeOK
<1>6. CASE LoaderFetch
  <2>1. loader' \in [pc : {"idle", "fetched"}, payload : Maps]
    BY <1>6 DEF LoaderFetch, LogIInv, TypeOK
  <2> QED
    BY <1>1, <1>6, <2>1 DEF LoaderFetch, upstream, db, counts, LogIInv, TypeOK
<1>7. CASE LoaderFails
  BY <1>1, <1>7, IdleLog DEF LoaderFails, upstream, db, LogIInv, TypeOK
<1>8. CASE TickFails
  <2>1. tick' = IdleTick /\ UNCHANGED <<matchtype, map, tagged, matches, restarts>>
    BY <1>8 DEF TickFails, upstream, db
  <2>2. TypeOK'
    BY <1>8, IdleLog DEF TickFails, upstream, db, LogIInv, TypeOK
  <2> QED
    BY <2>1, <2>2, IdleLog DEF LogIInv, FloorHolds, Floored, TagsAreMapped
<1> QED
  BY <1>2, <1>3, <1>4, <1>5, <1>6, <1>7, <1>8,
     LogUpdate, LogFetch, LogUpsert, LogCommit, LogLive, LogRestart
     DEF LogNext, LoaderStep, TickStep

(* The types, the floor, and what the map knows of the tags written, for   *)
(* every instance and any number of failures and restarts.                 *)
THEOREM LogInvariance == LogSpec => []LogIInv
<1>1. LogInit => LogIInv
  BY LogStarts
<1>2. LogIInv /\ [LogNext]_logVars => LogIInv'
  BY LogSteps
<1> QED
  BY <1>1, <1>2, PTL DEF LogSpec, Safety

(* No completed match of a floored type is ever without its leaderboard.   *)
THEOREM FloorHoldsEver == LogSpec => []FloorHolds
<1>1. LogIInv => FloorHolds
  BY DEF LogIInv
<1>2. LogSpec => []LogIInv
  BY LogInvariance
<1> QED
  BY <1>1, <1>2, PTL

(* A tag goes back to null only after a restart, of a type that is not in  *)
(* the floor and that the worker has tagged no match of since then.        *)
THEOREM TagsAreKept == LogSpec => TagLostOnlyByRestart
<1> DEFINE Kept == \A m \in Matches :
               matches[m].tag \in Leaderboards /\ matches'[m].tag = Null =>
                   restarts > 0 /\ matchtype[m] \notin tagged \union DOMAIN Floor
<1>1. ASSUME LogIInv, [LogNext]_logVars PROVE Kept \/ UNCHANGED logVars
  <2>1. CASE UNCHANGED matches
    BY <2>1, LogAssumption
  <2>2. ASSUME NEW x \in Matches, LiveInserts(x) PROVE Kept
    <3>1. \A m \in Matches : m # x => matches'[m] = matches[m]
      BY <1>1, <2>2 DEF LiveInserts, LogIInv, TypeOK
    <3>2. matches[x].tag \notin Leaderboards
      BY <2>2, LogAssumption DEF LiveInserts, NoRow
    <3> QED
      BY <3>1, <3>2, LogAssumption
  <2>3. CASE TickCommit
    <3>1. restarts \in Nat
      BY <1>1 DEF LogIInv, TypeOK
    <3>2. ASSUME NEW m \in Matches, matches[m].tag \in Leaderboards, matches'[m].tag = Null
          PROVE  restarts # 0 /\ matchtype[m] \notin tagged \union DOMAIN Floor
      <4>1. m \in DOMAIN tick.rows /\ tick.rows[m].tag = Null
        BY <1>1, <2>3, <3>2, LogCommitted, LogAssumption
      <4>2. matchtype[m] \notin tagged /\ matchtype[m] \notin DOMAIN Floor
        BY <1>1, <4>1 DEF LogIInv, FloorHolds, Floored, TagsAreMapped
      <4> QED
        BY <1>1, <3>2, <4>2 DEF LogIInv, TagsAreMapped
    <3> QED
      BY <3>1, <3>2
  <2> QED
    BY <1>1, <2>1, <2>2, <2>3 DEF LogNext, Publish, Relist, Advance, LoaderStep, LoaderFetch,
       LoaderUpdate, LoaderFails, TickStep, TickFetch, FetchFails, TickUpsert, TickFails, Restart,
       db, logVars
<1>2. LogSpec => []LogIInv
  BY LogInvariance
<1> QED
  BY <1>1, <1>2, PTL DEF LogSpec, Safety, TagLostOnlyByRestart
=============================================================================
