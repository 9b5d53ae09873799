------------------------- MODULE BackendPoolProofs -------------------------
(***************************************************************************)
(* Proofs about BackendPool, for every number of backends and any set of   *)
(* handlers.                                                               *)
(***************************************************************************)
EXTENDS BackendPool, FiniteSetTheorems, FunctionTheorems, TLAPS

USE DEF Backend, Readers

-----------------------------------------------------------------------------
(* Types.                                                                  *)

\* The number of backends in a list of backends.
LEMMA ListSize ==
  ASSUME NEW list \in SUBSET Backend
  PROVE  Cardinality(list) \in 0 .. N
<1>1. IsFiniteSet(Backend) /\ Cardinality(Backend) = N
  BY ConstantsOK, FS_Interval
<1>2. IsFiniteSet(list) /\ Cardinality(list) <= N
  BY <1>1, FS_Subset
<1>. QED  BY <1>2, FS_CardinalityType, ConstantsOK

\* checkAll goes on to the next backend, after the last one back to select.
LEMMA NextProbe ==
  ASSUME NEW b \in Backend
  PROVE  (b + 1) % (N + 1) \in 0 .. N
BY ConstantsOK

Spreads == [list : SUBSET Backend, tally : [Backend -> Nat]]

LEMMA SpreadType ==
  ASSUME NEW l \in SUBSET Backend, NEW t \in [Backend -> Nat]
  PROVE  [list |-> l, tally |-> t] \in Spreads
BY DEF Spreads

LEMMA TallyType ==
  ASSUME NEW t \in [Backend -> Nat], NEW b
  PROVE  [t EXCEPT ![b] = @ + 1] \in [Backend -> Nat]
<1>1. CASE b \in Backend
  BY <1>1
<1>2. CASE b \notin Backend
  BY <1>2
<1>. QED  BY <1>1, <1>2

LEMMA TypeInit == Init => TypeOK
<1>. SUFFICES ASSUME Init PROVE TypeOK
  OBVIOUS
<1>1. [b \in Backend |-> 0] \in [Backend -> Nat] /\ {} \in SUBSET Backend
  OBVIOUS
<1>2. spread \in Spreads
  BY <1>1, SpreadType DEF Init
<1>3. probe \in 0 .. N + 1
  BY ConstantsOK DEF Init
<1>4. healthy \in [Backend -> BOOLEAN] /\ counter \in Nat
  BY DEF Init
<1>5. pos \in [Readers -> 0 .. N + 1]
  BY ConstantsOK DEF Init
<1>6. out \in [Readers -> SUBSET Backend] /\ moved \in [Readers -> BOOLEAN]
  BY DEF Init
<1>7. hosts \in {<<>>}
  BY DEF Init
<1>8. late \in 0 .. N /\ answer = "unsent"
  BY ConstantsOK DEF Init
<1>. QED  BY <1>2, <1>3, <1>4, <1>5, <1>6, <1>7, <1>8 DEF Init, TypeOK, Spreads

LEMMA TypeStep == TypeOK /\ [Next]_vars => TypeOK'
<1>. SUFFICES ASSUME TypeOK, [Next]_vars PROVE TypeOK'
  OBVIOUS
<1>. USE ConstantsOK DEF TypeOK
<1>1. ASSUME NEW h \in Handlers, BeginNext(h) PROVE TypeOK'
  BY <1>1 DEF BeginNext, BeginScan, selecting, checking
<1>2. ASSUME NEW h \in Handlers, PickNone(h) PROVE TypeOK'
  BY <1>2 DEF PickNone, checking
<1>3. ASSUME NEW h \in Handlers, PickOne(h) PROVE TypeOK'
  <2>1. spread' \in [list : SUBSET Backend, tally : [Backend -> Nat]]
    <3>1. CASE out[h] = spread.list
      <4>1. spread' = [spread EXCEPT !.tally[RoundRobin(out[h])] = @ + 1]
        BY <1>3, <3>1 DEF PickOne
      <4>2. spread.tally \in [Backend -> Nat]
        OBVIOUS
      <4>3. [spread.tally EXCEPT ![RoundRobin(out[h])] = @ + 1] \in [Backend -> Nat]
        BY <4>2, TallyType
      <4>. QED  BY <4>1, <4>3
    <3>2. CASE out[h] # spread.list
      <4>1. spread' = [list |-> out[h],
                       tally |-> [a \in Backend |-> IF a = RoundRobin(out[h]) THEN 1 ELSE 0]]
        BY <1>3, <3>2 DEF PickOne
      <4>2. [a \in Backend |-> IF a = RoundRobin(out[h]) THEN 1 ELSE 0] \in [Backend -> Nat]
        OBVIOUS
      <4>3. out[h] \in SUBSET Backend
        OBVIOUS
      <4>4. spread' \in Spreads
        <5>. HIDE DEF TypeOK, Backend
        <5>. QED  BY <4>1, <4>2, <4>3, SpreadType
      <4>. QED  BY <4>4 DEF Spreads
    <3>. QED  BY <3>1, <3>2
  <2>2. /\ counter' = counter + 1
        /\ pos' = [pos EXCEPT ![h] = 0]
        /\ out' = [out EXCEPT ![h] = {}]
        /\ UNCHANGED <<hosts, checking, moved>>
    BY <1>3 DEF PickOne
  <2>. QED  BY <2>1, <2>2 DEF checking
<1>4. ASSUME NEW x \in Readers, LoadFlag(x) PROVE TypeOK'
  <2>1. pos[x] \in Backend /\ pos' \in [Readers -> 0 .. N + 1]
    BY <1>4 DEF LoadFlag
  <2>2. out' \in [Readers -> SUBSET Backend]
    BY <1>4, <2>1 DEF LoadFlag
  <2>3. UNCHANGED <<selecting, hosts, checking, moved>>
    BY <1>4 DEF LoadFlag
  <2>. QED  BY <2>1, <2>2, <2>3 DEF selecting, checking
<1>5. CASE BeginGauges
  BY <1>5 DEF BeginGauges, BeginScan, selecting, checking
<1>6. CASE HealthyHosts
  <2>1. Cardinality(out[Flusher]) \in 0 .. N
    BY ListSize
  <2>. QED  BY <1>6, <2>1 DEF HealthyHosts, BeginScan, selecting, checking
<1>7. CASE UnhealthyHosts
  <2>1. N - Cardinality(out[Flusher]) \in 0 .. N
    <3>1. Cardinality(out[Flusher]) \in 0 .. N
      BY ListSize
    <3>. HIDE DEF TypeOK
    <3>. QED  BY <3>1
  <2>2. hosts[1] \in 0 .. N
    BY <1>7 DEF UnhealthyHosts
  <2>. QED  BY <1>7, <2>1, <2>2 DEF UnhealthyHosts, selecting, checking
<1>8. ASSUME NEW up \in BOOLEAN, probe \in Backend, Store(up), logged' \in BOOLEAN
      PROVE  TypeOK'
  BY <1>8, NextProbe DEF Store, selecting, Answers
<1>9. CASE ProbeError
  <2>1. logged' \in BOOLEAN /\ probe \in Backend
    BY <1>9 DEF ProbeError, Store
  <2>. QED  BY <1>8, <1>9, <2>1 DEF ProbeError
<1>10. CASE Probe5xx
  BY <1>8, <1>10 DEF Probe5xx
<1>11. CASE ProbeOK
  BY <1>8, <1>11 DEF ProbeOK
<1>16. CASE Send
  BY <1>16 DEF Send, selecting, Answers
<1>17. CASE Answer
  BY <1>17 DEF Answer, selecting, Answers
<1>12. CASE Tick
  BY <1>12 DEF Tick, selecting
<1>13. CASE Stop
  BY <1>13 DEF Stop, selecting
<1>14. CASE Cancel
  BY <1>14 DEF Cancel, selecting
<1>15. CASE UNCHANGED vars
  BY <1>15 DEF vars, checking, selecting
<1>. QED
  BY <1>1, <1>2, <1>3, <1>4, <1>5, <1>6, <1>7, <1>9, <1>10, <1>11, <1>12,
     <1>13, <1>14, <1>15, <1>16, <1>17 DEF Next, Probe

\* The fields stay in their types; in particular neither host gauge is ever
\* negative or above the number of configured backends.
THEOREM TypeCorrect == Spec => []TypeOK
BY TypeInit, TypeStep, PTL DEF Spec

-----------------------------------------------------------------------------
(* Scans.  GaugesAddUp needs to know what each of the flusher's two scans  *)
(* counted; the backends that are up now, if no flag moved since.          *)

Up == {b \in Backend : healthy[b]}

GaugesRead ==
  ~moved[Flusher] =>
    /\ Len(hosts) \in {1, 2} => hosts[1] = Cardinality(Up)
    /\ Len(hosts) = 2 => hosts[2] = N - Cardinality(Up)

ScanInv == QuietScanIsExact /\ GaugesRead

LEMMA ScanInit == Init => ScanInv
BY DEF Init, ScanInv, QuietScanIsExact, GaugesRead

\* A store either moves no flag or marks every snapshot under way.
LEMMA StoreKeepsScans ==
  ASSUME TypeOK, ScanInv, NEW up \in BOOLEAN, probe \in Backend, Store(up)
  PROVE  ScanInv'
<1>1. CASE healthy[probe] = up
  <2>1. healthy' = healthy /\ moved' = moved /\ pos' = pos /\ out' = out /\ hosts' = hosts
    BY <1>1 DEF Store, TypeOK
  <2>. QED  BY <2>1 DEF ScanInv, QuietScanIsExact, GaugesRead, Up
<1>2. CASE healthy[probe] # up
  <2>1. \A x \in Readers : moved'[x]
    BY <1>2 DEF Store
  <2>. QED  BY <2>1 DEF ScanInv, QuietScanIsExact, GaugesRead
<1>. QED  BY <1>1, <1>2

\* A scan that has reached the end without a move has counted Up.
LEMMA QuietScanCountsUp ==
  ASSUME TypeOK, ScanInv, NEW x \in Readers, pos[x] = N + 1, ~moved[x]
  PROVE  out[x] = Up
<1>1. pos[x] # 0 /\ \A b \in Backend : b < pos[x]
  BY ConstantsOK
<1>2. out[x] = {b \in Backend : b < pos[x] /\ healthy[b]}
  BY <1>1 DEF ScanInv, QuietScanIsExact
<1>. QED  BY <1>1, <1>2 DEF Up

LEMMA ScanStep == TypeOK /\ ScanInv /\ [Next]_vars => ScanInv'
<1>. SUFFICES ASSUME TypeOK, ScanInv, [Next]_vars PROVE ScanInv'
  OBVIOUS
<1>. USE ConstantsOK
<1>1. ASSUME NEW h \in Handlers, BeginNext(h) PROVE ScanInv'
  BY <1>1 DEF BeginNext, BeginScan, checking, ScanInv, QuietScanIsExact, GaugesRead, Up, TypeOK
<1>2. ASSUME NEW h \in Handlers, PickNone(h) \/ PickOne(h) PROVE ScanInv'
  <2>1. /\ pos' = [pos EXCEPT ![h] = 0]
        /\ out' = out \/ out' = [out EXCEPT ![h] = {}]
        /\ UNCHANGED <<healthy, moved, hosts>>
    BY <1>2 DEF PickNone, PickOne, checking
  <2>2. GaugesRead'
    BY <2>1 DEF ScanInv, GaugesRead, Up
  <2>3. ASSUME NEW y \in Readers, pos'[y] # 0
        PROVE  pos'[y] = pos[y] /\ out'[y] = out[y]
    BY <2>1, <2>3 DEF TypeOK
  <2>. QED  BY <2>1, <2>2, <2>3 DEF ScanInv, QuietScanIsExact
<1>3. ASSUME NEW x \in Readers, LoadFlag(x) PROVE ScanInv'
  <2>1. GaugesRead'
    BY <1>3 DEF LoadFlag, checking, ScanInv, GaugesRead, Up
  <2>2. ASSUME NEW y \in Readers, pos'[y] # 0, ~moved'[y]
        PROVE  out'[y] = {b \in Backend : b < pos'[y] /\ healthy'[b]}
    <3>1. CASE y = x
      <4>1. /\ pos[x] \in Backend /\ pos'[x] = pos[x] + 1 /\ healthy' = healthy
            /\ moved' = moved
            /\ out'[x] = out[x] \cup (IF healthy[pos[x]] THEN {pos[x]} ELSE {})
        BY <1>3 DEF LoadFlag, checking, TypeOK
      <4>2. out[x] = {b \in Backend : b < pos[x] /\ healthy[b]}
        BY <2>2, <3>1, <4>1 DEF ScanInv, QuietScanIsExact
      <4>3. \A b \in Backend : b < pos[x] + 1 <=> b < pos[x] \/ b = pos[x]
        BY <4>1
      <4>. QED  BY <3>1, <4>1, <4>2, <4>3
    <3>2. CASE y # x
      BY <1>3, <2>2, <3>2 DEF LoadFlag, checking, ScanInv, QuietScanIsExact, TypeOK
    <3>. QED  BY <3>1, <3>2
  <2>. QED  BY <2>1, <2>2 DEF ScanInv, QuietScanIsExact
<1>4. CASE BeginGauges
  BY <1>4 DEF BeginGauges, BeginScan, checking, ScanInv, QuietScanIsExact, GaugesRead, Up, TypeOK
<1>5. CASE HealthyHosts
  <2>1. QuietScanIsExact'
    BY <1>5 DEF HealthyHosts, BeginScan, checking, ScanInv, QuietScanIsExact, TypeOK
  <2>2. ~moved[Flusher] => hosts'[1] = Cardinality(Up)
    BY <1>5, QuietScanCountsUp DEF HealthyHosts
  <2>. QED  BY <1>5, <2>1, <2>2 DEF HealthyHosts, checking, ScanInv, GaugesRead, Up
<1>6. CASE UnhealthyHosts
  <2>1. QuietScanIsExact'
    BY <1>6 DEF UnhealthyHosts, checking, ScanInv, QuietScanIsExact, TypeOK
  <2>2. ~moved[Flusher] => hosts'[2] = N - Cardinality(Up)
    BY <1>6, QuietScanCountsUp DEF UnhealthyHosts
  <2>3. hosts' = <<hosts[1], hosts'[2]>> /\ Len(hosts) \in {1, 2}
    BY <1>6 DEF UnhealthyHosts, TypeOK
  <2>4. GaugesRead'
    BY <1>6, <2>2, <2>3 DEF UnhealthyHosts, checking, ScanInv, GaugesRead, Up
  <2>. QED  BY <2>1, <2>4 DEF ScanInv
<1>7. CASE ProbeError \/ Probe5xx \/ ProbeOK
  <2>1. probe \in Backend
    BY <1>7 DEF ProbeError, Probe5xx, ProbeOK, TypeOK
  <2>. QED  BY <1>7, <2>1, StoreKeepsScans DEF ProbeError, Probe5xx, ProbeOK
<1>8. CASE Send \/ Answer \/ Tick \/ Stop \/ Cancel \/ UNCHANGED vars
  <2>1. UNCHANGED <<healthy, pos, out, hosts, moved>>
    BY <1>8 DEF Send, Answer, Tick, Stop, Cancel, vars, checking
  <2>. QED  BY <2>1 DEF ScanInv, QuietScanIsExact, GaugesRead, Up
<1>. QED  BY <1>1, <1>2, <1>3, <1>4, <1>5, <1>6, <1>7, <1>8 DEF Next, Probe

LEMMA ScanAlways == Spec => [](TypeOK /\ ScanInv)
BY TypeInit, TypeStep, ScanInit, ScanStep, PTL DEF Spec

\* An undisturbed scan is a true snapshot of the flags (backend.go:47-67).
THEOREM QuietScansExact == Spec => []QuietScanIsExact
BY ScanAlways, PTL DEF ScanInv

\* The two host gauges of an undisturbed snapshot add up (metrics.go:143-144).
THEOREM GaugesSumToBackends == Spec => []GaugesAddUp
<1>1. TypeOK /\ ScanInv => GaugesAddUp
  <2>. SUFFICES ASSUME TypeOK, ScanInv, Len(hosts) = 2, ~moved[Flusher]
                PROVE  hosts[1] + hosts[2] = N
    BY DEF GaugesAddUp
  <2>1. hosts[1] = Cardinality(Up) /\ hosts[2] = N - Cardinality(Up)
    BY DEF ScanInv, GaugesRead
  <2>2. Cardinality(Up) \in 0 .. N
    BY ListSize DEF Up
  <2>. QED  BY <2>1, <2>2, ConstantsOK
<1>. QED  BY <1>1, ScanAlways, PTL

\* A probe that can still answer after hcCancel was on its way before it.
LateInv == cancelled /\ answer \in {"sent", "ok"} => late = probe

LEMMA LateStep == TypeOK /\ LateInv /\ [Next]_vars => LateInv'
<1>. SUFFICES ASSUME TypeOK, LateInv, [Next]_vars PROVE LateInv'
  OBVIOUS
<1>1. CASE Send
  BY <1>1 DEF Send, LateInv
<1>2. CASE Answer
  BY <1>2 DEF Answer, LateInv
<1>3. CASE ProbeError \/ Probe5xx \/ ProbeOK
  BY <1>3 DEF ProbeError, Probe5xx, ProbeOK, Store, LateInv
<1>4. CASE Tick \/ Stop
  <2>1. answer = "unsent" /\ answer' = answer
    BY <1>4, ConstantsOK DEF Tick, Stop, TypeOK
  <2>. QED  BY <2>1 DEF LateInv
<1>5. CASE Cancel
  BY <1>5 DEF Cancel, LateInv
<1>6. CASE UNCHANGED checking
  BY <1>6 DEF checking, LateInv
<1>. QED
  BY <1>1, <1>2, <1>3, <1>4, <1>5, <1>6 DEF Next, Probe, BeginNext, PickNone, PickOne,
     LoadFlag, BeginGauges, HealthyHosts, UnhealthyHosts, vars

(***************************************************************************)
(* Once hcCancel was called (app.go:94-95) a backend comes back only       *)
(* through the probe that was on its way at that moment.                   *)
(***************************************************************************)
THEOREM NoLaterRecovery == Spec => OneLateRecovery
<1>1. Init => LateInv
  BY DEF Init, LateInv
<1>2. TypeOK /\ LateInv /\ [Next]_vars =>
        [cancelled => \A b \in Backend : healthy'[b] /\ ~healthy[b] => b = late]_vars
  <2>. SUFFICES ASSUME TypeOK, LateInv, Next, cancelled,
                       NEW b \in Backend, healthy'[b], ~healthy[b]
                PROVE  b = late
    OBVIOUS
  <2>1. CASE healthy' = healthy
    BY <2>1
  <2>2. CASE ProbeError \/ Probe5xx
    BY <2>2 DEF ProbeError, Probe5xx, Store, TypeOK
  <2>3. CASE ProbeOK
    BY <2>3 DEF ProbeOK, Store, TypeOK, LateInv
  <2>. QED
    BY <2>1, <2>2, <2>3 DEF Next, Probe, Send, Answer, BeginNext, PickNone, PickOne, LoadFlag,
       BeginGauges, HealthyHosts, UnhealthyHosts, Tick, Stop, Cancel, checking
<1>. QED  BY <1>1, <1>2, LateStep, TypeCorrect, PTL DEF Spec, OneLateRecovery
-----------------------------------------------------------------------------
(* Round robin.  The counter is only ever divided by the length of a list, *)
(* so what a step of it does to the remainder comes first.                 *)

LEMMA DivMod ==
  ASSUME NEW c \in Nat, NEW m \in Nat \ {0}
  PROVE  /\ c \div m \in Nat /\ c % m \in 0 .. m - 1
         /\ c = m * (c \div m) + (c % m)
OBVIOUS

LEMMA RemainderUnique ==
  ASSUME NEW m \in Nat \ {0}, NEW q \in Nat, NEW r \in 0 .. m - 1,
         NEW p \in Nat, NEW s \in 0 .. m - 1, m * q + r = m * p + s
  PROVE  r = s
<1>1. m * (q - p) = s - r
  OBVIOUS
<1>2. CASE q - p >= 1
  <2>1. m * (q - p) >= m
    BY <1>2
  <2>. QED  BY <1>1, <2>1
<1>3. CASE p - q >= 1
  <2>1. m * (p - q) >= m
    BY <1>3
  <2>. QED  BY <1>1, <2>1
<1>4. CASE p = q
  BY <1>4
<1>. QED  BY <1>2, <1>3, <1>4

\* The counter goes round the list.
LEMMA Turn ==
  ASSUME NEW c \in Nat, NEW m \in Nat \ {0}
  PROVE  (c + 1) % m = IF c % m = m - 1 THEN 0 ELSE (c % m) + 1
<1>. DEFINE q == c \div m
            r == c % m
            p == (c + 1) \div m
            s == (c + 1) % m
<1>1. q \in Nat /\ r \in 0 .. m - 1 /\ c = m * q + r
  BY DivMod
<1>2. p \in Nat /\ s \in 0 .. m - 1 /\ c + 1 = m * p + s
  BY DivMod, c + 1 \in Nat
<1>. HIDE DEF q, r, p, s
<1>3. CASE r = m - 1
  <2>1. m * (q + 1) + 0 = m * p + s
    BY <1>1, <1>2, <1>3
  <2>2. 0 = s
    BY <1>1, <1>2, <2>1, RemainderUnique, q + 1 \in Nat, 0 \in 0 .. m - 1
  <2>. QED  BY <1>3, <2>2 DEF r, s
<1>4. CASE r # m - 1
  <2>1. m * q + (r + 1) = m * p + s /\ r + 1 \in 0 .. m - 1
    BY <1>1, <1>2, <1>4
  <2>2. r + 1 = s
    BY <1>1, <1>2, <2>1, RemainderUnique
  <2>. QED  BY <1>4, <2>2 DEF r, s
<1>. QED  BY <1>3, <1>4

\* Where a backend stands in the list of a scan, from 0.
Rank(list, b) == Cardinality({a \in list : a < b})

LEMMA ListFinite ==
  ASSUME NEW list \in SUBSET Backend
  PROVE  IsFiniteSet(list) /\ Cardinality(list) \in Nat /\ (list # {} => Cardinality(list) > 0)
<1>1. IsFiniteSet(Backend)
  BY ConstantsOK, FS_Interval
<1>2. IsFiniteSet(list)
  BY <1>1, FS_Subset
<1>. QED  BY <1>2, FS_CardinalityType, FS_EmptySet

LEMMA RankBounded ==
  ASSUME NEW list \in SUBSET Backend, NEW b \in list
  PROVE  Rank(list, b) \in 0 .. Cardinality(list) - 1
<1>1. IsFiniteSet(list) /\ Cardinality(list) \in Nat
  BY ListFinite
<1>2. IsFiniteSet(list \ {b}) /\ Cardinality(list \ {b}) = Cardinality(list) - 1
  BY <1>1, FS_RemoveElement
<1>3. {a \in list : a < b} \subseteq list \ {b}
  BY ConstantsOK
<1>4. IsFiniteSet({a \in list : a < b})
      /\ Cardinality({a \in list : a < b}) <= Cardinality(list \ {b})
  BY <1>2, <1>3, FS_Subset
<1>. QED  BY <1>1, <1>2, <1>4, FS_CardinalityType DEF Rank

LEMMA RankIncreases ==
  ASSUME NEW list \in SUBSET Backend, NEW a \in list, NEW b \in list, a < b
  PROVE  Rank(list, a) < Rank(list, b)
<1>. DEFINE A == {x \in list : x < a}
            B == {x \in list : x < b}
<1>1. list \subseteq Nat
  BY ConstantsOK
<1>2. A \subseteq B /\ a \in B /\ a \notin A
  <2>1. \A x \in list : x \in Nat /\ (x < a => x < b) /\ ~(a < a)
    BY <1>1
  <2>. QED  BY <2>1
<1>3. IsFiniteSet(list) /\ B \subseteq list
  BY ListFinite
<1>4. IsFiniteSet(B)
  BY <1>3, FS_Subset
<1>5. IsFiniteSet(A) /\ Cardinality(A) <= Cardinality(B) /\ (Cardinality(A) = Cardinality(B) => A = B)
  BY <1>2, <1>4, FS_Subset
<1>6. Cardinality(A) \in Nat /\ Cardinality(B) \in Nat
  BY <1>4, <1>5, FS_CardinalityType
<1>7. Cardinality(A) < Cardinality(B)
  BY <1>2, <1>5, <1>6
<1>. QED  BY <1>7 DEF Rank

LEMMA RankInjective ==
  ASSUME NEW list \in SUBSET Backend, NEW a \in list, NEW b \in list, Rank(list, a) = Rank(list, b)
  PROVE  a = b
<1>1. a \in Nat /\ b \in Nat
  BY ConstantsOK
<1>2. Rank(list, a) \in Int /\ Rank(list, b) \in Int
  BY RankBounded, ListFinite
<1>3. ~(a < b) /\ ~(b < a)
  BY <1>2, RankIncreases
<1>. QED  BY <1>1, <1>3

\* Every index of the list is the rank of one of its backends: as many ranks as backends,
\* and no two the same.
LEMMA RankOnto ==
  ASSUME NEW list \in SUBSET Backend, NEW k \in 0 .. Cardinality(list) - 1
  PROVE  \E b \in list : Rank(list, b) = k
<1>. DEFINE m == Cardinality(list)
            T == 0 .. m - 1
            f == [b \in list |-> Rank(list, b)]
<1>1. m \in Nat /\ IsFiniteSet(list)
  BY ListFinite
<1>2. IsFiniteSet(T) /\ Cardinality(T) = m
  <2>. HIDE DEF m
  <2>1. IsFiniteSet(T) /\ Cardinality(T) = IF 0 > m - 1 THEN 0 ELSE (m - 1) - 0 + 1
    BY <1>1, FS_Interval
  <2>. QED  BY <1>1, <2>1
<1>3. f \in Injection(list, T)
  <2>1. f \in [list -> T]
    BY RankBounded
  <2>2. \A a, b \in list : f[a] = f[b] => a = b
    BY RankInjective
  <2>. HIDE DEF f, T
  <2>. QED  BY <2>1, <2>2, Fun_IsInj
<1>4. f \in Surjection(list, T)
  <2>. HIDE DEF f, T
  <2>. QED  BY <1>2, <1>3, FS_Injection DEF m
<1>5. \A t \in T : \E b \in list : f[b] = t
  <2>. HIDE DEF f, T
  <2>. QED  BY <1>4, Fun_SurjectionProperties
<1>. QED  BY <1>5

\* The backend at an index of the list is one of it, and the only one there.
LEMMA NthRank ==
  ASSUME NEW list \in SUBSET Backend, NEW k \in 0 .. Cardinality(list) - 1
  PROVE  Nth(list, k) \in list /\ Rank(list, Nth(list, k)) = k
<1>1. \E b \in list : Cardinality({a \in list : a < b}) = k
  BY RankOnto DEF Rank
<1>. QED  BY <1>1 DEF Nth, Rank

\* How many selections from the list come before the one that takes b, with the counter at c.
Ahead(list, c, b) ==
  LET r == Rank(list, b)
      p == c % Cardinality(list)
  IN  IF r >= p THEN r - p ELSE r + Cardinality(list) - p

\* Whoever comes sooner has been picked as often as whoever comes later, or once less.
SpreadInv ==
  /\ \A a \in Backend \ spread.list : spread.tally[a] = 0
  /\ \A a, b \in spread.list :
       Ahead(spread.list, counter, a) < Ahead(spread.list, counter, b) =>
         spread.tally[a] <= spread.tally[b] /\ spread.tally[b] <= spread.tally[a] + 1

LEMMA AheadType ==
  ASSUME NEW list \in SUBSET Backend, NEW c \in Nat, NEW b \in list
  PROVE  Ahead(list, c, b) \in 0 .. Cardinality(list) - 1
<1>1. Cardinality(list) \in Nat \ {0}
  BY ListFinite
<1>2. c % Cardinality(list) \in 0 .. Cardinality(list) - 1
  BY <1>1, DivMod
<1>3. Rank(list, b) \in 0 .. Cardinality(list) - 1
  BY RankBounded
<1>. QED  BY <1>1, <1>2, <1>3 DEF Ahead

LEMMA AheadInjective ==
  ASSUME NEW list \in SUBSET Backend, NEW c \in Nat, NEW a \in list, NEW b \in list,
         Ahead(list, c, a) = Ahead(list, c, b)
  PROVE  a = b
<1>1. Cardinality(list) \in Nat \ {0}
  BY ListFinite
<1>2. c % Cardinality(list) \in 0 .. Cardinality(list) - 1
  BY <1>1, DivMod
<1>3. Rank(list, a) \in 0 .. Cardinality(list) - 1 /\ Rank(list, b) \in 0 .. Cardinality(list) - 1
  BY RankBounded
<1>4. Rank(list, a) = Rank(list, b)
  BY <1>1, <1>2, <1>3 DEF Ahead
<1>. QED  BY <1>4, RankInjective

\* A selection takes the first one, which goes to the end; the others move up.
LEMMA AheadMoves ==
  ASSUME NEW list \in SUBSET Backend, NEW c \in Nat, NEW b \in list
  PROVE  /\ Nth(list, c % Cardinality(list)) \in list
         /\ Ahead(list, c, b) = 0 <=> b = Nth(list, c % Cardinality(list))
         /\ Ahead(list, c + 1, b) = IF b = Nth(list, c % Cardinality(list))
                                    THEN Cardinality(list) - 1
                                    ELSE Ahead(list, c, b) - 1
<1>. DEFINE m == Cardinality(list)
            p == c % m
            s == (c + 1) % m
            r == Rank(list, b)
<1>1. m \in Nat \ {0}
  BY ListFinite
<1>2. p \in 0 .. m - 1 /\ s = IF p = m - 1 THEN 0 ELSE p + 1
  BY <1>1, DivMod, Turn
<1>3. r \in 0 .. m - 1
  BY RankBounded
<1>4. Nth(list, p) \in list /\ Rank(list, Nth(list, p)) = p
  BY <1>2, NthRank
<1>5. b = Nth(list, p) <=> r = p
  BY <1>4, RankInjective
<1>6. /\ Ahead(list, c, b) = IF r >= p THEN r - p ELSE r + m - p
      /\ Ahead(list, c + 1, b) = IF r >= s THEN r - s ELSE r + m - s
  BY DEF Ahead
<1>7. Ahead(list, c, b) = 0 <=> r = p
  <2>. HIDE DEF m, p, s, r
  <2>. QED  BY <1>1, <1>2, <1>3, <1>6
<1>8. Ahead(list, c + 1, b) = IF r = p THEN m - 1 ELSE Ahead(list, c, b) - 1
  <2>. HIDE DEF m, p, s, r
  <2>. QED  BY <1>1, <1>2, <1>3, <1>6
<1>. QED  BY <1>4, <1>5, <1>7, <1>8

\* One more selection from the same list.
LEMMA PickAgain ==
  ASSUME TypeOK, SpreadInv, NEW h \in Handlers, PickOne(h), out[h] = spread.list
  PROVE  SpreadInv'
<1>. DEFINE list == spread.list
            t == spread.tally
            c == counter
            x == Nth(list, c % Cardinality(list))
<1>1. list \in SUBSET Backend /\ t \in [Backend -> Nat] /\ c \in Nat /\ list # {}
  BY DEF TypeOK, PickOne
<1>2. counter' = c + 1 /\ spread'.list = list /\ spread'.tally = [t EXCEPT ![x] = @ + 1]
  <2>1. counter' = counter + 1 /\ spread' = [spread EXCEPT !.tally[RoundRobin(out[h])] = @ + 1]
    BY DEF PickOne
  <2>2. spread \in [list : SUBSET Backend, tally : [Backend -> Nat]] /\ RoundRobin(out[h]) = x
    BY DEF TypeOK, RoundRobin
  <2>. HIDE DEF x
  <2>. QED  BY <2>1, <2>2
<1>3. x \in list
  BY <1>1, AheadMoves
<1>4. \A b \in list : /\ Ahead(list, c, b) \in 0 .. Cardinality(list) - 1
                      /\ Ahead(list, c, b) = 0 <=> b = x
                      /\ Ahead(list, c + 1, b) = IF b = x THEN Cardinality(list) - 1
                                                 ELSE Ahead(list, c, b) - 1
  BY <1>1, AheadMoves, AheadType
<1>5. Cardinality(list) \in Nat
  BY <1>1, ListFinite
<1>6. /\ \A b \in Backend \ list : t[b] = 0
      /\ \A a, b \in list : Ahead(list, c, a) < Ahead(list, c, b) => t[a] <= t[b] /\ t[b] <= t[a] + 1
  BY DEF SpreadInv
<1>. HIDE DEF list, t, c, x
<1>. DEFINE u == [t EXCEPT ![x] = @ + 1]
<1>7. u[x] = t[x] + 1 /\ \A b \in Backend : u[b] \in Nat /\ t[b] \in Nat /\ (b # x => u[b] = t[b])
  BY <1>1, <1>3
<1>8. spread'.tally = u
  BY <1>2
<1>. HIDE DEF u
<1>9. \A b \in Backend \ list : u[b] = 0
  BY <1>3, <1>6, <1>7
<1>10. ASSUME NEW a \in list, NEW b \in list, Ahead(list, c + 1, a) < Ahead(list, c + 1, b)
       PROVE  u[a] <= u[b] /\ u[b] <= u[a] + 1
  <2>1. a \in Backend /\ b \in Backend
    BY <1>1
  <2>2. a # x
    BY <1>4, <1>5, <1>10
  <2>3. CASE b = x
    <3>1. Ahead(list, c, b) < Ahead(list, c, a)
      BY <1>4, <1>5, <2>2, <2>3
    <3>2. t[b] <= t[a] /\ t[a] <= t[b] + 1
      BY <1>6, <3>1
    <3>. QED  BY <1>7, <2>1, <2>2, <2>3, <3>2
  <2>4. CASE b # x
    <3>1. Ahead(list, c, a) < Ahead(list, c, b)
      BY <1>4, <1>5, <1>10, <2>2, <2>4
    <3>. QED  BY <1>6, <1>7, <2>1, <2>2, <2>4, <3>1
  <2>. QED  BY <2>3, <2>4
<1>. QED  BY <1>2, <1>8, <1>9, <1>10 DEF SpreadInv

\* The first selection from another list.
LEMMA PickAfresh ==
  ASSUME TypeOK, NEW h \in Handlers, PickOne(h), out[h] # spread.list
  PROVE  SpreadInv'
<1>. DEFINE list == out[h]
            c == counter
            x == Nth(list, c % Cardinality(list))
            u == [a \in Backend |-> IF a = x THEN 1 ELSE 0]
<1>1. list \in SUBSET Backend /\ c \in Nat /\ list # {}
  BY DEF TypeOK, PickOne
<1>2. counter' = c + 1 /\ spread' = [list |-> list, tally |-> u]
  BY DEF PickOne, RoundRobin
<1>3. x \in list
  BY <1>1, AheadMoves
<1>4. \A b \in list : /\ Ahead(list, c, b) \in 0 .. Cardinality(list) - 1
                      /\ Ahead(list, c + 1, b) = IF b = x THEN Cardinality(list) - 1
                                                 ELSE Ahead(list, c, b) - 1
  BY <1>1, AheadMoves, AheadType
<1>5. Cardinality(list) \in Nat
  BY <1>1, ListFinite
<1>. HIDE DEF list, c, x
<1>6. \A a \in Backend : u[a] = IF a = x THEN 1 ELSE 0
  OBVIOUS
<1>. HIDE DEF u
<1>7. \A a \in Backend \ list : u[a] = 0
  BY <1>3, <1>6
<1>8. ASSUME NEW a \in list, NEW b \in list, Ahead(list, c + 1, a) < Ahead(list, c + 1, b)
      PROVE  u[a] <= u[b] /\ u[b] <= u[a] + 1
  <2>1. a # x
    BY <1>4, <1>5, <1>8
  <2>. QED  BY <1>1, <1>6, <2>1
<1>. QED  BY <1>2, <1>7, <1>8 DEF SpreadInv

LEMMA SpreadStep == TypeOK /\ SpreadInv /\ [Next]_vars => SpreadInv'
<1>. SUFFICES ASSUME TypeOK, SpreadInv, [Next]_vars PROVE SpreadInv'
  OBVIOUS
<1>1. ASSUME NEW h \in Handlers, PickOne(h) PROVE SpreadInv'
  BY <1>1, PickAgain, PickAfresh
<1>2. CASE UNCHANGED <<counter, spread>>
  BY <1>2 DEF SpreadInv
<1>3. ASSUME NEW h \in Handlers, BeginNext(h) \/ PickNone(h) PROVE UNCHANGED <<counter, spread>>
  BY <1>3 DEF BeginNext, PickNone, selecting
<1>4. ASSUME NEW x \in Readers, LoadFlag(x) PROVE UNCHANGED <<counter, spread>>
  BY <1>4 DEF LoadFlag, selecting
<1>5. CASE BeginGauges \/ HealthyHosts \/ UnhealthyHosts
  BY <1>2, <1>5 DEF BeginGauges, HealthyHosts, UnhealthyHosts, selecting
<1>6. CASE Probe \/ Tick \/ Stop \/ Cancel
  BY <1>2, <1>6 DEF Probe, Send, Answer, ProbeError, Probe5xx, ProbeOK, Store, Tick, Stop,
     Cancel, selecting
<1>7. CASE UNCHANGED vars
  BY <1>2, <1>7 DEF vars, selecting
<1>. QED  BY <1>1, <1>2, <1>3, <1>4, <1>5, <1>6, <1>7 DEF Next

LEMMA SpreadEven == ASSUME TypeOK, SpreadInv PROVE EvenSpread
<1>. DEFINE list == spread.list
            t == spread.tally
<1>1. list \in SUBSET Backend /\ t \in [Backend -> Nat] /\ counter \in Nat
  BY DEF TypeOK
<1>2. ASSUME NEW a \in Backend, a \notin list PROVE t[a] = 0
  BY <1>2 DEF SpreadInv
<1>3. ASSUME NEW a \in Backend, NEW b \in list PROVE t[a] <= t[b] + 1
  <2>1. t[a] \in Nat /\ t[b] \in Nat
    BY <1>1
  <2>2. CASE a \notin list
    BY <1>2, <2>1, <2>2
  <2>3. CASE a \in list /\ a # b
    <3>1. Ahead(list, counter, a) # Ahead(list, counter, b)
      BY <1>1, <2>3, AheadInjective
    <3>2. /\ Ahead(list, counter, a) \in 0 .. Cardinality(list) - 1
          /\ Ahead(list, counter, b) \in 0 .. Cardinality(list) - 1
      BY <1>1, <2>3, AheadType
    <3>3. Cardinality(list) \in Nat
      BY <1>1, ListFinite
    <3>4. \/ Ahead(list, counter, a) < Ahead(list, counter, b)
          \/ Ahead(list, counter, b) < Ahead(list, counter, a)
      BY <3>1, <3>2, <3>3
    <3>5. \/ t[a] <= t[b]
          \/ t[a] <= t[b] + 1
      BY <2>3, <3>4 DEF SpreadInv
    <3>. QED  BY <2>1, <3>5
  <2>4. CASE a = b
    BY <2>1, <2>4
  <2>. QED  BY <2>2, <2>3, <2>4
<1>. QED  BY <1>2, <1>3 DEF EvenSpread

(***************************************************************************)
(* The selections made from one and the same list, by whatever handlers,   *)
(* take its backends in turn (backend.go:37-56), for every number of       *)
(* backends and of handlers inside Next() at once.                         *)
(***************************************************************************)
THEOREM RoundRobinIsEven == Spec => []EvenSpread
<1>1. Init => SpreadInv
  BY DEF Init, SpreadInv
<1>2. TypeOK /\ SpreadInv => EvenSpread
  BY SpreadEven
<1>. QED  BY <1>1, <1>2, SpreadStep, TypeCorrect, PTL DEF Spec
-----------------------------------------------------------------------------
(* What a handler makes of its scan.                                       *)

QuietSelections ==
  [][\A h \in Handlers : ~moved[h] =>
       /\ PickOne(h)  => healthy[RoundRobin(out[h])]
       /\ PickNone(h) => \A b \in Backend : ~healthy[b]]_vars

(***************************************************************************)
(* A request is sent to a backend that is down, or answered with 503 while *)
(* one is up, only if a flag changed while its handler selected            *)
(* (backend.go:37-56, proxy.go's nil check): no interleaving of scans with *)
(* the counter, which other handlers move meanwhile, has that effect.      *)
(***************************************************************************)
THEOREM SelectionsAreSound == Spec => QuietSelections
<1>1. ASSUME TypeOK, ScanInv, NEW h \in Handlers, ~moved[h], PickOne(h)
      PROVE  healthy[RoundRobin(out[h])]
  <2>1. h \in Readers /\ pos[h] = N + 1 /\ out[h] # {}
    BY <1>1 DEF PickOne
  <2>2. out[h] = Up
    BY <1>1, <2>1, QuietScanCountsUp
  <2>3. out[h] \in SUBSET Backend /\ counter \in Nat
    BY <1>1, <2>1 DEF TypeOK
  <2>4. counter % Cardinality(out[h]) \in 0 .. Cardinality(out[h]) - 1
    BY <2>1, <2>3, ListFinite
  <2>5. RoundRobin(out[h]) \in out[h]
    BY <2>3, <2>4, NthRank DEF RoundRobin
  <2>. QED  BY <2>2, <2>5 DEF Up
<1>2. ASSUME TypeOK, ScanInv, NEW h \in Handlers, ~moved[h], PickNone(h), NEW b \in Backend
      PROVE  ~healthy[b]
  <2>1. h \in Readers /\ pos[h] = N + 1 /\ out[h] = {}
    BY <1>2 DEF PickNone
  <2>. QED  BY <1>2, <2>1, QuietScanCountsUp DEF Up
<1>3. TypeOK /\ ScanInv =>
        [\A h \in Handlers : ~moved[h] =>
           /\ PickOne(h)  => healthy[RoundRobin(out[h])]
           /\ PickNone(h) => \A b \in Backend : ~healthy[b]]_vars
  BY <1>1, <1>2
<1>. QED  BY <1>3, ScanAlways, PTL DEF QuietSelections
=============================================================================
