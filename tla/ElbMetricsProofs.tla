-------------------------- MODULE ElbMetricsProofs --------------------------
(***************************************************************************)
(* Proofs about ElbMetrics, for every set of requests, every assignment of *)
(* outcomes to them and every way a call of Bulk may succeed.              *)
(***************************************************************************)
EXTENDS ElbMetrics, FiniteSetTheorems, TLAPS

USE DEF Calls

-----------------------------------------------------------------------------
(* The order in which Snapshot empties the cells, and what a call adds to. *)

\* Snapshot empties only cells (metrics.go:117-137).
LEMMA SnappedInCells ==
  \A i \in 1 .. 10 : Snapped[i] \in Cells
BY DEF Snapped, Cells

\* Snapshot empties no cell twice.
LEMMA SnappedOnce ==
  \A i, j \in 1 .. 10 : Snapped[i] = Snapped[j] => i = j
BY DEF Snapped

\* Snapshot forgets no cell.
LEMMA SnappedAll ==
  \A cell \in Cells : \E i \in 1 .. 10 : Snapped[i] = cell
<1>1. /\ Snapped[1] = "target" /\ Snapped[2] = "requestCount"
      /\ Snapped[3] = "processedBytes" /\ Snapped[4] = "elb3xx"
      /\ Snapped[5] = "elb4xx" /\ Snapped[6] = "elb5xx"
      /\ Snapped[7] = "elb503" /\ Snapped[8] = "tgt2xx"
      /\ Snapped[9] = "tgt3xx" /\ Snapped[10] = "tgt4xx"
  BY DEF Snapped
<1>. QED  BY <1>1 DEF Cells

\* The status switch of RecordRequest adds to status buckets only.
LEMMA BucketInBuckets ==
  ASSUME NEW o
  PROVE  Bucket(o) \subseteq Buckets
BY DEF Bucket, Buckets

\* The mutex section adds to the "target" cell only.
LEMMA TimingInTarget ==
  ASSUME NEW o
  PROVE  Timing(o) \subseteq {"target"}
BY DEF Timing

\* Every step of RecordRequest adds its call to some cells and goes on.
LEMMA RecordAdds ==
  ASSUME NEW c, RecordRequest(c)
  PROVE  \E S \in SUBSET Cells, to \in Steps, from \in Steps : Add(c, S, from, to)
<1>1. CASE AddCount(c)
  BY <1>1 DEF AddCount, Cells, Steps
<1>2. CASE AddBytes(c)
  BY <1>2 DEF AddBytes, Cells, Steps
<1>3. CASE AddBucket(c)
  <2>1. Bucket(outcome[c]) \in SUBSET Cells
    BY BucketInBuckets DEF Buckets, Cells
  <2>. QED  BY <1>3, <2>1 DEF AddBucket, Steps
<1>4. CASE AddTiming(c)
  <2>1. Timing(outcome[c]) \in SUBSET Cells
    BY TimingInTarget DEF Cells
  <2>. QED  BY <1>4, <2>1 DEF AddTiming, Steps
<1>. QED  BY <1>1, <1>2, <1>3, <1>4 DEF RecordRequest

-----------------------------------------------------------------------------
(* Types, and the gauge of requests in flight.  That the gauge never goes  *)
(* below zero needs its exact meaning, so the two are proved together.     *)

InsideHandle == {r \in Requests : handler[r] = "inside"}

GaugeInv ==
  /\ TypeOK
  /\ IsFiniteSet(InsideHandle)
  /\ inFlight = Cardinality(InsideHandle)

LEMMA GaugeInit == Init => GaugeInv
<1>. SUFFICES ASSUME Init PROVE GaugeInv
  OBVIOUS
<1>1. TypeOK
  BY DEF Init, TypeOK, Empty, Steps, Unset
<1>2. InsideHandle = {}
  BY DEF Init, InsideHandle
<1>. QED  BY <1>1, <1>2, FS_EmptySet DEF GaugeInv, Init

LEMMA GaugeStep == GaugeInv /\ [Next]_vars => GaugeInv'
<1>. SUFFICES ASSUME GaugeInv, [Next]_vars PROVE GaugeInv'
  OBVIOUS
<1>. USE DEF GaugeInv
<1>1. ASSUME NEW r \in Requests, Enter(r) PROVE GaugeInv'
  <2>1. InsideHandle' = InsideHandle \cup {r} /\ r \notin InsideHandle
    BY <1>1 DEF Enter, InsideHandle, TypeOK
  <2>2. IsFiniteSet(InsideHandle') /\ inFlight' = Cardinality(InsideHandle')
    BY <1>1, <2>1, FS_AddElement DEF Enter
  <2>3. TypeOK'
    BY <1>1 DEF Enter, TypeOK, handling, flushing
  <2>. QED  BY <2>2, <2>3
<1>2. ASSUME NEW r \in Requests, Leave(r) PROVE GaugeInv'
  <2>1. InsideHandle' = InsideHandle \ {r} /\ r \in InsideHandle
    BY <1>2 DEF Leave, InsideHandle, TypeOK
  <2>2. IsFiniteSet(InsideHandle') /\ inFlight' = Cardinality(InsideHandle')
    BY <1>2, <2>1, FS_RemoveElement DEF Leave
  <2>3. inFlight' \in Nat
    BY <2>2, FS_CardinalityType
  <2>4. TypeOK'
    BY <1>2, <2>3 DEF Leave, TypeOK, flushing
  <2>. QED  BY <2>2, <2>4
<1>3. ASSUME handler' = handler, inFlight' = inFlight, TypeOK' PROVE GaugeInv'
  BY <1>3 DEF InsideHandle
<1>4. ASSUME NEW r \in Requests, UpgradeFails(r) PROVE GaugeInv'
  <2>1. TypeOK'
    BY <1>4 DEF UpgradeFails, TypeOK, flushing, Steps, AllOutcomes
  <2>. QED  BY <1>3, <1>4, <2>1 DEF UpgradeFails
<1>5. ASSUME NEW r \in Requests, NEW o \in AllOutcomes, Resolve(r, o) PROVE GaugeInv'
  <2>1. TypeOK'
    BY <1>5 DEF Resolve, TypeOK, flushing, Steps
  <2>. QED  BY <1>3, <1>5, <2>1 DEF Resolve
<1>6. ASSUME NEW c \in Calls, RecordRequest(c) PROVE GaugeInv'
  <2>1. PICK S \in SUBSET Cells, to \in Steps, from \in Steps : Add(c, S, from, to)
    BY <1>6, RecordAdds
  <2>2. TypeOK'
    BY <2>1 DEF Add, TypeOK, flushing
  <2>. QED  BY <1>3, <2>1, <2>2 DEF Add
<1>7. CASE Tick
  <2>1. TypeOK'
    BY <1>7 DEF Tick, TypeOK, handling
  <2>. QED  BY <1>3, <1>7, <2>1 DEF Tick, handling
<1>8. CASE SwapCell
  <2>1. TypeOK'
    BY <1>8, SnappedInCells DEF SwapCell, TypeOK, handling
  <2>. QED  BY <1>3, <1>8, <2>1 DEF SwapCell, handling
<1>9. ASSUME NEW D \in Accepted, Bulk(D) PROVE GaugeInv'
  <2>1. TypeOK'
    BY <1>9 DEF Bulk, TypeOK, handling, Empty
  <2>. QED  BY <1>3, <1>9, <2>1 DEF Bulk, handling
<1>10. CASE UNCHANGED vars
  <2>1. TypeOK'
    BY <1>10 DEF vars, TypeOK
  <2>. QED  BY <1>3, <1>10, <2>1 DEF vars
<1>. QED
  BY <1>1, <1>2, <1>4, <1>5, <1>6, <1>7, <1>8, <1>9, <1>10 DEF Next, Flusher

\* The fields stay in their types; in particular the gauge of requests in
\* flight never goes below zero.
THEOREM TypeCorrect == Spec => []TypeOK
<1>1. Spec => []GaugeInv
  BY GaugeInit, GaugeStep, PTL DEF Spec
<1>2. GaugeInv => TypeOK
  BY DEF GaugeInv
<1>. QED  BY <1>1, <1>2, PTL

-----------------------------------------------------------------------------
(* Conservation.  It is not inductive: Swap(0) overwrites a field of the   *)
(* snapshot, which loses nothing only because that field is still empty.   *)

NotYetSwapped == \A i \in 1 .. 10 : slot <= i => snap[Snapped[i]] = {}

\* What Conservation says of one cell.
Kept(cell) ==
  /\ {c \in Calls : Did(c, cell)} = agg[cell] \cup Taken(cell)
  /\ agg[cell] \cap Taken(cell) = {}
  /\ snap[cell] \cap (delivered[cell] \cup lost[cell]) = {}
  /\ delivered[cell] \cap lost[cell] = {}

LedgerInv ==
  /\ TypeOK
  /\ NotYetSwapped
  /\ \A cell \in Cells : Kept(cell)

LEMMA LedgerInit == Init => LedgerInv
<1>. SUFFICES ASSUME Init PROVE LedgerInv
  OBVIOUS
<1>1. TypeOK
  BY GaugeInit DEF GaugeInv
<1>2. NotYetSwapped
  BY SnappedInCells DEF Init, NotYetSwapped, Empty
<1>3. ASSUME NEW cell \in Cells PROVE Kept(cell)
  BY DEF Init, Kept, Taken, Did, Empty
<1>. QED  BY <1>1, <1>2, <1>3 DEF LedgerInv

\* A step that leaves cells and windows alone, and what every call did, too.
LEMMA LedgerUntouched ==
  ASSUME LedgerInv, TypeOK',
         UNCHANGED <<agg, snap, delivered, lost>>,
         slot' = slot \/ (slot = 0 /\ slot' = 1),
         \A c \in Calls, cell \in Cells : Did(c, cell)' <=> Did(c, cell)
  PROVE  LedgerInv'
<1>1. NotYetSwapped'
  <2>1. \A i \in 1 .. 10 : slot' <= i => slot <= i
    BY DEF LedgerInv, TypeOK
  <2>. QED  BY <2>1 DEF LedgerInv, NotYetSwapped
<1>2. ASSUME NEW cell \in Cells PROVE Kept(cell)'
  BY DEF LedgerInv, Kept, Taken
<1>. QED  BY <1>1, <1>2 DEF LedgerInv

\* A call that does something new is added to the cell it had not added to.
LEMMA LedgerAdd ==
  ASSUME LedgerInv, TypeOK',
         NEW c \in Calls, NEW S \in SUBSET Cells, NEW from \in Steps, NEW to \in Steps,
         Add(c, S, from, to),
         \A cell \in Cells : Did(c, cell)' <=> Did(c, cell) \/ cell \in S,
         \A cell \in S : ~Did(c, cell)
  PROVE  LedgerInv'
<1>1. NotYetSwapped'
  BY DEF LedgerInv, NotYetSwapped, Add, flushing
<1>2. \A d \in Calls, cell \in Cells : d # c => (Did(d, cell)' <=> Did(d, cell))
  BY DEF Add, Did, LedgerInv, TypeOK
<1>3. ASSUME NEW cell \in Cells PROVE Kept(cell)'
  <2>1. Taken(cell)' = Taken(cell)
    BY DEF Add, Taken, flushing
  <2>2. {d \in Calls : Did(d, cell)}' =
          {d \in Calls : Did(d, cell)} \cup (IF cell \in S THEN {c} ELSE {})
    BY <1>2
  <2>3. agg'[cell] = agg[cell] \cup (IF cell \in S THEN {c} ELSE {})
    BY DEF Add
  <2>4. cell \in S => c \notin Taken(cell)
    BY DEF LedgerInv, Kept
  <2>. QED  BY <2>1, <2>2, <2>3, <2>4 DEF LedgerInv, Kept, Add, flushing
<1>. QED  BY <1>1, <1>3 DEF LedgerInv

LEMMA LedgerStep == LedgerInv /\ TypeOK' /\ [Next]_vars => LedgerInv'
<1>. SUFFICES ASSUME LedgerInv, TypeOK', [Next]_vars PROVE LedgerInv'
  OBVIOUS
<1>. USE DEF LedgerInv
<1>1. ASSUME NEW r \in Requests, Enter(r) \/ Leave(r) PROVE LedgerInv'
  BY <1>1, LedgerUntouched DEF Enter, Leave, flushing, Did
<1>2. ASSUME NEW r \in Requests, UpgradeFails(r) PROVE LedgerInv'
  BY <1>2, LedgerUntouched DEF UpgradeFails, flushing, Did, TypeOK
<1>3. ASSUME NEW r \in Requests, NEW o \in AllOutcomes, Resolve(r, o) PROVE LedgerInv'
  BY <1>3, LedgerUntouched DEF Resolve, flushing, Did, TypeOK
<1>4. ASSUME NEW c \in Calls, AddCount(c) PROVE LedgerInv'
  <2>1. Bucket(outcome[c]) \subseteq Buckets /\ Timing(outcome[c]) \subseteq {"target"}
    BY BucketInBuckets, TimingInTarget
  <2>2. Add(c, {"requestCount"}, "count", "bytes") /\ UNCHANGED outcome
    BY <1>4 DEF AddCount, Add
  <2>3. step[c] = "count" /\ step'[c] = "bytes"
    BY <2>2 DEF Add, TypeOK
  <2>4. {"requestCount"} \in SUBSET Cells /\ "count" \in Steps /\ "bytes" \in Steps
    BY <2>1 DEF Cells, Steps, Buckets
  <2>5. \A cell \in Cells : Did(c, cell)' <=> Did(c, cell) \/ cell \in {"requestCount"}
    BY <2>2, <2>3 DEF Did
  <2>6. \A cell \in {"requestCount"} : ~Did(c, cell)
    BY <2>1, <2>3 DEF Did, Buckets
  <2>. QED  BY <2>2, <2>4, <2>5, <2>6, LedgerAdd
<1>5. ASSUME NEW c \in Calls, AddBytes(c) PROVE LedgerInv'
  <2>1. Bucket(outcome[c]) \subseteq Buckets /\ Timing(outcome[c]) \subseteq {"target"}
    BY BucketInBuckets, TimingInTarget
  <2>2. Add(c, {"processedBytes"}, "bytes", "bucket") /\ UNCHANGED outcome
    BY <1>5 DEF AddBytes, Add
  <2>3. step[c] = "bytes" /\ step'[c] = "bucket"
    BY <2>2 DEF Add, TypeOK
  <2>4. {"processedBytes"} \in SUBSET Cells /\ "bytes" \in Steps /\ "bucket" \in Steps
    BY <2>1 DEF Cells, Steps, Buckets
  <2>5. \A cell \in Cells : Did(c, cell)' <=> Did(c, cell) \/ cell \in {"processedBytes"}
    BY <2>2, <2>3 DEF Did
  <2>6. \A cell \in {"processedBytes"} : ~Did(c, cell)
    BY <2>1, <2>3 DEF Did, Buckets
  <2>. QED  BY <2>2, <2>4, <2>5, <2>6, LedgerAdd
<1>6. ASSUME NEW c \in Calls, AddBucket(c) PROVE LedgerInv'
  <2>1. Bucket(outcome[c]) \subseteq Buckets /\ Timing(outcome[c]) \subseteq {"target"}
    BY BucketInBuckets, TimingInTarget
  <2>2. Add(c, Bucket(outcome[c]), "bucket", "timing") /\ UNCHANGED outcome
    BY <1>6 DEF AddBucket, Add
  <2>3. step[c] = "bucket" /\ step'[c] = "timing"
    BY <2>2 DEF Add, TypeOK
  <2>4. Bucket(outcome[c]) \in SUBSET Cells /\ "bucket" \in Steps /\ "timing" \in Steps
    BY <2>1 DEF Cells, Steps, Buckets
  <2>5. \A cell \in Cells : Did(c, cell)' <=> Did(c, cell) \/ cell \in Bucket(outcome[c])
    BY <2>2, <2>3 DEF Did
  <2>6. \A cell \in Bucket(outcome[c]) : ~Did(c, cell)
    BY <2>1, <2>3 DEF Did, Buckets
  <2>. QED  BY <2>2, <2>4, <2>5, <2>6, LedgerAdd
<1>7. ASSUME NEW c \in Calls, AddTiming(c) PROVE LedgerInv'
  <2>1. Bucket(outcome[c]) \subseteq Buckets /\ Timing(outcome[c]) \subseteq {"target"}
    BY BucketInBuckets, TimingInTarget
  <2>2. Add(c, Timing(outcome[c]), "timing", "done") /\ UNCHANGED outcome
    BY <1>7 DEF AddTiming, Add
  <2>3. step[c] = "timing" /\ step'[c] = "done"
    BY <2>2 DEF Add, TypeOK
  <2>4. Timing(outcome[c]) \in SUBSET Cells /\ "timing" \in Steps /\ "done" \in Steps
    BY <2>1 DEF Cells, Steps, Buckets
  <2>5. \A cell \in Cells : Did(c, cell)' <=> Did(c, cell) \/ cell \in Timing(outcome[c])
    BY <2>2, <2>3 DEF Did
  <2>6. \A cell \in Timing(outcome[c]) : ~Did(c, cell)
    BY <2>1, <2>3 DEF Did, Buckets
  <2>. QED  BY <2>2, <2>4, <2>5, <2>6, LedgerAdd
<1>8. CASE Tick
  BY <1>8, LedgerUntouched DEF Tick, handling, Did
<1>9. CASE SwapCell
  <2>1. NotYetSwapped'
    BY <1>9, SnappedInCells, SnappedOnce DEF SwapCell, NotYetSwapped, TypeOK
  <2>2. ASSUME NEW cell \in Cells PROVE Kept(cell)'
    <3>1. {c \in Calls : Did(c, cell)}' = {c \in Calls : Did(c, cell)}
      BY <1>9 DEF SwapCell, handling, Did
    <3>2. CASE cell = Snapped[slot]
      <4>1. snap[cell] = {}
        BY <1>9, <3>2 DEF SwapCell, NotYetSwapped
      <4>. QED  BY <1>9, <3>1, <3>2, <4>1 DEF SwapCell, Kept, Taken, TypeOK
    <3>3. CASE cell # Snapped[slot]
      BY <1>9, <3>1, <3>3 DEF SwapCell, Kept, Taken, TypeOK
    <3>. QED  BY <3>2, <3>3
  <2>. QED  BY <2>1, <2>2
<1>10. ASSUME NEW D \in Accepted, Bulk(D) PROVE LedgerInv'
  <2>1. NotYetSwapped'
    BY <1>10, SnappedInCells DEF Bulk, NotYetSwapped, Empty
  <2>2. ASSUME NEW cell \in Cells PROVE Kept(cell)'
    <3>1. {c \in Calls : Did(c, cell)}' = {c \in Calls : Did(c, cell)}
      BY <1>10 DEF Bulk, handling, Did
    <3>. QED  BY <1>10, <3>1 DEF Bulk, Kept, Taken, Empty
  <2>. QED  BY <2>1, <2>2
<1>11. CASE UNCHANGED vars
  BY <1>11, LedgerUntouched DEF vars, Did
<1>. QED
  BY <1>1, <1>2, <1>3, <1>4, <1>5, <1>6, <1>7, <1>8, <1>9, <1>10, <1>11
  DEF Next, RecordRequest, Flusher

LEMMA LedgerAlways == Spec => []LedgerInv
BY TypeCorrect, LedgerInit, LedgerStep, PTL DEF Spec

\* What a call adds to a cell is in exactly one place, always (metrics.go:128-137).
THEOREM ConservationHolds == Spec => []Conservation
<1>1. LedgerInv => Conservation
  BY DEF LedgerInv, Kept, Conservation
<1>. QED  BY <1>1, LedgerAlways, PTL

-----------------------------------------------------------------------------
(* Torn windows.  Between the swap of "target" (slot 1) and the swap of    *)
(* "requestCount" (slot 2) the per-target counts may be ahead; the second  *)
(* swap catches up, because a call enters the mutex section last.          *)

TornInv == slot # 2 => Taken("target") \subseteq Taken("requestCount")

\* Whatever a call added to a status bucket or to "target", it was counted first.
LEMMA CountedFirst ==
  ASSUME LedgerInv, NEW cell \in Buckets \cup {"target"}
  PROVE  agg[cell] \cup Taken(cell) \subseteq agg["requestCount"] \cup Taken("requestCount")
<1>1. Kept(cell) /\ Kept("requestCount")
  BY DEF LedgerInv, Buckets, Cells
<1>2. \A c \in Calls : Did(c, cell) => Did(c, "requestCount")
  BY DEF Did, Buckets
<1>. QED  BY <1>1, <1>2 DEF Kept

\* Which windows a call has been flushed with changes only when a cell is swapped.
LEMMA TakenStep ==
  ASSUME LedgerInv, [Next]_vars, NEW cell \in Cells
  PROVE  Taken(cell)' = IF SwapCell /\ cell = Snapped[slot]
                        THEN Taken(cell) \cup agg[cell] ELSE Taken(cell)
<1>1. CASE SwapCell
  <2>1. cell = Snapped[slot] => snap[cell] = {}
    BY <1>1 DEF SwapCell, LedgerInv, NotYetSwapped
  <2>. QED  BY <1>1, <2>1 DEF SwapCell, Taken, LedgerInv, TypeOK
<1>2. CASE ~SwapCell
  <2>. SUFFICES Taken(cell)' = Taken(cell)
    BY <1>2
  <2>1. ASSUME UNCHANGED <<snap, delivered, lost>> PROVE Taken(cell)' = Taken(cell)
    BY <2>1 DEF Taken
  <2>2. ASSUME NEW D \in Accepted, Bulk(D) PROVE Taken(cell)' = Taken(cell)
    BY <2>2 DEF Bulk, Taken, Empty
  <2>3. CASE \E r \in Requests : Enter(r) \/ UpgradeFails(r) \/ Leave(r)
    BY <2>1, <2>3 DEF Enter, UpgradeFails, Leave, flushing
  <2>4. CASE \E r \in Requests, o \in AllOutcomes : Resolve(r, o)
    BY <2>1, <2>4 DEF Resolve, flushing
  <2>5. CASE \E c \in Calls : RecordRequest(c)
    BY <2>1, <2>5, RecordAdds DEF Add, flushing
  <2>6. CASE Tick
    BY <2>1, <2>6 DEF Tick
  <2>7. CASE UNCHANGED vars
    BY <2>1, <2>7 DEF vars
  <2>. QED  BY <1>2, <2>2, <2>3, <2>4, <2>5, <2>6, <2>7 DEF Next, Flusher
<1>. QED  BY <1>1, <1>2

\* The flusher moves on only by its own steps.
LEMMA SlotStep ==
  ASSUME LedgerInv, [Next]_vars
  PROVE  \/ slot' = slot /\ ~SwapCell
         \/ SwapCell /\ slot \in 1 .. 10 /\ slot' = slot + 1
         \/ slot = 0 /\ slot' = 1 /\ ~SwapCell
         \/ slot = 11 /\ slot' = 0 /\ ~SwapCell
<1>. slot \in 0 .. 11
  BY DEF LedgerInv, TypeOK
<1>1. CASE SwapCell
  BY <1>1 DEF SwapCell
<1>2. slot' = slot => ~SwapCell
  BY DEF SwapCell
<1>3. CASE \E r \in Requests : Enter(r) \/ UpgradeFails(r) \/ Leave(r)
  BY <1>2, <1>3 DEF Enter, UpgradeFails, Leave, flushing
<1>4. CASE \E r \in Requests, o \in AllOutcomes : Resolve(r, o)
  BY <1>2, <1>4 DEF Resolve, flushing
<1>5. CASE \E c \in Calls : RecordRequest(c)
  BY <1>2, <1>5, RecordAdds DEF Add, flushing
<1>6. CASE Tick
  BY <1>6 DEF Tick, SwapCell
<1>7. CASE \E D \in Accepted : Bulk(D)
  BY <1>7 DEF Bulk, SwapCell
<1>8. CASE UNCHANGED vars
  BY <1>2, <1>8 DEF vars
<1>. QED  BY <1>1, <1>3, <1>4, <1>5, <1>6, <1>7, <1>8 DEF Next, Flusher

LEMMA FirstTwo == Snapped[1] = "target" /\ Snapped[2] = "requestCount"
BY DEF Snapped

\* The step that swaps requestCount takes along every call an earlier swap took.
LEMMA SwapCountCatchesUp ==
  ASSUME LedgerInv, [Next]_vars, SwapCell, slot = 2,
         NEW cell \in Buckets \cup {"target"}
  PROVE  Taken(cell)' \subseteq Taken("requestCount")'
<1>1. cell \in Cells /\ cell # "requestCount" /\ "requestCount" \in Cells
  BY DEF Buckets, Cells
<1>2. Taken("requestCount")' = Taken("requestCount") \cup agg["requestCount"]
  BY <1>1, FirstTwo, TakenStep
<1>3. Taken(cell)' = Taken(cell)
  BY <1>1, FirstTwo, TakenStep
<1>. QED  BY <1>2, <1>3, CountedFirst

LEMMA TornStep == LedgerInv /\ TornInv /\ [Next]_vars => TornInv'
<1>. SUFFICES ASSUME LedgerInv, TornInv, [Next]_vars, slot' # 2
              PROVE  Taken("target")' \subseteq Taken("requestCount")'
  BY DEF TornInv
<1>0. "target" \in Cells /\ "requestCount" \in Cells
  BY DEF Cells
<1>1. CASE ~SwapCell
  <2>1. slot # 2
    BY <1>1, SlotStep
  <2>. QED  BY <1>0, <1>1, <2>1, TakenStep DEF TornInv
<1>2. CASE SwapCell /\ slot = 2
  BY <1>2, SwapCountCatchesUp
<1>3. CASE SwapCell /\ slot # 2
  <2>1. slot \in 3 .. 10
    BY <1>3, SlotStep
  <2>2. Snapped[slot] \notin {"target", "requestCount"}
    BY <2>1, FirstTwo, SnappedOnce
  <2>. QED  BY <1>0, <1>3, <2>2, TakenStep DEF TornInv
<1>. QED  BY <1>1, <1>2, <1>3

LEMMA CatchUpStep == LedgerInv /\ CountCatchesUp /\ [Next]_vars => CountCatchesUp'
<1>. SUFFICES ASSUME LedgerInv, CountCatchesUp, [Next]_vars, slot' = 3,
                     NEW cell \in Buckets
              PROVE  Taken(cell)' \subseteq Taken("requestCount")'
  BY DEF CountCatchesUp
<1>1. CASE SwapCell
  <2>1. slot = 2
    BY <1>1, SlotStep
  <2>. QED  BY <1>1, <2>1, SwapCountCatchesUp
<1>2. CASE ~SwapCell
  <2>1. slot = 3
    BY <1>2, SlotStep
  <2>2. cell \in Cells /\ "requestCount" \in Cells
    BY DEF Buckets, Cells
  <2>. QED  BY <1>2, <2>1, <2>2, TakenStep DEF CountCatchesUp
<1>. QED  BY <1>1, <1>2

\* Over all windows closed so far, no target was credited with a request that
\* requestCount has not reported (metrics.go:77,108,117-129).
THEOREM TargetStaysBehind == Spec => []TargetNeverAhead
<1>1. Init => TornInv
  BY DEF Init, TornInv, Taken, Empty, Cells
<1>2. Spec => []TornInv
  BY <1>1, TornStep, LedgerAlways, PTL DEF Spec
<1>3. TornInv => TargetNeverAhead
  BY DEF TornInv, TargetNeverAhead
<1>. QED  BY <1>2, <1>3, PTL

\* A status bucket is ahead of the count by one window at most.
THEOREM BucketsCaughtUp == Spec => []CountCatchesUp
<1>1. Init => CountCatchesUp
  BY DEF Init, CountCatchesUp
<1>. QED  BY <1>1, CatchUpStep, LedgerAlways, PTL DEF Spec

-----------------------------------------------------------------------------
(* Refinement: each cell keeps the promise of the telemetry ledger.        *)

\* Where a call is in one cell; the places are disjoint by Kept.
LEMMA PlaceInStages ==
  ASSUME NEW c, NEW cell
  PROVE  Place(c, cell) \in {"unborn", "pending", "taken", "delivered", "lost"}
BY DEF Place

LEMMA LedgerStutters ==
  ASSUME NEW cell \in Cells, \A c \in Calls : Place(c, cell)' = Place(c, cell)
  PROVE  Ledger(cell)!Step
BY DEF Ledger!Step

LEMMA LedgerProduces ==
  ASSUME NEW cell \in Cells,
         \A c \in Calls : Place(c, cell)' # Place(c, cell) =>
           Place(c, cell) = "unborn" /\ Place(c, cell)' = "pending"
  PROVE  Ledger(cell)!Step
BY PlaceInStages DEF Ledger!Step, Ledger!Next, Ledger!Produce, Ledger!Moves, Ledger!Stages

LEMMA LedgerTakes ==
  ASSUME NEW cell \in Cells,
         \A c \in Calls : Place(c, cell)' # Place(c, cell) =>
           Place(c, cell) = "pending" /\ Place(c, cell)' = "taken"
  PROVE  Ledger(cell)!Step
BY PlaceInStages DEF Ledger!Step, Ledger!Next, Ledger!Take, Ledger!Moves, Ledger!Stages

LEMMA LedgerSettles ==
  ASSUME NEW cell \in Cells,
         \A c \in Calls : Place(c, cell)' # Place(c, cell) =>
           Place(c, cell) = "taken" /\ Place(c, cell)' \in {"delivered", "lost"},
         \A c \in Calls : Place(c, cell)' # "taken"
  PROVE  Ledger(cell)!Step
BY PlaceInStages DEF Ledger!Step, Ledger!Next, Ledger!Settle, Ledger!Moves, Ledger!Stages

\* An Add moves its call from "unborn" to "pending", in the cells it adds to.
LEMMA AddKeepsLedger ==
  ASSUME LedgerInv, NEW cell \in Cells, NEW c \in Calls,
         NEW S \in SUBSET Cells, NEW from \in Steps, NEW to \in Steps,
         Add(c, S, from, to), cell \in S => ~Did(c, cell)
  PROVE  Ledger(cell)!Step
<1>1. Kept(cell)
  BY DEF LedgerInv
<1>2. UNCHANGED <<snap, delivered, lost>>
  BY DEF Add, flushing
<1>3. CASE cell \in S
  <2>1. agg'[cell] = agg[cell] \cup {c} /\ c \notin agg[cell] \cup Taken(cell)
    BY <1>1, <1>3 DEF Add, Kept
  <2>2. Place(c, cell) = "unborn" /\ Place(c, cell)' = "pending"
    BY <1>2, <2>1 DEF Place, Taken
  <2>3. \A d \in Calls : d # c => Place(d, cell)' = Place(d, cell)
    BY <1>2, <2>1 DEF Place
  <2>. QED  BY <2>2, <2>3, LedgerProduces
<1>4. CASE cell \notin S
  <2>1. agg'[cell] = agg[cell]
    BY <1>4 DEF Add
  <2>. QED  BY <1>2, <2>1, LedgerStutters DEF Place
<1>. QED  BY <1>3, <1>4

LEMMA RecordKeepsLedger ==
  ASSUME LedgerInv, NEW cell \in Cells, NEW c \in Calls, RecordRequest(c)
  PROVE  Ledger(cell)!Step
<1>0. Bucket(outcome[c]) \subseteq Buckets /\ Timing(outcome[c]) \subseteq {"target"}
  BY BucketInBuckets, TimingInTarget
<1>1. CASE AddCount(c)
  <2>1. step[c] = "count" /\ Add(c, {"requestCount"}, "count", "bytes")
    BY <1>1 DEF AddCount, Add
  <2>2. cell \in {"requestCount"} => ~Did(c, cell)
    BY <1>0, <2>1 DEF Did, Buckets
  <2>3. {"requestCount"} \in SUBSET Cells /\ "count" \in Steps /\ "bytes" \in Steps
    BY <1>0 DEF Cells, Steps, Buckets
  <2>. QED  BY <2>1, <2>2, <2>3, AddKeepsLedger
<1>2. CASE AddBytes(c)
  <2>1. step[c] = "bytes" /\ Add(c, {"processedBytes"}, "bytes", "bucket")
    BY <1>2 DEF AddBytes, Add
  <2>2. cell \in {"processedBytes"} => ~Did(c, cell)
    BY <1>0, <2>1 DEF Did, Buckets
  <2>3. {"processedBytes"} \in SUBSET Cells /\ "bytes" \in Steps /\ "bucket" \in Steps
    BY <1>0 DEF Cells, Steps, Buckets
  <2>. QED  BY <2>1, <2>2, <2>3, AddKeepsLedger
<1>3. CASE AddBucket(c)
  <2>1. step[c] = "bucket" /\ Add(c, Bucket(outcome[c]), "bucket", "timing")
    BY <1>3 DEF AddBucket, Add
  <2>2. cell \in Bucket(outcome[c]) => ~Did(c, cell)
    BY <1>0, <2>1 DEF Did, Buckets
  <2>3. Bucket(outcome[c]) \in SUBSET Cells /\ "bucket" \in Steps /\ "timing" \in Steps
    BY <1>0 DEF Cells, Steps, Buckets
  <2>. QED  BY <2>1, <2>2, <2>3, AddKeepsLedger
<1>4. CASE AddTiming(c)
  <2>1. step[c] = "timing" /\ Add(c, Timing(outcome[c]), "timing", "done")
    BY <1>4 DEF AddTiming, Add
  <2>2. cell \in Timing(outcome[c]) => ~Did(c, cell)
    BY <1>0, <2>1 DEF Did, Buckets
  <2>3. Timing(outcome[c]) \in SUBSET Cells /\ "timing" \in Steps /\ "done" \in Steps
    BY <1>0 DEF Cells, Steps, Buckets
  <2>. QED  BY <2>1, <2>2, <2>3, AddKeepsLedger
<1>. QED  BY <1>1, <1>2, <1>3, <1>4 DEF RecordRequest

\* A swap takes everything that is pending in its cell.
LEMMA SwapKeepsLedger ==
  ASSUME LedgerInv, NEW cell \in Cells, SwapCell
  PROVE  Ledger(cell)!Step
<1>1. Kept(cell)
  BY DEF LedgerInv
<1>2. CASE cell = Snapped[slot]
  <2>1. /\ snap[cell] = {} /\ snap'[cell] = agg[cell] /\ agg'[cell] = {}
        /\ UNCHANGED <<delivered, lost>>
    BY <1>2 DEF SwapCell, LedgerInv, NotYetSwapped, TypeOK
  <2>. QED  BY <1>1, <2>1, LedgerTakes DEF Place, Kept, Taken
<1>3. CASE cell # Snapped[slot]
  <2>1. /\ snap'[cell] = snap[cell] /\ agg'[cell] = agg[cell]
        /\ UNCHANGED <<delivered, lost>>
    BY <1>3 DEF SwapCell, LedgerInv, TypeOK
  <2>. QED  BY <2>1, LedgerStutters DEF Place
<1>. QED  BY <1>2, <1>3

\* Bulk settles the whole snapshot, whichever metrics were indexed.
LEMMA BulkKeepsLedger ==
  ASSUME LedgerInv, NEW cell \in Cells, NEW D, Bulk(D)
  PROVE  Ledger(cell)!Step
<1>1. Kept(cell)
  BY DEF LedgerInv
<1>2. /\ agg' = agg /\ snap'[cell] = {}
      /\ delivered'[cell] = IF cell \in D THEN delivered[cell] \cup snap[cell]
                            ELSE delivered[cell]
      /\ lost'[cell] = IF cell \in D THEN lost[cell] ELSE lost[cell] \cup snap[cell]
  BY DEF Bulk, Empty
<1>3. \A c \in Calls : Place(c, cell)' # "taken"
  BY <1>2 DEF Place
<1>4. \A c \in Calls : Place(c, cell)' # Place(c, cell) =>
        Place(c, cell) = "taken" /\ Place(c, cell)' \in {"delivered", "lost"}
  BY <1>1, <1>2 DEF Place, Kept, Taken
<1>. QED  BY <1>3, <1>4, LedgerSettles

LEMMA LedgerImplemented ==
  ASSUME LedgerInv, [Next]_vars, NEW cell \in Cells
  PROVE  Ledger(cell)!Step
<1>1. ASSUME UNCHANGED <<agg, snap, delivered, lost>> PROVE Ledger(cell)!Step
  BY <1>1, LedgerStutters DEF Place
<1>2. CASE \E r \in Requests : Enter(r) \/ UpgradeFails(r) \/ Leave(r)
  BY <1>1, <1>2 DEF Enter, UpgradeFails, Leave, flushing
<1>3. CASE \E r \in Requests, o \in AllOutcomes : Resolve(r, o)
  BY <1>1, <1>3 DEF Resolve, flushing
<1>4. CASE \E c \in Calls : RecordRequest(c)
  BY <1>4, RecordKeepsLedger
<1>5. CASE Tick
  BY <1>1, <1>5 DEF Tick
<1>6. CASE SwapCell
  BY <1>6, SwapKeepsLedger
<1>7. CASE \E D \in Accepted : Bulk(D)
  BY <1>7, BulkKeepsLedger
<1>8. CASE UNCHANGED vars
  BY <1>1, <1>8 DEF vars
<1>. QED  BY <1>2, <1>3, <1>4, <1>5, <1>6, <1>7, <1>8 DEF Next, Flusher

\* Every cell of the aggregator implements the telemetry ledger.
THEOREM CellsImplementLedger == Spec => CellsKeepLedger
<1>1. Init => \A cell \in Audited : Ledger(cell)!Init
  <2>. SUFFICES ASSUME Init, NEW cell \in Audited
                PROVE  \A c \in Calls : Place(c, cell) = "unborn"
    BY DEF Ledger!Init
  <2>. QED  BY ConstantsOK DEF Init, Place, Empty
<1>2. LedgerInv /\ [Next]_vars => [\A cell \in Audited : Ledger(cell)!Step]_vars
  BY LedgerImplemented, ConstantsOK
<1>. QED  BY <1>1, <1>2, LedgerAlways, PTL DEF Spec, CellsKeepLedger
=============================================================================
