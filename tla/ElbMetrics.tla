----------------------------- MODULE ElbMetrics -----------------------------
(***************************************************************************)
(* The metric aggregator of one load balancer (src/src/elb/metrics.go) and *)
(* the goroutine that flushes it (flusher.go).                             *)
(*                                                                         *)
(* lbAgg is a row of independent atomics plus one mutex-protected section, *)
(* so neither RecordRequest nor Snapshot is atomic: a handler adds to its  *)
(* cells one after the other while the flusher swaps the cells to zero one *)
(* after the other.  Each Add, each Swap and the mutex section is one step *)
(* here.                                                                   *)
(*                                                                         *)
(* A cell holds a sum.  The model keeps the set of RecordRequest calls     *)
(* that make up that sum, so "nothing is counted twice or forgotten" is a  *)
(* statement about sets; the number the code holds is the cardinality (for *)
(* bytes and seconds, the sum over the set).                               *)
(***************************************************************************)
EXTENDS Naturals, FiniteSets

CONSTANTS
  Requests,      \* the requests that reach handle()
  Outcomes,      \* per request, what may happen to it
  Accepted,      \* the sets of metrics one Bulk call may get indexed
  Audited        \* the cells CellsKeepLedger looks at

(***************************************************************************)
(* What RecordRequest is told.  target: a backend was selected             *)
(* (backendURL # ""); own: the load balancer made the answer itself        *)
(* (isProxyError); timed: a response time is passed (targetSec >= 0).      *)
(***************************************************************************)
NoBackend    == [status |-> 503, target |-> FALSE, own |-> TRUE, timed |-> FALSE]
BackendDown  == [status |-> 502, target |-> TRUE, own |-> TRUE, timed |-> FALSE]
Answer(code) == [status |-> code, target |-> TRUE, own |-> FALSE, timed |-> TRUE]

Unset        == [status |-> 0, target |-> FALSE, own |-> FALSE, timed |-> FALSE]

AllOutcomes ==
  {NoBackend, BackendDown} \cup {Answer(code) : code \in {101, 200, 302, 404, 500, 503}}

(***************************************************************************)
(* The cells of lbAgg in the order Snapshot empties them.  "target" is the *)
(* section under the mutex: trtSum, trtCount, trtMax and perBackend.       *)
(***************************************************************************)
SnappedCountFirst == <<"requestCount", "target", "processedBytes", "elb3xx", "elb4xx",
             "elb5xx", "elb503", "tgt2xx", "tgt3xx", "tgt4xx">>        \* mutant
SnappedCountLast == <<"target", "elb5xx", "processedBytes", "elb3xx", "elb4xx",
             "elb503", "tgt2xx", "tgt3xx", "tgt4xx", "requestCount">>  \* mutant
Snapped == <<"target", "requestCount", "processedBytes", "elb3xx", "elb4xx",
             "elb5xx", "elb503", "tgt2xx", "tgt3xx", "tgt4xx">>
Cells   == {"target", "requestCount", "processedBytes", "elb3xx", "elb4xx",
            "elb5xx", "elb503", "tgt2xx", "tgt3xx", "tgt4xx"}

Buckets == {"elb3xx", "elb4xx", "elb5xx", "elb503", "tgt2xx", "tgt3xx", "tgt4xx"}

\* The switch of RecordRequest: the first case that applies; 1xx counts nowhere.
Bucket(o) ==
  IF o.status = 503 /\ ~o.target THEN {"elb503"}
  ELSE IF o.own /\ o.status >= 500 THEN {"elb5xx"}
  ELSE IF o.own /\ o.status >= 400 THEN {"elb4xx"}
  ELSE IF o.own /\ o.status >= 300 THEN {"elb3xx"}
  ELSE IF o.status >= 500 THEN {"elb5xx"}
  ELSE IF o.status >= 400 THEN {"tgt4xx"}
  ELSE IF o.status >= 300 THEN {"tgt3xx"}
  ELSE IF o.status >= 200 THEN {"tgt2xx"}
  ELSE {}

\* The section under the mutex is entered for answers of a backend only.
Timing(o) == IF o.timed /\ o.target THEN {"target"} ELSE {}

\* A handler calls RecordRequest once, and a second time when ErrorHandler runs
\* after ModifyResponse already did (a failed protocol upgrade).
Calls == Requests \X {1, 2}

ASSUME ConstantsOK ==
  /\ Outcomes \in [Requests -> SUBSET AllOutcomes]
  /\ Accepted \subseteq SUBSET Cells
  /\ Audited \subseteq Cells

VARIABLES
  handler,    \* per request: "fresh", "inside" handle(), "gone"
  inFlight,   \* lbAgg.inFlight
  step,       \* per call of RecordRequest: the next thing it does
  outcome,    \* per call of RecordRequest: its arguments
  agg,        \* per cell: the calls whose Add is in the cell now
  slot,       \* flusher: 0 waiting, 1..10 the next cell to swap, 11 before Bulk
  snap,       \* per cell: the calls in the snapshot being built
  delivered,  \* per cell: the calls Elasticsearch has indexed
  lost        \* per cell: the calls of windows Bulk did not get indexed

vars == <<handler, inFlight, step, outcome, agg, slot, snap, delivered, lost>>
handling == <<handler, inFlight, step, outcome>>
flushing == <<slot, snap, delivered, lost>>

Empty == [cell \in Cells |-> {}]

Init ==
  /\ handler = [r \in Requests |-> "fresh"]
  /\ inFlight = 0
  /\ step = [c \in Calls |-> "idle"]
  /\ outcome = [c \in Calls |-> Unset]
  /\ agg = Empty
  /\ slot = 0
  /\ snap = Empty
  /\ delivered = Empty
  /\ lost = Empty
-----------------------------------------------------------------------------
(* The request handlers.                                                   *)

EnterUncounted(r) ==                                                    \* mutant
  /\ handler[r] = "fresh"
  /\ handler' = [handler EXCEPT ![r] = "inside"]
  /\ UNCHANGED <<inFlight, step, outcome, agg, flushing>>

\* handle() is entered: the gauge goes up.
Enter(r) ==
  /\ handler[r] = "fresh"
  /\ handler' = [handler EXCEPT ![r] = "inside"]
  /\ inFlight' = inFlight + 1
  /\ UNCHANGED <<step, outcome, agg, flushing>>

\* The request's fate is known: no healthy backend, an error, or an answer.
Resolve(r, o) ==
  /\ o \in Outcomes[r]
  /\ handler[r] = "inside"
  /\ step[<<r, 1>>] = "idle"
  /\ step' = [step EXCEPT ![<<r, 1>>] = "count"]
  /\ outcome' = [outcome EXCEPT ![<<r, 1>>] = o]
  /\ UNCHANGED <<handler, inFlight, agg, flushing>>

\* A 101 answer has gone through ModifyResponse; switching protocols then fails,
\* and the reverse proxy calls ErrorHandler for the same request.
UpgradeFails(r) ==
  /\ handler[r] = "inside"
  /\ step[<<r, 1>>] = "done"
  /\ outcome[<<r, 1>>].status = 101
  /\ step[<<r, 2>>] = "idle"
  /\ step' = [step EXCEPT ![<<r, 2>>] = "count"]
  /\ outcome' = [outcome EXCEPT ![<<r, 2>>] = BackendDown]
  /\ UNCHANGED <<handler, inFlight, agg, flushing>>

\* One step of RecordRequest: the call c is added to the cells of S.
Add(c, S, from, to) ==
  /\ step[c] = from
  /\ step' = [step EXCEPT ![c] = to]
  /\ agg' = [cell \in Cells |-> IF cell \in S THEN agg[cell] \cup {c} ELSE agg[cell]]
  /\ UNCHANGED <<handler, inFlight, outcome, flushing>>

AddCount(c)  == Add(c, {"requestCount"}, "count", "bytes")
AddBytes(c)  == Add(c, {"processedBytes"}, "bytes", "bucket")
AddBucket(c) == Add(c, Bucket(outcome[c]), "bucket", "timing")
AddTiming(c) == Add(c, Timing(outcome[c]), "timing", "done")

RecordRequest(c) == AddCount(c) \/ AddBytes(c) \/ AddBucket(c) \/ AddTiming(c)

\* handle() returns, or panics while it copies the body: the deferred InFlightDec.
Leave(r) ==
  /\ handler[r] = "inside"
  /\ step[<<r, 1>>] = "done"
  /\ step[<<r, 2>>] \in {"idle", "done"}
  /\ handler' = [handler EXCEPT ![r] = "gone"]
  /\ inFlight' = inFlight - 1
  /\ UNCHANGED <<step, outcome, agg, flushing>>
-----------------------------------------------------------------------------
(* The metric flusher.                                                     *)

\* The ticker fires, or the flush context ends: Snapshot begins.
Tick ==
  /\ slot = 0
  /\ slot' = 1
  /\ UNCHANGED <<handling, agg, snap, delivered, lost>>

SwapWithoutReset ==                                                     \* mutant
  /\ slot \in 1 .. 10
  /\ snap' = [snap EXCEPT ![Snapped[slot]] = agg[Snapped[slot]]]
  /\ slot' = slot + 1
  /\ UNCHANGED <<handling, agg, delivered, lost>>

\* Snapshot swaps its next cell to zero.
SwapCell ==
  /\ slot \in 1 .. 10
  /\ snap' = [snap EXCEPT ![Snapped[slot]] = agg[Snapped[slot]]]
  /\ agg' = [agg EXCEPT ![Snapped[slot]] = {}]
  /\ slot' = slot + 1
  /\ UNCHANGED <<handling, delivered, lost>>

BulkRequeues(D) ==                                                      \* mutant
  /\ slot = 11
  /\ delivered' = [cell \in Cells |->
       IF cell \in D THEN delivered[cell] \cup snap[cell] ELSE delivered[cell]]
  /\ agg' = [cell \in Cells |->
       IF cell \in D THEN agg[cell] ELSE agg[cell] \cup snap[cell]]
  /\ snap' = Empty
  /\ slot' = 0
  /\ UNCHANGED <<handling, lost>>

\* Bulk returns.  Elasticsearch indexed the documents of the metrics in D, which
\* are all of them, none, or some; whatever Bulk reports, nothing is retried.
Bulk(D) ==
  /\ slot = 11
  /\ delivered' = [cell \in Cells |->
       IF cell \in D THEN delivered[cell] \cup snap[cell] ELSE delivered[cell]]
  /\ lost' = [cell \in Cells |->
       IF cell \in D THEN lost[cell] ELSE lost[cell] \cup snap[cell]]
  /\ snap' = Empty
  /\ slot' = 0
  /\ UNCHANGED <<handling, agg>>

Flusher == Tick \/ SwapCell \/ \E D \in Accepted : Bulk(D)

Next ==
  \/ \E r \in Requests : Enter(r) \/ UpgradeFails(r) \/ Leave(r)
  \/ \E r \in Requests, o \in AllOutcomes : Resolve(r, o)
  \/ \E c \in Calls : RecordRequest(c)
  \/ Flusher

Spec == Init /\ [][Next]_vars
-----------------------------------------------------------------------------
Steps == {"idle", "count", "bytes", "bucket", "timing", "done"}

TypeOK ==
  /\ handler \in [Requests -> {"fresh", "inside", "gone"}]
  /\ inFlight \in Nat
  /\ step \in [Calls -> Steps]
  /\ outcome \in [Calls -> AllOutcomes \cup {Unset}]
  /\ agg \in [Cells -> SUBSET Calls]
  /\ slot \in 0 .. 11
  /\ snap \in [Cells -> SUBSET Calls]
  /\ delivered \in [Cells -> SUBSET Calls]
  /\ lost \in [Cells -> SUBSET Calls]

Taken(cell) == snap[cell] \cup delivered[cell] \cup lost[cell]

\* What a call has added to so far.
Did(c, cell) ==
  \/ cell = "requestCount" /\ step[c] \in {"bytes", "bucket", "timing", "done"}
  \/ cell = "processedBytes" /\ step[c] \in {"bucket", "timing", "done"}
  \/ cell \in Bucket(outcome[c]) /\ step[c] \in {"timing", "done"}
  \/ cell \in Timing(outcome[c]) /\ step[c] = "done"

(***************************************************************************)
(* However Adds, Swaps and failing flushes interleave, what a call added   *)
(* to a cell is in exactly one place: the live cell, the snapshot under    *)
(* construction, a delivered window or a lost one.  This is what makes the *)
(* lock-free Swap(0) of Snapshot (metrics.go:128-137) sound.               *)
(***************************************************************************)
Conservation ==
  \A cell \in Cells :
    /\ {c \in Calls : Did(c, cell)} = agg[cell] \cup Taken(cell)
    /\ agg[cell] \cap Taken(cell) = {}
    /\ snap[cell] \cap (delivered[cell] \cup lost[cell]) = {}
    /\ delivered[cell] \cap lost[cell] = {}

(***************************************************************************)
(* Windows are torn: a request's status bucket, count and timing can fall  *)
(* in different windows.  But the per-target counts and response times     *)
(* never run ahead of the request count: summed over all windows closed so *)
(* far, RequestCountPerTarget <= RequestCount.  This rests on Snapshot     *)
(* reading the mutex section first while RecordRequest writes it last      *)
(* (metrics.go:77,108,117-129).                                            *)
(***************************************************************************)
TargetNeverAhead == slot = 0 => Taken("target") \subseteq Taken("requestCount")

(***************************************************************************)
(* A status bucket can be reported one window before its request is        *)
(* counted, never two: once the next snapshot has swapped requestCount,    *)
(* everything the earlier windows reported is counted.                     *)
(***************************************************************************)
CountCatchesUp ==
  slot = 3 => \A cell \in Buckets : Taken(cell) \subseteq Taken("requestCount")

(***************************************************************************)
(* Each cell keeps the promise of the telemetry ledger: what a call added  *)
(* waits, is taken by one flush, and is delivered or lost with it.         *)
(***************************************************************************)
Place(c, cell) ==
  IF c \in agg[cell] THEN "pending"
  ELSE IF c \in snap[cell] THEN "taken"
  ELSE IF c \in delivered[cell] THEN "delivered"
  ELSE IF c \in lost[cell] THEN "lost"
  ELSE "unborn"

Ledger(cell) == INSTANCE TelemetryLedger
                  WITH Items <- Calls, stage <- [c \in Calls |-> Place(c, cell)]

CellsKeepLedger ==
  /\ \A cell \in Audited : Ledger(cell)!Init
  /\ [][\A cell \in Audited : Ledger(cell)!Step]_vars

(***************************************************************************)
(* metricnames.go:14 documents the ELB5XX source as "ELB-generated 5xx".   *)
(***************************************************************************)
Elb5xxIsOwn == \A c \in agg["elb5xx"] : outcome[c].own
=============================================================================
