--------------------------- MODULE TelemetryLedger ---------------------------
(***************************************************************************)
(* What the load balancer promises about one kind of telemetry, whatever   *)
(* buffer, aggregator or flusher carries it: an item (an access-log        *)
(* document, or one request's share of a counter) is produced once, waits  *)
(* in memory, is taken by exactly one flush, and that flush's single call  *)
(* of Bulk either delivers it or loses it for good.  Nothing is retried,   *)
(* nothing is flushed twice, nothing disappears outside a flush.           *)
(*                                                                         *)
(* The detailed modules ElbMetrics and ElbApp implement this one: see      *)
(* their refinement mappings.                                              *)
(***************************************************************************)
CONSTANT Items          \* everything that may ever be reported

VARIABLE stage          \* where each item is

Stages == {"unborn", "pending", "taken", "delivered", "lost"}

Init == stage = [i \in Items |-> "unborn"]

\* Some items move from one stage to one of the given stages; the others stay.
Moves(from, to) ==
  LET old == stage
      new == stage'
  IN  \A i \in Items : new[i] # old[i] => old[i] = from /\ new[i] \in to

\* A request handler reports something: a counter it adds to, a document it appends.
Produce == Moves("unborn", {"pending"})

\* A flush swaps a buffer or a counter out: what waits there goes with it.
Take == Moves("pending", {"taken"})

\* The flush's call of Bulk ends: what Elasticsearch indexed is delivered, the
\* rest of the batch is lost, and no item of the batch is kept back.
Settle ==
  /\ Moves("taken", {"delivered", "lost"})
  /\ LET new == stage' IN \A i \in Items : new[i] # "taken"

Next ==
  /\ stage' \in [Items -> Stages]
  /\ Produce \/ Take \/ Settle

Step == UNCHANGED stage \/ Next

Spec == Init /\ [][Next]_stage
=============================================================================
