------------------------------- MODULE ElbApp -------------------------------
(***************************************************************************)
(* The load-balancer process (src/src/elb/app.go): its HTTP servers, the   *)
(* request handlers, the access-log buffers, the log and metric flushers,  *)
(* the Elasticsearch client, and the shutdown that App.Run drives through  *)
(* all of them.                                                            *)
(*                                                                         *)
(* A request that is handled leaves two items: its share of the metrics    *)
(* (RecordRequest, one step here; ElbMetrics has the cells one by one) and *)
(* then one access-log document.  The two flushers are separate goroutines *)
(* that visit the load balancers one after the other and hand what they    *)
(* took to one call of Bulk.                                               *)
(***************************************************************************)
EXTENDS Naturals, FiniteSets

CONSTANTS
  L,          \* number of configured load balancers
  Requests,   \* client connections, each with one request
  Upgrades    \* the requests a backend may answer with 101

ASSUME ConstantsOK ==
  /\ L \in Nat \ {0}          \* validateConfig refuses an empty list
  /\ Upgrades \subseteq Requests

LB    == 1 .. L
Kinds == {"log", "metric"}

\* A request is recorded once, and a second time when ErrorHandler runs after
\* ModifyResponse already did.
Items == Requests \X {1, 2}

VARIABLES
  app,        \* App.Run: "serving", "draining", "flushing", "exited"
  draining,   \* the load balancer whose Shutdown is running, L + 1 after the last
  deadline,   \* shutCtx: "none", "running", "expired"
  checking,   \* health checkers run until hcCancel
  flushCtx,   \* flushCtx is cancelled
  server,     \* per load balancer: "starting", "open", "failed", "shut"
  conn,       \* per request: where it is, see Stages
  home,       \* per request: its load balancer
  hijacked,   \* the requests whose connection has left its server
  waiting,    \* per kind and load balancer: items in the aggregator or buffer
  flusher,    \* per kind: [at, batch, final]
  delivered,  \* per kind: what Elasticsearch indexed
  lost,       \* per kind: what a call of Bulk did not get indexed
  due         \* history, per kind: what was in memory when flushCtx was cancelled

vars == <<app, draining, deadline, checking, flushCtx, server, conn, home,
          hijacked, waiting, flusher, delivered, lost, due>>
running   == <<app, draining, deadline, checking, flushCtx>>
serving   == <<server, conn, home, hijacked>>
reporting == <<waiting, flusher, delivered, lost, due>>

(***************************************************************************)
(* A request: none yet, connected (accepted, its header not read yet),     *)
(* active (inside handle()), counted (metrics recorded), logged (document  *)
(* appended); failed, recounted, relogged when ErrorHandler records it     *)
(* once more; over.                                                        *)
(***************************************************************************)
Inside == {"active", "counted", "logged", "failed", "recounted", "relogged"}
Stages == Inside \cup {"none", "connected", "over"}

\* A flusher waits in select (at = 0), visits load balancer at, or is in Bulk
\* (at = L + 1); "final" once it has seen ctx.Done; at = L + 2 when it is gone.
At(at, batch, final) == [at |-> at, batch |-> batch, final |-> final]
Gone == L + 2

Init ==
  /\ app = "serving"
  /\ draining = 0
  /\ deadline = "none"
  /\ checking = TRUE
  /\ flushCtx = FALSE
  /\ server = [l \in LB |-> "starting"]
  /\ conn = [r \in Requests |-> "none"]
  /\ home \in [Requests -> LB]
  /\ hijacked = {}
  /\ waiting = [k \in Kinds |-> [l \in LB |-> {}]]
  /\ flusher = [k \in Kinds |-> At(0, {}, FALSE)]
  /\ delivered = [k \in Kinds |-> {}]
  /\ lost = [k \in Kinds |-> {}]
  /\ due = [k \in Kinds |-> {}]
-----------------------------------------------------------------------------
(* The servers and their handlers.  The process is alive in every action.  *)

Alive == app # "exited"

\* ListenAndServe listens, or fails (the port is taken) and is only logged.
Start(l) ==
  /\ Alive
  /\ server[l] = "starting"
  /\ \E s \in {"open", "failed"} : server' = [server EXCEPT ![l] = s]
  /\ UNCHANGED <<running, conn, home, hijacked, reporting>>

Goes(r, from, to) ==
  /\ Alive
  /\ conn[r] = from
  /\ conn' = [conn EXCEPT ![r] = to]
  /\ UNCHANGED <<running, server, home>>

Passes(r, from, to) == Goes(r, from, to) /\ UNCHANGED <<hijacked, reporting>>

Produces(r, from, to, k, n) ==
  /\ Goes(r, from, to)
  /\ waiting' = [waiting EXCEPT ![k][home[r]] = @ \cup {<<r, n>>}]
  /\ UNCHANGED <<hijacked, flusher, delivered, lost, due>>

Accept(r) == server[home[r]] = "open" /\ Passes(r, "none", "connected")

\* The header is read and handle() runs, on a connection accepted earlier.
Begin(r) == Passes(r, "connected", "active")

\* The client hangs up, or Shutdown closes a connection that is silent.
Drop(r) == Passes(r, "connected", "over")

\* The 503 of handle, ModifyResponse or ErrorHandler: RecordRequest, then Append.
Record(r)    == Produces(r, "active", "counted", "metric", 1)
AppendDoc(r) == Produces(r, "counted", "logged", "log", 1)

\* A 101 answer, already recorded by ModifyResponse: the connection is taken from
\* the server, which from now on neither waits for it nor closes it.
Hijack(r) ==
  /\ r \in Upgrades \ hijacked
  /\ Goes(r, "logged", "logged")
  /\ hijacked' = hijacked \cup {r}
  /\ UNCHANGED reporting

\* The upgrade fails, before or after the hijack: ErrorHandler records it again.
UpgradeFails(r) == r \in Upgrades /\ Passes(r, "logged", "failed")
RecordAgain(r)  == Produces(r, "failed", "recounted", "metric", 2)
AppendAgain(r)  == Produces(r, "recounted", "relogged", "log", 2)

Finish(r) == Passes(r, "logged", "over") \/ Passes(r, "relogged", "over")

Handle(r) ==
  \/ Accept(r) \/ Begin(r) \/ Drop(r) \/ Record(r) \/ AppendDoc(r)
  \/ Hijack(r) \/ UpgradeFails(r) \/ RecordAgain(r) \/ AppendAgain(r)
  \/ Finish(r)
-----------------------------------------------------------------------------
(* The flushers: RunLogFlusher (k = "log") and RunMetricFlusher.           *)

SetFlusher(k, f) ==
  /\ flusher' = [flusher EXCEPT ![k] = f]
  /\ UNCHANGED <<running, serving>>

Tick(k) ==
  /\ Alive
  /\ flusher[k].at = 0
  /\ SetFlusher(k, At(1, {}, FALSE))
  /\ UNCHANGED <<waiting, delivered, lost, due>>

FinalFlushSkipped(k) ==                                                 \* mutant
  /\ Alive
  /\ flusher[k].at = 0
  /\ flushCtx
  /\ SetFlusher(k, At(Gone, {}, TRUE))
  /\ UNCHANGED <<waiting, delivered, lost, due>>

\* select takes ctx.Done: the same flush once more, then the goroutine returns.
FinalFlush(k) ==
  /\ Alive
  /\ flusher[k].at = 0
  /\ flushCtx
  /\ SetFlusher(k, At(1, {}, TRUE))
  /\ UNCHANGED <<waiting, delivered, lost, due>>

CollectFirstOnly(k) ==                                                  \* mutant
  LET f == flusher[k]
      l == f.at IN
  /\ Alive
  /\ l \in LB
  /\ SetFlusher(k, At(L + 1, f.batch \cup waiting[k][l], f.final))
  /\ waiting' = [waiting EXCEPT ![k][l] = {}]
  /\ UNCHANGED <<delivered, lost, due>>

\* Drain (logs) or Snapshot (metrics) of the next load balancer.
Collect(k) ==
  LET f == flusher[k]
      l == f.at IN
  /\ Alive
  /\ l \in LB
  /\ SetFlusher(k, At(l + 1, f.batch \cup waiting[k][l], f.final))
  /\ waiting' = [waiting EXCEPT ![k][l] = {}]
  /\ UNCHANGED <<delivered, lost, due>>

BulkKeepsRest(k, D) ==                                                  \* mutant
  LET f == flusher[k] IN
  /\ Alive
  /\ f.at = L + 1
  /\ D \subseteq f.batch
  /\ delivered' = [delivered EXCEPT ![k] = @ \cup D]
  /\ SetFlusher(k, At(IF f.final THEN Gone ELSE 0, f.batch \ D, f.final))
  /\ UNCHANGED <<waiting, lost, due>>

\* Bulk returns (an empty log batch is not sent at all).  Elasticsearch has
\* indexed the items of D; the rest of the batch is gone, whatever Bulk reports.
Bulk(k, D) ==
  LET f == flusher[k] IN
  /\ Alive
  /\ f.at = L + 1
  /\ D \subseteq f.batch
  /\ delivered' = [delivered EXCEPT ![k] = @ \cup D]
  /\ lost' = [lost EXCEPT ![k] = @ \cup (f.batch \ D)]
  /\ SetFlusher(k, At(IF f.final THEN Gone ELSE 0, {}, f.final))
  /\ UNCHANGED <<waiting, due>>
-----------------------------------------------------------------------------
(* App.Run after the signal.                                               *)

Signal ==
  /\ app = "serving"
  /\ app' = "draining"
  /\ draining' = 1
  /\ deadline' = "running"
  /\ server' = [server EXCEPT ![1] = "shut"]
  /\ UNCHANGED <<checking, flushCtx, conn, home, hijacked, reporting>>

\* The 15 s of shutCtx, one deadline for all load balancers together.
Expire ==
  /\ app = "draining"
  /\ deadline = "running"
  /\ deadline' = "expired"
  /\ UNCHANGED <<app, draining, checking, flushCtx, serving, reporting>>

QuietIgnoresActive(l) ==                                                \* mutant
  \A r \in Requests \ hijacked : home[r] = l => conn[r] # "connected"

\* Every connection the server still tracks is closed.
Quiet(l) ==
  \A r \in Requests \ hijacked : home[r] = l => conn[r] \in {"none", "over"}

ShutdownOvershoots ==                                                   \* mutant
  /\ app = "draining"
  /\ draining \in 0 .. L + 1
  /\ draining' = draining + 1
  /\ server' = [l \in LB |-> IF l = draining + 1 THEN "shut" ELSE server[l]]
  /\ UNCHANGED <<app, deadline, checking, flushCtx, conn, home, hijacked, reporting>>

ShutdownGivesUp ==                                                      \* mutant
  /\ app = "draining"
  /\ draining \in LB
  /\ Quiet(draining) \/ deadline = "expired"
  /\ draining' = IF Quiet(draining) THEN draining + 1 ELSE L + 1
  /\ server' = [l \in LB |-> IF l = draining' THEN "shut" ELSE server[l]]
  /\ UNCHANGED <<app, deadline, checking, flushCtx, conn, home, hijacked, reporting>>

ShutdownWaits ==                                                        \* mutant
  /\ app = "draining"
  /\ draining \in LB
  /\ Quiet(draining)
  /\ draining' = draining + 1
  /\ server' = [l \in LB |-> IF l = draining + 1 THEN "shut" ELSE server[l]]
  /\ UNCHANGED <<app, deadline, checking, flushCtx, conn, home, hijacked, reporting>>

\* Shutdown of one load balancer returns: its connections are closed, or the
\* deadline has passed; an error is only logged.  The next one's Shutdown starts
\* with closing its listener.
ShutdownNext ==
  /\ app = "draining"
  /\ draining \in LB
  /\ Quiet(draining) \/ deadline = "expired"
  /\ draining' = draining + 1
  /\ server' = [l \in LB |-> IF l = draining + 1 THEN "shut" ELSE server[l]]
  /\ UNCHANGED <<app, deadline, checking, flushCtx, conn, home, hijacked, reporting>>

InMemory(k) == flusher[k].batch \cup UNION {waiting[k][l] : l \in LB}

\* hcCancel, then flushCancel; flushWG.Wait begins.
CancelAll ==
  /\ app = "draining"
  /\ draining = L + 1
  /\ app' = "flushing"
  /\ checking' = FALSE
  /\ flushCtx' = TRUE
  /\ due' = [k \in Kinds |-> InMemory(k)]
  /\ UNCHANGED <<draining, deadline, serving, waiting, flusher, delivered, lost>>

\* Both flushers are gone: Run returns, main returns, every goroutine dies.
Exit ==
  /\ app = "flushing"
  /\ \A k \in Kinds : flusher[k].at = Gone
  /\ app' = "exited"
  /\ UNCHANGED <<draining, deadline, checking, flushCtx, serving, reporting>>

Flush(k) == Tick(k) \/ FinalFlush(k) \/ Collect(k) \/ \E D \in SUBSET Items : Bulk(k, D)

Run == Signal \/ Expire \/ ShutdownNext \/ CancelAll \/ Exit

Next ==
  \/ \E l \in LB : Start(l)
  \/ \E r \in Requests : Handle(r)
  \/ \E k \in Kinds : Flush(k)
  \/ Run

Spec == Init /\ [][Next]_vars

(***************************************************************************)
(* App.Run and the flushers keep running; the deadline passes; every call  *)
(* of Bulk ends (its client has a timeout of 30 s).  A flush can outlast   *)
(* the 5 s of the ticker, so the ticker may be ready at every select: that *)
(* ctx.Done is taken in the end is the random choice of Go's select, a     *)
(* strong fairness.  Clients and backends owe nothing, and no signal need  *)
(* ever come.                                                              *)
(***************************************************************************)
FairSpec ==
  /\ Spec
  /\ WF_vars(Expire) /\ WF_vars(ShutdownNext) /\ WF_vars(CancelAll) /\ WF_vars(Exit)
  /\ \A k \in Kinds :
       /\ WF_vars(Tick(k)) /\ SF_vars(FinalFlush(k))
       /\ WF_vars(Collect(k)) /\ WF_vars(\E D \in SUBSET Items : Bulk(k, D))
-----------------------------------------------------------------------------
TypeOK ==
  /\ app \in {"serving", "draining", "flushing", "exited"}
  /\ draining \in 0 .. L + 1
  /\ deadline \in {"none", "running", "expired"}
  /\ checking \in BOOLEAN
  /\ flushCtx \in BOOLEAN
  /\ server \in [LB -> {"starting", "open", "failed", "shut"}]
  /\ conn \in [Requests -> Stages]
  /\ home \in [Requests -> LB]
  /\ hijacked \in SUBSET Upgrades
  /\ waiting \in [Kinds -> [LB -> SUBSET Items]]
  /\ flusher \in [Kinds -> [at : 0 .. Gone, batch : SUBSET Items, final : BOOLEAN]]
  /\ delivered \in [Kinds -> SUBSET Items]
  /\ lost \in [Kinds -> SUBSET Items]
  /\ due \in [Kinds -> SUBSET Items]

Settled(k) == delivered[k] \cup lost[k]

(***************************************************************************)
(* The sequence documented at app.go:54-59: when the health checkers are   *)
(* stopped no load balancer accepts connections, and none starts to, not   *)
(* even one whose goroutine first ran after the signal, or when the        *)
(* deadline passed while an earlier one was still draining.                *)
(***************************************************************************)
StoppedBeforeCheckers == ~checking => \A l \in LB : server[l] = "shut"

(***************************************************************************)
(* The final flush misses nothing: whatever was in a buffer, an aggregator *)
(* or a batch when flushCtx was cancelled has gone through Bulk when the   *)
(* process ends, also when a periodic flush was under way at that moment.  *)
(***************************************************************************)
FinalFlushTakesAll == app = "exited" => \A k \in Kinds : due[k] \subseteq Settled(k)

(***************************************************************************)
(* If the servers drained within the deadline, the process ends with       *)
(* nothing unreported in memory, except what a hijacked connection, which  *)
(* Shutdown does not wait for, recorded too late.                          *)
(***************************************************************************)
CleanDrainLosesNothing ==
  app = "exited" /\ deadline = "running" =>
    \A k \in Kinds : \A i \in InMemory(k) : i[1] \in hijacked

(***************************************************************************)
(* Logs and metrics each keep the promise of the telemetry ledger.         *)
(***************************************************************************)
Place(k, i) ==
  IF \E l \in LB : i \in waiting[k][l] THEN "pending"
  ELSE IF i \in flusher[k].batch THEN "taken"
  ELSE IF i \in delivered[k] THEN "delivered"
  ELSE IF i \in lost[k] THEN "lost"
  ELSE "unborn"

Ledger(k) == INSTANCE TelemetryLedger WITH stage <- [i \in Items |-> Place(k, i)]

KeepsLedger ==
  /\ \A k \in Kinds : Ledger(k)!Init
  /\ [][\A k \in Kinds : Ledger(k)!Step]_vars

(***************************************************************************)
(* A signalled process ends, even if a client never finishes its request,  *)
(* a backend never answers and Elasticsearch refuses everything.           *)
(***************************************************************************)
ShutdownEnds == (app = "draining") ~> (app = "exited")

(***************************************************************************)
(* Everything recorded is handed to Elasticsearch while the process lives. *)
(***************************************************************************)
EventuallyReported ==
  \A k \in Kinds : \A i \in Items :
    i \in InMemory(k) ~> (i \in Settled(k) \/ app = "exited")
=============================================================================
