----------------------------- MODULE BackendPool -----------------------------
(***************************************************************************)
(* The backend pool of one load balancer (src/src/elb/backend.go), its     *)
(* health checker (health.go), the handlers that select a backend and the  *)
(* metric flusher that reads the host gauges.                              *)
(*                                                                         *)
(* The only shared state is one atomic flag per backend and the            *)
(* round-robin counter; there is no lock.  Healthy() and HealthyCount()    *)
(* load the flags one by one while the checker stores them, so each load   *)
(* is a step of its own here.                                              *)
(***************************************************************************)
EXTENDS Naturals, Sequences, FiniteSets

CONSTANTS
  N,         \* number of configured backends
  Handlers,  \* request goroutines that may be in Next() at once
  Flusher,   \* the metric flusher, which reads HealthyCount and UnhealthyCount
  MaxPicks   \* bound of the exploration: no new Next() once counter is there

ASSUME ConstantsOK ==
  /\ N \in Nat \ {0}          \* validateConfig refuses an empty list
  /\ Flusher \notin Handlers
  /\ MaxPicks \in Nat

Backend == 1 .. N
Readers == Handlers \cup {Flusher}

VARIABLES
  healthy,    \* Backend.healthy
  counter,    \* BackendPool.counter
  pos,        \* per reader: 0 not scanning, b about to load b's flag, N + 1 done
  out,        \* per reader: the backends found healthy by this scan
  hosts,      \* flusher: HealthyHosts and UnhealthyHosts as far as read
  probe,      \* checker: 0 in select, b at checkOne of b, N + 1 stopped
  answer,     \* checker: what became of that probe, from "unsent" to Do's result
  cancelled,  \* the health-check context is cancelled
  late,       \* history: the backend whose probe hcCancel met on its way, or 0
  logged,     \* history: the store just made came with a log line
  moved,      \* history: per reader, a flag changed since its snapshot began
  spread      \* history: the latest picks made from one and the same list

checking  == <<healthy, probe, answer, cancelled, late, logged>>
selecting == <<counter, spread>>
vars == <<checking, selecting, pos, out, hosts, moved>>

Answers == {"error", "5xx", "ok"}   \* what Do returns

Init ==
  /\ healthy = [b \in Backend |-> TRUE]
  /\ counter = 0
  /\ pos = [x \in Readers |-> 0]
  /\ out = [x \in Readers |-> {}]
  /\ hosts = <<>>
  /\ probe = 1
  /\ answer = "unsent"
  /\ cancelled = FALSE
  /\ late = 0
  /\ logged = FALSE
  /\ moved = [x \in Readers |-> FALSE]
  /\ spread = [list |-> {}, tally |-> [b \in Backend |-> 0]]
-----------------------------------------------------------------------------
(* Scanning the flags: the loops of Healthy and HealthyCount.              *)

BeginScan(x) ==
  /\ pos' = [pos EXCEPT ![x] = 1]
  /\ out' = [out EXCEPT ![x] = {}]

LoadFlagUnread(x) ==                                                    \* mutant
  /\ pos[x] \in Backend
  /\ out' = [out EXCEPT ![x] = @ \cup {pos[x]}]
  /\ pos' = [pos EXCEPT ![x] = @ + 1]
  /\ UNCHANGED <<selecting, hosts, checking, moved>>

LoadFlag(x) ==
  /\ pos[x] \in Backend
  /\ out' = IF healthy[pos[x]] THEN [out EXCEPT ![x] = @ \cup {pos[x]}] ELSE out
  /\ pos' = [pos EXCEPT ![x] = @ + 1]
  /\ UNCHANGED <<selecting, hosts, checking, moved>>
-----------------------------------------------------------------------------
(* Next(): a handler selects a backend.                                    *)

BeginNext(h) ==
  /\ pos[h] = 0
  /\ counter < MaxPicks
  /\ BeginScan(h)
  /\ moved' = [moved EXCEPT ![h] = FALSE]
  /\ UNCHANGED <<selecting, hosts, checking>>

\* The k-th backend (from 0) of the list a scan built: the scan goes upwards.
Nth(list, k) == CHOOSE b \in list : Cardinality({a \in list : a < b}) = k

RoundRobinOverAll(list) == Nth(Backend, counter % N)                    \* mutant

RoundRobin(list) == Nth(list, counter % Cardinality(list))

\* No healthy backend found: nil (handle answers 503), and the counter stays.
PickNone(h) ==
  /\ pos[h] = N + 1
  /\ out[h] = {}
  /\ pos' = [pos EXCEPT ![h] = 0]
  /\ UNCHANGED <<counter, spread, out, hosts, checking, moved>>

\* counter.Add(1) - 1 indexes the list this handler built.
PickOne(h) ==
  LET b == RoundRobin(out[h]) IN
  /\ pos[h] = N + 1
  /\ out[h] # {}
  /\ counter' = counter + 1
  /\ spread' = IF out[h] = spread.list
               THEN [spread EXCEPT !.tally[b] = @ + 1]
               ELSE [list |-> out[h], tally |-> [a \in Backend |-> IF a = b THEN 1 ELSE 0]]
  /\ pos' = [pos EXCEPT ![h] = 0]
  /\ out' = [out EXCEPT ![h] = {}]
  /\ UNCHANGED <<hosts, checking, moved>>
-----------------------------------------------------------------------------
(* Snapshot: the flusher calls HealthyCount, then UnhealthyCount, which    *)
(* counts the healthy ones again and subtracts.                            *)

BeginGauges ==
  /\ pos[Flusher] = 0
  /\ hosts' = <<>>
  /\ BeginScan(Flusher)
  /\ moved' = [moved EXCEPT ![Flusher] = FALSE]
  /\ UNCHANGED <<selecting, checking>>

HealthyHosts ==
  /\ pos[Flusher] = N + 1
  /\ hosts = <<>>
  /\ hosts' = <<Cardinality(out[Flusher])>>
  /\ BeginScan(Flusher)
  /\ UNCHANGED <<selecting, checking, moved>>

UnhealthySwapped ==                                                     \* mutant
  /\ pos[Flusher] = N + 1
  /\ hosts # <<>>
  /\ hosts' = <<hosts[1], Cardinality(out[Flusher]) - N>>
  /\ pos' = [pos EXCEPT ![Flusher] = 0]
  /\ out' = [out EXCEPT ![Flusher] = {}]
  /\ UNCHANGED <<selecting, checking, moved>>

UnhealthyIsHealthy ==                                                   \* mutant
  /\ pos[Flusher] = N + 1
  /\ hosts # <<>>
  /\ hosts' = <<hosts[1], Cardinality(out[Flusher])>>
  /\ pos' = [pos EXCEPT ![Flusher] = 0]
  /\ out' = [out EXCEPT ![Flusher] = {}]
  /\ UNCHANGED <<selecting, checking, moved>>

UnhealthyHosts ==
  /\ pos[Flusher] = N + 1
  /\ hosts # <<>>
  /\ hosts' = <<hosts[1], N - Cardinality(out[Flusher])>>
  /\ pos' = [pos EXCEPT ![Flusher] = 0]
  /\ out' = [out EXCEPT ![Flusher] = {}]
  /\ UNCHANGED <<selecting, checking, moved>>
-----------------------------------------------------------------------------
(* The health checker.                                                     *)

SendWithoutContext ==                                                   \* mutant
  /\ probe \in Backend
  /\ answer = "unsent"
  /\ answer' = "sent"
  /\ logged' = FALSE
  /\ UNCHANGED <<healthy, probe, cancelled, late, pos, out, hosts, selecting, moved>>

\* Do begins.  It fails at once when the request's context is cancelled already.
Send ==
  /\ probe \in Backend
  /\ answer = "unsent"
  /\ answer' = IF cancelled THEN "error" ELSE "sent"
  /\ logged' = FALSE
  /\ UNCHANGED <<healthy, probe, cancelled, late, pos, out, hosts, selecting, moved>>

\* Do returns: refused, timed out or cut off ("error"), a 5xx, or any other answer, a
\* redirect included ("ok").  An answer may still win against a cancel that comes meanwhile.
Answer ==
  /\ answer = "sent"
  /\ answer' \in Answers
  /\ UNCHANGED <<healthy, probe, cancelled, late, logged, pos, out, hosts, selecting, moved>>

\* The flag of the backend probed is stored; checkAll goes to the next one.
Store(up) ==
  /\ healthy' = [healthy EXCEPT ![probe] = up]
  /\ moved' = [x \in Readers |-> moved[x] \/ healthy[probe] # up]
  /\ probe' = (probe + 1) % (N + 1)
  /\ answer' = "unsent"
  /\ late' = 0
  /\ UNCHANGED <<cancelled, pos, out, hosts, selecting>>

\* Do failed.  The flag is cleared before it is looked at again for the warning.
ProbeError ==
  /\ answer = "error"
  /\ Store(FALSE)
  /\ logged' = healthy'[probe]

Probe5xx ==
  /\ answer = "5xx"
  /\ Store(FALSE)
  /\ logged' = healthy[probe]

ProbeOK ==
  /\ answer = "ok"
  /\ Store(TRUE)
  /\ logged' = ~healthy[probe]

\* select takes the ticker, even when the context is done as well.
Tick ==
  /\ probe = 0
  /\ probe' = 1
  /\ UNCHANGED <<healthy, answer, cancelled, late, logged, pos, out, hosts, selecting, moved>>

\* select takes ctx.Done.
Stop ==
  /\ probe = 0
  /\ cancelled
  /\ probe' = N + 1
  /\ UNCHANGED <<healthy, answer, cancelled, late, logged, pos, out, hosts, selecting, moved>>

\* App.Run: hcCancel().
Cancel ==
  /\ ~cancelled
  /\ cancelled' = TRUE
  /\ late' = IF answer # "unsent" THEN probe ELSE 0
  /\ UNCHANGED <<healthy, probe, answer, logged, pos, out, hosts, selecting, moved>>

Probe == Send \/ Answer \/ ProbeError \/ Probe5xx \/ ProbeOK

Next ==
  \/ \E h \in Handlers : BeginNext(h) \/ PickNone(h) \/ PickOne(h)
  \/ \E x \in Readers : LoadFlag(x)
  \/ BeginGauges \/ HealthyHosts \/ UnhealthyHosts
  \/ Probe \/ Tick \/ Stop \/ Cancel

Spec == Init /\ [][Next]_vars
-----------------------------------------------------------------------------
TypeOK ==
  /\ healthy \in [Backend -> BOOLEAN]
  /\ counter \in Nat
  /\ pos \in [Readers -> 0 .. N + 1]
  /\ out \in [Readers -> SUBSET Backend]
  /\ hosts \in {<<>>} \cup {<<u>> : u \in 0 .. N} \cup ((0 .. N) \X (0 .. N))
  /\ probe \in 0 .. N + 1
  /\ answer \in {"unsent", "sent"} \cup Answers
  /\ answer # "unsent" => probe \in Backend
  /\ cancelled \in BOOLEAN
  /\ late \in 0 .. N
  /\ logged \in BOOLEAN
  /\ moved \in [Readers -> BOOLEAN]
  /\ spread \in [list : SUBSET Backend, tally : [Backend -> Nat]]

(***************************************************************************)
(* A scan that no store of the checker interrupts is a true snapshot: the  *)
(* list holds exactly the healthy backends.  So a 503, or a request sent   *)
(* to a backend that is down, needs a health change during the selection   *)
(* itself (backend.go:37-56).                                              *)
(***************************************************************************)
QuietScanIsExact ==
  \A x \in Readers :
    pos[x] # 0 /\ ~moved[x] => out[x] = {b \in Backend : b < pos[x] /\ healthy[b]}

(***************************************************************************)
(* HealthyHosts and UnhealthyHosts come from two scans.  With no health    *)
(* change between the start of the first and the end of the second they    *)
(* add up to the configured backends (metrics.go:143-144).                 *)
(***************************************************************************)
GaugesAddUp ==
  Len(hosts) = 2 /\ ~moved[Flusher] => hosts[1] + hosts[2] = N

(***************************************************************************)
(* Round robin survives concurrent handlers: among consecutive selections  *)
(* that saw the same list, no backend of the list is picked more than once *)
(* more often than another, and none outside it is picked                  *)
(* (backend.go:43-44: the index is taken after the scan, by one Add).      *)
(***************************************************************************)
EvenSpread ==
  \A a \in Backend :
    /\ a \notin spread.list => spread.tally[a] = 0
    /\ \A b \in spread.list : spread.tally[a] <= spread.tally[b] + 1

(***************************************************************************)
(* After hcCancel a backend comes back only through the probe that was on  *)
(* its way then, answered or not, and so at most one does: every probe of  *)
(* the round that follows it fails.  The final metric flush can then       *)
(* report healthy backends as down, and one more as up (app.go:94-99,      *)
(* health.go:63-90).                                                       *)
(***************************************************************************)
OneLateRecovery ==
  [][cancelled => \A b \in Backend : healthy'[b] /\ ~healthy[b] => b = late]_vars

(***************************************************************************)
(* health.go:70-73 means to log "backend health check failed" when a       *)
(* failed probe takes a backend down; health.go:78-84 does so for a 5xx    *)
(* answer.  No backend goes down in silence.                               *)
(***************************************************************************)
DownIsLogged ==
  [][\A b \in Backend : healthy[b] /\ ~healthy'[b] => logged']_vars
=============================================================================
