# Verification of the trading demo

The repository is a demonstration platform: a small trading system made of
services in several languages, run on Kubernetes and watched with
OpenTelemetry and Elasticsearch. This directory holds TLA+ models of its
concurrent parts, the TLC configurations that check them, and proofs that TLAPS
checks. `PROJECT.json` maps every definition to the source lines it stands for.

## 1. The system

    monkey --> proxy --> elb --> trader --> processor-out --> Kafka topic
    (load)    (nginx)  (Go LB)  (Flask)     (producer)         trades-<region>
                                                                   |
    notifier <-- recorder-java | recorder-go | canary <-- router <-- processor-in
    (.NET)        (PostgreSQL)   (MySQL)   (PostgreSQL)   (Node)     (consumer)

Each service is a Deployment of one replica that is always restarted.

| component | source | state it keeps | operations | what makes it hard |
|---|---|---|---|---|
| elb, process | `src/src/elb/app.go`, `loadbalancer.go`, `main.go` | servers, contexts, a deadline | start, handle, signal, drain, stop checkers, final flush, end | handlers, two flushers, checkers and the shutdown overlap |
| elb, telemetry | `flusher.go`, `logbuffer.go`, `esclient.go` | a document buffer per load balancer, the batch in hand | append, drain, bulk | partial failure of Bulk, no retry, ticker against cancellation |
| elb, aggregator | `metrics.go` | atomic counters, a mutex section, a gauge | RecordRequest, Snapshot | neither operation is atomic |
| elb, pool | `backend.go`, `health.go` | a flag per backend, a round-robin counter | Next, counts, probes | lock-free scans against stores |
| elb, proxy | `proxy.go` | per-request context | director, response and error hooks | one request can reach both hooks |
| elb, configuration, documents | `config.go`, `docs.go`, `metricnames.go` | none after start | load, default, validate, format | boundaries of validation |
| trader | `src/src/trader/app.py`, `model.py` | moving averages per symbol | request, force, reset | dictionary and averages shared by threads without a lock, timeouts downstream |
| processor-in | `src/src/processor/.../Consumer.java`, `Main.java` | the consumer's position, the group's committed offset | poll, relay, commit, wake up, close | redelivery, skipped records, wakeup, restarts |
| processor-out | `.../Producer.java`, `Controller.java` | the producer's buffer, a key counter | notify | the answer precedes the send |
| router | `src/src/router/app.ts` | counters | choose a recorder, proxy | proxy timeout |
| recorders | `src/src/recorder-*/` | the trades table | insert or upsert, notify | duplicates, notification after failure |
| notifier | `src/src/notifier/` | none | notify | - |
| monkey | `src/src/monkey/app.py` | ten dictionaries of faults and boosts, the generator's locals | generator loop, about thirty control handlers | one thread reads several times what others delete |
| log generator | `src/utils/logen/src/` | exception schedule, emitter backlog | generate, emit | deletion by stale index, backlog |
| asset loader | `src/assets/app.py` | objects in Kibana, the lists of its agents | load: search, delete, post, attach, run | run again and again over what earlier, perhaps broken, loads left |
| RCA workflows | `src/assets/workflows/` | cases and alerts in Kibana | open a case, close a case | two workflows share cases |
| sqlcommenter, frontend, deployment | `src/lib/`, `src/src/frontend/`, `src/k8s/` ... | none shared | formatting, presentation, declaration | - |

What makes each one correct:

- the load balancer reports every request it handled once, and ends when told to;
- the pool hands out healthy backends evenly;
- the trader moves one average per symbol by each request, posts a request at most
  once and answers success only after an answer to that post;
- the relay hands every trade on, skips none but those behind a failed one, and
  ends when told to;
- a trade that was answered with success is recorded or it is known why not, and
  a row, a refusal or a call of the notifier means what it says;
- the monkey's generator survives its handlers, and its requests carry the faults
  and boosts in force, no others;
- a load leaves Kibana as the files say, whatever loads before it left behind.

The hazards behind these, with their lines, are listed in `PROJECT.json`.

## 2. Modules

| module | models | instantiated by |
|---|---|---|
| `TelemetryLedger` | abstract: what the load balancer promises for a kind of telemetry | `ElbMetrics`, `ElbApp` |
| `ElbMetrics` | aggregator, handlers and metric flusher, one step per atomic operation | `MCElbMetrics` |
| `BackendPool` | flags, scans, round robin, gauges, health checker | `MCBackendPool` |
| `ElbApp` | the whole process: servers, connections, handlers, both flushers, Bulk, App.Run | `MCElbApp` |
| `TradeRelay` | processor-in: poll, relay, commit, shutdown hook, restarts, and its consumer group | `MCTradeRelay`, `TradePath` |
| `TradeRequest` | abstract: what the trader promises of a request | `Trader`, `TradePath` (EXTENDS) |
| `Trader` | the trader's threads, one step per call that the interpreter may switch at | `MCTrader` |
| `TradePath` | the composition: a request, processor-out, the topic, the relay, the router, three recorders and two databases | `MCTradePath` |
| `Monkey` | the generator thread, the handlers' dictionary operations, the ageing of one-shots | `MCMonkey` |
| `AssetLoader` | a load as a program of requests, Kibana as the code uses it | `MCAssets` |
| `AssetFiles` | which program `main` makes of the files | `MCAssets` |
| `ElbMetricsProofs`, `BackendPoolProofs`, `ElbAppProofs`, `TradeRelayProofs`, `TraderProofs`, `TradePathProofs`, `MonkeyProofs`, `AssetLoaderProofs` | theorems | - |

**TelemetryLedger.** An item is unborn, pending, taken, delivered or lost.
Handlers produce; a flush takes; its call of Bulk settles the whole batch.
Nothing is taken twice, and nothing goes back.

**ElbMetrics.** A cell of `lbAgg` is the set of `RecordRequest` calls that were
added to it. The number the code keeps is the cardinality (bytes and seconds
are sums over the set), and "counted twice" or "forgotten" become statements
about sets. `RecordRequest` takes four steps (`AddCount`, `AddBytes`,
`AddBucket`, `AddTiming`), and `Snapshot` swaps ten cells in ten steps, the mutex
section first, as the code does. `Bulk` gets all, some or none of the metrics
indexed. The gauge is read but never reset. A 101 answer whose upgrade fails is
recorded a second time.

**BackendPool.** `Healthy()` and the two counts load one flag per step.
`BeginNext`, `LoadFlag`, `PickOne` and `PickNone` are `Next()`; the counter's
Add and the choice are one step, since only the atomic Add is visible to others.
`checkOne` takes three steps: `Send`, which fails at once if `hcCancel` was called
before, `Answer`, when the client returns, and `ProbeError`, `Probe5xx` or `ProbeOK`,
which store the flag. `Cancel` can come between any two of them: the answer of the
probe that is on its way may win against it, and once it has come nothing stops its
store. `late` (history) is the backend of that probe.

**ElbApp.** A connection is accepted, begins a request, records metrics, appends
a document and ends; with an upgrade it may leave the server (hijack) and may
be recorded again. One request per connection stands for keep-alive, which
only repeats it. Each flusher waits in select, visits the load balancers in
turn and hands what it took to `Bulk`. `App.Run` waits for the signal, shuts the
servers down one after the other under one deadline, cancels checkers and
flushers and waits for both. `Snapshot` is one step here, because `ElbMetrics`
has its inside. What `net/http` does (silent connections are dropped, hijacked
ones are forgotten, `Shutdown` waits for the rest) is modelled from how the code
uses it and marked external in the map.

**TradeRelay.** `Poll` is `consumer.poll`, which moves the position past all it
returns; `Relay` and `RelayFails` are one call of `httpNotify` and the catch
around it; `Commit`, `CommitFails`, `CommitFenced` and `CommitWoken` are the ways
in which `commitSync` can end, all of which go on with the loop. `Signal` is the
shutdown hook, `Exit` the end of the process after its main thread, `Crash` a
kill. The code runs one replica, but a rolling update starts the new process
before the old one has gone, and an evicted process does not know it yet: hence
several `Consumers`. Of the group coordinator the model has what the code relies
on: who is a member, who owns the one partition, that a rebalance waits for
every member to poll, that an owner starts from the committed offset or, without
one, at the end (`auto.offset.reset=latest`), and that it refuses commits from
others. `consumer.close()` commits nothing, since automatic commits are off,
although the comment at Consumer.java:148 says that it may. The
producer is its effect: a record is appended. `tries`, `abandoned`, `missed` and
`turns` are history variables.

**Trader.** A thread of the web server handles each request. `Test`, `Create`,
`Find`, `Mean` and `Look` are the membership test and the look-ups of
`sim_market_data` (model.py:58-67); `AppendPrice`, `AddPrice`, `Check`, `Pop`,
`Store` and `Divide` are `StreamingMovingAverage.process`, cut at the calls between
which CPython 3.12 may switch threads. `self.sum -= self.values.pop(0)` reads
`sum` before the call of `pop` and writes it after, hence two steps. A price
counts as 1: the sum of an average is then the number of prices in it, which is
all the race can get wrong. Averages are named after the request that created
them, because an average that a reset or a second creator has thrown away is
still in the hands of some thread. `Phase` maps a request to `TradeRequest`.

**TradePath.** The trader is `TradeRequest`, which `Trader` implements; the relay is
`TradeRelay`, of which every action is an action of the path or a part of one.
`Notify` is the controller's handler: NOTIFIED goes out whether `send` took the
record or threw. `Deliver` is a step of the topic and `Relay!Produce` at once.
`Hand` is the beginning of `httpNotify`; `Confirmed`, `Refused` and `TimedOut` its
three ends, joined with `Relay!Relay` or `Relay!RelayFails`. A recorder's call goes
on by itself (`Insert`, `Notified`, `NotifierDown`, `Vanish`), whether somebody still
waits for it or not. The Go recorders insert, so that a second copy is refused by
the primary key; recorder-java saves, so that it overwrites; recorder-go has a
database of its own. `Insert` has three outcomes: the row is saved and the database
says so; it is saved, and the connection is lost before the database can say so; it is
not saved. The Go recorders go on to the notifier after each of them, recorder-java
only after the first. `handed`, `refused`, `shaken`, `notices` and `lost` are history
variables; `notices` counts a call of the notifier whether it was reached or not.

**Monkey.** `Generate` is one iteration of `generate_trade_requests`, cut at every
dictionary operation: is a key there (`Found`, `NotFound`), look it up (`Read`), look
it up once more for its time (`Expire`), and the like for the boosts (`AnyBoost`,
`Choose`, `Weigh`). A handler's call is a sequence of dictionary operations, taken
one at a time from `Programs`, where each definition has the name of its handler.
`if k in d: del d[k]` is two operations (`DropTest`, `Delete`). The locals that
survive from one iteration to the next are `carried` and `aim`. A handler takes the
names of customers and symbols from the URL, and nothing asks whether there is such a
customer (`Strangers`); the region is always the one of the deployment. `Age` makes a
one-shot older than `ERROR_TIMEOUT_S`. An exception in the loop ends the thread for
good (`Dies`): nothing restarts it, and `/simulation/start` does nothing while the
flag is set.

**AssetLoader, AssetFiles.** `AssetFiles!main` is the sequence of operations that
the loader performs for given files, in the order of `main`; `AssetLoader` executes
such a program against Kibana. A "replace" is a search in one page of a list, the
deletion of each object found, and a POST; a "renew" a deletion by id and a POST; a
"refresh" an update of the dashboard of that title or a new one. Every request may
be answered with an error, which the code prints and ignores (`Fails`), or not be
answered at all (`Crash`). A monitor whose script needs the IIS endpoint is skipped when
none is given, and one that does not need it ends the job then (`Raise`): `replace` is
called with None. `attached` counts how often a tool or skill is in an
agent's list. Loads are taken one at a time: the job of a deployment ends, or is
given up, before the next one is created by hand. `OrderAssumption` says of a program
what its order is relied on for (`InOrder`): the workflows, then the list of them, then
the tools; an agent's update behind the last thing that is added to it or may take it
away. `AssetFiles` gives such programs, which TLC evaluates. `ToolsStay` is a condition
on the files of different loads, not on the code: a tool's file stays for as long as
the file of its workflow does.

## 3. Runs

| run | question | result |
|---|---|---|
| `pool` | what do lock-free scans and the shared counter guarantee? | `QuietScanIsExact`, `GaugesAddUp`, `EvenSpread`, `OneLateRecovery` hold (5 million states) |
| `pool_warn` | does a failed probe that takes a backend down warn? | violated: health.go:70 clears the flag before line 71 tests it |
| `metrics` | is anything counted twice or forgotten, how far are windows torn? | `Conservation`, `TargetNeverAhead`, `CountCatchesUp`, `CellsKeepLedger` hold (1.2 million states) |
| `metrics_5xx` | is "ELB-generated 5xx" what it says? | violated: a backend's 500 is counted there |
| `app_live` | does the shutdown keep its documented order and miss nothing, does a signalled process end, is everything reported? | `StoppedBeforeCheckers`, `FinalFlushTakesAll`, `ShutdownEnds`, `EventuallyReported` hold under `FairSpec` (25 thousand states) |
| `app_upgrade` | what may a clean drain lose; is the ledger kept? | `CleanDrainLosesNothing`, `KeepsLedger` hold (0.8 million states) |
| `relay` | which trades can be skipped or handed over twice, and does the relay keep going? | `SkippedOnlyBehindFailure`, `OncePerTurn`, `CommitNeverRetreats`, `EventuallyDealtWith` hold under `FairSpec` (255 thousand states) |
| `relay_signal` | does a signalled processor-in end without being killed? | violated: a wakeup thrown by `commitSync` is taken for a failed commit |
| `trader` | what do concurrent requests and a reset do to an average, and to each other? | `AverageExact`, `MarketFailsInRacesOnly`, `KeepsRequest` hold (0.5 million states) |
| `trade_path` | where is a trade that was answered with success, and what do a row, a refusal and a notification mean? | `AnswersAreExplained`, `RowsAreExplained`, `NoticesAreExplained` hold (2 million states) |
| `monkey` | what can end the generator, and what can a request carry? | `DeathHasReason`, `RequestsAreCurrent`, `NormalTrafficReturns` hold (0.3 million states) |
| `assets` | what can be left in Kibana, and does a good load repair it? | `OnePerName`, `CompleteLoad` hold (1 million states) |

Some properties say exactly how much goes wrong, rather than that nothing does.

- `OneLateRecovery`: after `hcCancel` probes fail and backends are marked down, yet the
  probe that was on its way may still bring its backend back: one more comes back at
  most, and never a second.
- A status bucket may be reported one window before its request is counted, but not
  two (`CountCatchesUp`). A drain within the deadline may lose only what a hijacked
  connection records (`CleanDrainLosesNothing`). After the deadline, or when Bulk
  fails, telemetry is lost, and the ledger's stage `lost` says so.
- The rest of a batch behind a failed record is never handed over unless the
  partition is assigned again before the next commit (`SkippedOnlyBehindFailure`
  lists it as `abandoned`); a failed record is not retried (`OncePerTurn`).
  `EventuallyDealtWith` excludes one case: `Stranded`, a loop that an exception of
  `poll` has ended while the web server keeps the process alive. Without that escape
  it is false.
- `AverageExact`: the sum is wrong for good once a thread added or subtracted a price
  between another's reading and writing of it (model.py:24). Two requests are enough,
  of which one only appends; the sum is then short by exactly what was overwritten
  (`forgotten`), and by nothing else. The window is not affected. `MarketFailsInRacesOnly`: a
  request fails with a KeyError after a reset, or with a division by zero when it
  meets an average that has no price yet, or when more threads than the window has
  prices have all seen it overflow and emptied it (model.py:23-25). Without such a
  race no request fails in the market.
- `AnswersAreExplained`: NOTIFIED does not mean that the trade is anywhere yet.
  `RowsAreExplained`: an error of the router does not mean that the trade is not
  recorded, in four cases: the call timed out, the database's answer to a committed
  insert was lost, recorder-go met an unreachable notifier after its insert, or an
  earlier delivery recorded it. A second delivery may go to the other database.
  `NoticesAreExplained`: a call of the notifier by a Go recorder does not mean that the
  trade is recorded; one by recorder-java does, and a trade that the relay takes for
  recorded is recorded, and the notifier was called for it.
- `DeathHasReason` lists what ends the only generator thread, with the state of the
  entry at that moment: one that is set, and has not timed out, is no reason. Some of
  it takes a race (an entry removed between two look-ups), some none: a model error
  has no field `oneshot`, so that the first one that is reached ends the generator
  (app.py:251); a one-shot latency or database error of a region that times out calls
  a handler with an argument it does not take (app.py:244, 287); a boost of a name
  that is no customer leads to a look-up that fails.
- `OnePerName` excludes rules, which every load adds again, and the names of which a
  deletion failed or that were not in the first page of the list. `CompleteLoad`
  asks for a load in which nothing was refused. Two things it has to allow for are
  in the files and in the code: the SLOs are loaded once per service, but the shipped
  names do not tell the services apart, so that of each only the last service's
  remains; data views and ML jobs that are there already are refused, so that a
  changed file does not reach Kibana. A second file of dashboards ends the job,
  since `resp` is no longer the list (`Refresh` after `listing` is lost). And without
  `ToolsStay` it is false: nothing deletes a tool whose file is gone, so that it stays
  linked to a workflow that a later load has replaced.

### Bounds

- `pool`: two backends give lists of length 0, 1 and 2, so the modulus differs
  between concurrent selections; two handlers and the flusher scan at once.
  `MaxPicks = 3` lets the counter wrap around the longer list and come back.
- `metrics`: two requests, one of which may be recorded twice, make three calls
  that meet every cell kind (no backend, timed, upgrade). `Audited` limits the
  refinement to the mutex cell and a counter; the theorem has no such limit. `Accepted` holds "everything" and "one metric only".
- `app_live`, `app_upgrade`: two load balancers, so that one drains while the other
  accepts and the flushers visit one after the other. One request is enough, since
  no guard but the drain's looks at two. The proofs hold for any number of either.
- `relay`: two processes, an old and a new one. `MaxRecords = 2` gives batches of
  none, one and two, so that one record can lie behind a failed one, and a stale
  commit can differ from a newer one. `MaxUpsets = 2` bounds signals, crashes,
  evictions of a live process and exceptions of `poll` together: enough for an
  eviction followed by a crash of the successor. Failures of the router
  and of commits are not bounded. The proofs have neither bound.
- `trader`: three requests for one symbol, so that one can create, reset or fill what
  two others work on; a window of one price, which the second overflows and which
  two threads can empty; one reset. The proofs have no bound.
- `trade_path`: two trades, one of them for the canary, make batches of two and a
  record behind a failed one; one process of processor-in that may be upset once, so
  that a trade can be delivered twice. `SettledBefore` has the trader answered, or
  past its timeout, by the time the record is in the topic: an answer that comes later
  changes the phase only, and success is the phase about which something is promised.
  (Without that bound the run has 4.3 million states, and the same result.) Failures
  of the sends, the router, the databases and the notifier are not bounded. The proofs
  have no bound.
- `monkey`: two customers, because the dictionary of request errors has to grow while
  it is iterated over; a stranger, because the handlers take any customer's name from
  the URL; one symbol. Two calls of handlers: set and remove a fault,
  or two conflicting settings. The safety proofs have no bound.
- `assets`: a file or two of every kind that differs from the others, a page of two
  objects, so that a third is out of sight, and two loads with three faults: the
  second load finds what a refused deletion, a refused POST and a crash have left.
  Two more programs differ: one has two dashboards and few other files, one is given no
  endpoint for its monitors.
- `CHECK_DEADLOCK FALSE` in the `ElbApp` configurations: the process ends; in those
  of `TradeRelay` and `TradePath`: every loop may have ended on an exception; in
  that of `Monkey`: the generator may have died and the calls are bounded; in those
  of `Trader` and `AssetLoader`: requests and loads are bounded.

### Fairness

`FairSpec` assumes that App.Run goes on, the 15 s deadline passes, a flusher
visits the next load balancer and every Bulk call ends (its client has a 30 s
timeout). `FinalFlush` is strongly fair: a flush can outlast the 5 s ticker, so
the ticker may be ready at every select, and Go's select picks at random among
the ready cases. Nothing is assumed of clients, backends or the signal.

In `TradeRelay` it assumes that a process that runs goes on: `poll` returns after
100 ms, the router answers (its proxy gives up after 5 s, `src/src/router/app.ts:107`)
and `commitSync` gives up after its default of a minute. The coordinator evicts
dead members and the Deployment replaces a process that is gone or going. Two
assumptions are strong. `Rebalance`: members learn of a rebalance from their
heartbeats and join in their next `poll`, but not at the same moment. `Fetch`: a
fetch stays pending over polls that time out. Of the router's success, of commits,
signals, crashes and evictions of a live process nothing is assumed.

In `Monkey` it assumes that the generator's thread and the handlers' threads are
scheduled, no more: not that anybody calls a handler, and not that an entry ages.
`NormalTrafficReturns` is therefore about dictionaries that stay empty.

## 4. Proofs

Every theorem holds for all values of the constants (any number of backends,
load balancers, requests, trades, processes, customers, files). None needs more than
the named assumptions on the constants in the modules, but for `LoadsComplete`, which
also assumes `ToolsStay` (`MCAssets` has TLC evaluate it).

- `BackendPoolProofs`: `TypeCorrect`; `QuietScansExact`, by an invariant that
  ties each scan's position, its list and the flags it has passed;
  `GaugesSumToBackends`, for which the invariant adds what the first count saw;
  `NoLaterRecovery`, for which `LateInv` says that after the cancel only the probe that
  was on its way can have an answer other than an error; `SelectionsAreSound`, that a
  handler whose scan was quiet picks a backend that is up, or finds none because none
  is. `RoundRobinIsEven` needs to know who is next: `Ahead` is how many selections from a
  list come before a backend's, the counter being only ever divided by the length of
  the list, and `SpreadInv` says that whoever comes sooner was picked as often as whoever
  comes later, or once less. Its lemmas are that the ranks in a list are all its
  indices (a pigeonhole argument) and that a selection takes the one that is next and
  moves the others up. `EvenSpread` alone is not inductive, since it does not say where the
  counter stands. The counter is a natural number in it: at 2^64 the code's
  counter starts again, and the turn with it.
- `ElbMetricsProofs`: `ConservationHolds` rests on `LedgerInv`: for each cell, the
  live set, the snapshot, the delivered and the lost set are disjoint and make
  up what the calls did so far, and cells already swapped in this round are
  distinguished from those still to come. `TargetStaysBehind` and
  `BucketsCaughtUp` follow from the order of adds and swaps on top of it.
  `CellsImplementLedger` maps each cell to `TelemetryLedger`.
- `ElbAppProofs`: `ServersStopFirst` is inductive once "every server before the
  one draining is shut" is added. `FinalFlushComplete` needs, for each flusher,
  that what was due is still ahead of it, in its hand or settled, and that it is
  gone only after a final round. `CleanDrainComplete` needs that after a drain
  within the deadline no request of an untracked kind is left inside.
  `AppImplementsLedger` needs `OnceInv`: an item is in one place only, in the
  buffer of its own load balancer, and nowhere before its request came so far.
- `TradeRelayProofs`: `RelayInv` says what a process knows (it relays only what it
  believes its own, the coordinator's owner is never behind the committed offset)
  and that everything before its next record, and everything committed, is dealt
  with. It is needed because a commit writes a position polled long before.
  `NothingElseIsSkipped` and `CommitsOnlyAdvance` follow. `NothingIsRetried` counts:
  the attempts on a record and the processes that still have it before them are
  together at most the assignments of the partition.

- `TraderProofs`: the argument counts threads. The prices in an average, less the
  threads between their append and their pop that have to give one back, never fall
  below what the finished requests left, which is at most `Window`; the sum, with what
  was `forgotten` of it, is the number of prices, but for the threads that have appended
  one and not added it yet, or popped one and not subtracted it; an average is empty only while its creator has still to append, or when it was
  `crowded`. `RequestsAreKept` maps each step to `TradeRequest` or a stutter.
- `TradePathProofs`: `PathRelays` shows that the path implements the relay, whatever
  the services around it do, and so carries the theorems of `TradeRelayProofs` over.
  On top of them the inductive invariant has four parts: every posted trade is in
  one place only (`PlaceInv`); the calls of a trade are numbered, its only call and its
  rows agree, and recorder-java is behind its insert only with a row (`RecordInv`); a
  record that was tried is recorded and the notifier called, or it was refused
  (`TriedInv`); a record was handed over at most as often as the partition was
  assigned, less once for each process that still has it before it (`HandInv`).
  `AnswersExplained` needs the first and third with `NothingElseIsSkipped`,
  `NoticesExplained` the second and third, `RowsExplained` the second and fourth, and so does `HandedPerAssignment`, that the
  recorders are asked at most once per assignment of the partition.
- `MonkeyProofs`: what was found in a dictionary is there or was removed in this
  iteration (`FoundInv`); what is in force belongs to `live` (`LiveInv`); what the locals
  carry was read in this iteration as far as it has come, by the rank of the
  dictionaries (`CarriedInv`), and likewise for the boosts (`AimInv`). The handlers
  enter only as `Outside`: they put and remove entries and record it in the history.
- `AssetLoaderProofs`: while a replacement is under way, what it found includes all
  objects of its name unless the name is spoilt (`SearchInv`, `ReplaceInv`); with
  nothing left to delete, the name is free and the POST makes the only one.
  For `LoadsComplete` the invariant says of the part of the program that is behind the
  job what `CompleteLoad` says of a whole one, in a load without a fault (`CleanInv`):
  the last step behind for a name has made the one object there is (`MadeInv`, with
  `KeptInv` while it is being replaced), what was added to an agent is in its list and is
  there once after the update (`AttachedInv`), the list that was read has the workflows
  that are there (`ListedInv`), and so a tool loaded after it is linked to its own
  (`LinkedInv`). At the end everything is behind. `OriginInv` is what `ToolsStay` needs:
  every tool that is there was loaded by some program, and every object of this load
  by a step of this one.

Model-checked only: that the programs of `AssetFiles` meet `OrderAssumption`, because it
builds them by folding over sequences, which would take induction; the liveness properties
(`ShutdownEnds`, `EventuallyReported`, `EventuallyDealtWith`, `NormalTrafficReturns`),
which are out of the proof system's reach; and the three properties that are violated.

## 5. Not modelled, and why

- The number a counter holds, bytes, seconds and their maximum: sums over the
  sets the model keeps. The wrap of the 64-bit counters is out of reach of any run.
- The fan-out of a snapshot into documents and the documents' layout: data.
- A marshalling error in `BuildAccessLogDoc`: it has only strings and numbers.
- The unbounded growth of buffers while Bulk is slow: a matter of rates.
- `lbAgg`'s ELB 3xx and 4xx cells are modelled but no code path reaches them.
- elb's configuration and documents: validation and formatting without state.
- The trader's amounts and spans, the router's Redis counter, metrics everywhere.
- The producer's record key: an unsynchronised counter, but the topic has one
  partition, so that no property depends on it.
- The monkey's `generate_trades`: a batch of requests that shares no state with the
  generator. Handlers that change no dictionary's keys.
- The loader's backups and its actions other than "load", which are parts of it. Two
  loads at once: each job gets a name of its own, so nothing but their start by hand
  keeps them apart. `src/build.sh:4` waits only for the condition "complete", so that a
  failed load is waited for until its time is over; that is a shell loop around it.
- The notifier (it logs), sqlcommenter (strings), the frontend, the deployment's
  declarations and scripts, the RCA workflows (programs of an engine whose rules of
  concurrency are not in the repository).
- The log generator: each generator is one thread with random data; the deletion by
  stale index at `src/utils/logen/src/log_generator.py:108` is listed as a hazard
  without a property. `src/utils/wiki.js`, `src/utils/remote`: installation scripts.

## 6. Plan, and what is left of it

1. Done: the load balancer, its pool, its aggregator, its shutdown; the relay.
2. Done: processor-out, router and recorders, composed with the relay.
3. Done: the trader under concurrent requests and reset.
4. Done: the monkey's control plane against its generator thread.
5. Done: the asset loader over several, broken loads.
6. Done: proofs of types and of every safety property that the passing runs check.
7. Left: the log generator's schedule; elb's configuration as operators; a ledger
   "stored at most once per database and assignment" for the path to refine.
