---------------------------- MODULE ElbAppProofs ----------------------------
(***************************************************************************)
(* Proofs about ElbApp, for every number of load balancers, every set of   *)
(* requests and every choice of those that may be upgraded.                *)
(***************************************************************************)
EXTENDS ElbApp, TLAPS

USE DEF LB

-----------------------------------------------------------------------------
(* Types.                                                                  *)

Flushers == [at : 0 .. Gone, batch : SUBSET Items, final : BOOLEAN]

LEMMA FlusherType ==
  ASSUME NEW at \in 0 .. Gone, NEW batch \in SUBSET Items, NEW final \in BOOLEAN
  PROVE  At(at, batch, final) \in Flushers
BY DEF Flushers, At

LEMMA TypeInit == Init => TypeOK
<1>. SUFFICES ASSUME Init PROVE TypeOK
  OBVIOUS
<1>1. At(0, {}, FALSE) \in Flushers
  <2>1. 0 \in 0 .. Gone /\ {} \in SUBSET Items /\ FALSE \in BOOLEAN
    BY ConstantsOK DEF Gone
  <2>. QED  BY <2>1, FlusherType
<1>2. flusher \in [Kinds -> [at : 0 .. Gone, batch : SUBSET Items, final : BOOLEAN]]
  BY <1>1 DEF Init, Flushers
<1>3. waiting \in [Kinds -> [LB -> SUBSET Items]]
  BY DEF Init
<1>4. draining \in 0 .. L + 1 /\ conn \in [Requests -> Stages]
  BY ConstantsOK DEF Init, Stages
<1>. QED  BY <1>2, <1>3, <1>4 DEF Init, TypeOK

\* A flusher's own step keeps the types if its new state is one of Flushers.
LEMMA SetFlusherType ==
  ASSUME TypeOK, NEW k \in Kinds, NEW f \in Flushers, SetFlusher(k, f),
         waiting' \in [Kinds -> [LB -> SUBSET Items]],
         delivered' \in [Kinds -> SUBSET Items],
         lost' \in [Kinds -> SUBSET Items], due' = due
  PROVE  TypeOK'
<1>1. flusher' \in [Kinds -> [at : 0 .. Gone, batch : SUBSET Items, final : BOOLEAN]]
  BY DEF TypeOK, SetFlusher, Flushers
<1>. QED  BY <1>1 DEF TypeOK, SetFlusher, running, serving

\* A step of a flusher is no business of App.Run, of the servers and the handlers.
LEMMA FlushSteps ==
  ASSUME NEW k, Flush(k)
  PROVE  UNCHANGED <<running, serving>> /\ due' = due
<1>1. ASSUME NEW f, SetFlusher(k, f) PROVE UNCHANGED <<running, serving>>
  BY <1>1 DEF SetFlusher
<1>. QED  BY <1>1 DEF Flush, Tick, FinalFlush, Collect, Bulk

LEMMA FlushType ==
  ASSUME TypeOK, NEW k \in Kinds, Flush(k)
  PROVE  TypeOK'
<1>. USE ConstantsOK
<1>0. flusher[k] \in Flushers
  BY DEF TypeOK, Flushers
<1>a. 1 \in 0 .. Gone /\ {} \in SUBSET Items /\ TRUE \in BOOLEAN /\ FALSE \in BOOLEAN
  BY DEF Gone
<1>1. CASE Tick(k) \/ FinalFlush(k)
  <2>1. At(1, {}, FALSE) \in Flushers /\ At(1, {}, TRUE) \in Flushers
    BY <1>a, FlusherType
  <2>. QED  BY <1>1, <2>1, SetFlusherType DEF Tick, FinalFlush, TypeOK
<1>2. CASE Collect(k)
  <2>. DEFINE f == flusher[k]
              l == f.at
              g == At(l + 1, f.batch \cup waiting[k][l], f.final)
  <2>1. l \in LB /\ waiting[k][l] \in SUBSET Items
    BY <1>2 DEF Collect, TypeOK
  <2>2. /\ l + 1 \in 0 .. Gone /\ f.batch \cup waiting[k][l] \in SUBSET Items
        /\ f.final \in BOOLEAN
    BY <1>0, <2>1 DEF Flushers, Gone
  <2>3. g \in Flushers
    <3>. HIDE DEF f, l
    <3>. QED  BY <2>2, FlusherType
  <2>4. waiting' \in [Kinds -> [LB -> SUBSET Items]]
    BY <1>2 DEF Collect, TypeOK
  <2>. QED  BY <1>2, <2>3, <2>4, SetFlusherType DEF Collect, TypeOK
<1>3. ASSUME NEW D, Bulk(k, D) PROVE TypeOK'
  <2>. DEFINE f == flusher[k]
              g == At(IF f.final THEN Gone ELSE 0, {}, f.final)
  <2>1. g \in Flushers
    <3>1. f.final \in BOOLEAN /\ (IF f.final THEN Gone ELSE 0) \in 0 .. Gone
      BY <1>0 DEF Flushers, Gone
    <3>. QED  BY <3>1, FlusherType
  <2>2. f.batch \in SUBSET Items
    BY <1>0 DEF Flushers
  <2>3. delivered' \in [Kinds -> SUBSET Items] /\ lost' \in [Kinds -> SUBSET Items]
    BY <1>3, <2>2 DEF Bulk, TypeOK
  <2>. QED  BY <1>3, <2>1, <2>3, SetFlusherType DEF Bulk, TypeOK
<1>. QED  BY <1>1, <1>2, <1>3 DEF Flush

\* The stages of a request whose n-th item of kind k has been produced.
Past(k, n) ==
  IF n = 1
  THEN {"logged", "failed", "recounted", "relogged", "over"}
         \cup (IF k = "metric" THEN {"counted"} ELSE {})
  ELSE {"relogged", "over"} \cup (IF k = "metric" THEN {"recounted"} ELSE {})

\* From which stage to which a request may go.
Onward(r, from, to) ==
  /\ from # "over"
  /\ from = "none" => server[home[r]] = "open"
  /\ \A k \in Kinds, n \in {1, 2} : from \in Past(k, n) => to \in Past(k, n)

\* What a step of a request's handler changes.
Moved(r, from, to) ==
  /\ Goes(r, from, to)
  /\ Onward(r, from, to)
  /\ UNCHANGED <<flusher, delivered, lost, due>>

\* Every handler step moves one request on, produces at most one item for it, and
\* takes at most its own connection from the server.
Stepped(r) ==
  \E from, to \in Stages :
     /\ Moved(r, from, to)
     /\ hijacked' # hijacked => r \in Upgrades /\ hijacked' = hijacked \cup {r}
     /\ waiting' # waiting =>
          \E k \in Kinds, n \in {1, 2} :
             /\ waiting' = [waiting EXCEPT ![k][home[r]] = @ \cup {<<r, n>>}]
             /\ from \in Inside \ Past(k, n)
             /\ to \in Past(k, n)

LEMMA PassesSteps ==
  ASSUME NEW r, NEW from \in Stages, NEW to \in Stages, Passes(r, from, to),
         Onward(r, from, to)
  PROVE  Stepped(r)
<1>1. Moved(r, from, to) /\ hijacked' = hijacked /\ waiting' = waiting
  BY DEF Passes, Moved, reporting
<1>. QED  BY <1>1 DEF Stepped, Moved, Goes, Onward

LEMMA ProducesSteps ==
  ASSUME NEW r, NEW from \in Stages, NEW to \in Stages, NEW k \in Kinds, NEW n \in {1, 2},
         Produces(r, from, to, k, n), Onward(r, from, to),
         from \in Inside \ Past(k, n), to \in Past(k, n)
  PROVE  Stepped(r)
<1>1. /\ Moved(r, from, to) /\ hijacked' = hijacked
      /\ waiting' = [waiting EXCEPT ![k][home[r]] = @ \cup {<<r, n>>}]
  BY DEF Produces, Moved
<1>. QED  BY <1>1 DEF Stepped, Moved, Goes, Onward

LEMMA HandleSteps ==
  ASSUME NEW r, Handle(r)
  PROVE  Stepped(r)
<1>. USE DEF Stages, Inside, Kinds, Onward, Past
<1>1. CASE Accept(r)
  BY <1>1, PassesSteps DEF Accept
<1>2. CASE Begin(r)
  BY <1>2, PassesSteps DEF Begin
<1>3. CASE Drop(r)
  BY <1>3, PassesSteps DEF Drop
<1>4. CASE UpgradeFails(r)
  BY <1>4, PassesSteps DEF UpgradeFails
<1>5. CASE Finish(r)
  BY <1>5, PassesSteps DEF Finish
<1>6. CASE Record(r)
  BY <1>6, ProducesSteps DEF Record
<1>7. CASE AppendDoc(r)
  BY <1>7, ProducesSteps DEF AppendDoc
<1>8. CASE RecordAgain(r)
  BY <1>8, ProducesSteps DEF RecordAgain
<1>9. CASE AppendAgain(r)
  BY <1>9, ProducesSteps DEF AppendAgain
<1>10. CASE Hijack(r)
  BY <1>10 DEF Hijack, Stepped, Moved, reporting
<1>. QED  BY <1>1, <1>2, <1>3, <1>4, <1>5, <1>6, <1>7, <1>8, <1>9, <1>10 DEF Handle

LEMMA HandleType ==
  ASSUME TypeOK, NEW r \in Requests, Handle(r)
  PROVE  TypeOK'
<1>1. PICK from, to \in Stages :
        /\ Moved(r, from, to)
        /\ hijacked' # hijacked => r \in Upgrades /\ hijacked' = hijacked \cup {r}
        /\ waiting' # waiting =>
             \E k \in Kinds, n \in {1, 2} :
                waiting' = [waiting EXCEPT ![k][home[r]] = @ \cup {<<r, n>>}]
  BY HandleSteps DEF Stepped
<1>2. waiting' \in [Kinds -> [LB -> SUBSET Items]]
  <2>1. CASE waiting' = waiting
    BY <2>1 DEF TypeOK
  <2>2. ASSUME NEW k \in Kinds, NEW n \in {1, 2},
               waiting' = [waiting EXCEPT ![k][home[r]] = @ \cup {<<r, n>>}]
        PROVE  waiting' \in [Kinds -> [LB -> SUBSET Items]]
    <3>1. home[r] \in LB /\ <<r, n>> \in Items
      BY DEF TypeOK, Items
    <3>2. waiting[k] \in [LB -> SUBSET Items]
      BY DEF TypeOK
    <3>3. waiting[k][home[r]] \cup {<<r, n>>} \in SUBSET Items
      BY <3>1, <3>2
    <3>. QED  BY <2>2, <3>1, <3>2, <3>3 DEF TypeOK
  <2>. QED  BY <1>1, <2>1, <2>2
<1>3. conn' \in [Requests -> Stages] /\ hijacked' \in SUBSET Upgrades
  BY <1>1 DEF Moved, Goes, TypeOK
<1>. QED  BY <1>1, <1>2, <1>3 DEF Moved, Goes, TypeOK, running

LEMMA RunType ==
  ASSUME TypeOK, Run
  PROVE  TypeOK'
<1>. USE ConstantsOK
<1>1. CASE Signal
  BY <1>1 DEF Signal, TypeOK, reporting
<1>2. CASE Expire
  BY <1>2 DEF Expire, TypeOK, serving, reporting
<1>3. CASE ShutdownNext
  BY <1>3 DEF ShutdownNext, TypeOK, reporting
<1>4. CASE CancelAll
  <2>1. \A k \in Kinds : InMemory(k) \in SUBSET Items
    BY DEF InMemory, TypeOK
  <2>2. due' \in [Kinds -> SUBSET Items]
    BY <1>4, <2>1 DEF CancelAll
  <2>. QED  BY <1>4, <2>2 DEF CancelAll, TypeOK, serving
<1>5. CASE Exit
  BY <1>5 DEF Exit, TypeOK, serving, reporting
<1>. QED  BY <1>1, <1>2, <1>3, <1>4, <1>5 DEF Run

LEMMA TypeStep == TypeOK /\ [Next]_vars => TypeOK'
<1>. SUFFICES ASSUME TypeOK, [Next]_vars PROVE TypeOK'
  OBVIOUS
<1>1. ASSUME NEW l \in LB, Start(l) PROVE TypeOK'
  BY <1>1 DEF Start, TypeOK, running, reporting
<1>2. CASE UNCHANGED vars
  BY <1>2 DEF vars, TypeOK
<1>. QED  BY <1>1, <1>2, HandleType, FlushType, RunType DEF Next

\* The fields stay in their types.
THEOREM TypeCorrect == Spec => []TypeOK
BY TypeInit, TypeStep, PTL DEF Spec

-----------------------------------------------------------------------------
(* The order of the shutdown.                                              *)

\* The load balancers up to the one whose Shutdown runs are shut, for good; the
\* checkers run until the last one is.
ShutInv ==
  /\ \A l \in LB : l <= draining => server[l] = "shut"
  /\ app = "serving" => draining = 0
  /\ ~checking => draining = L + 1
  /\ app \in {"serving", "draining"} => checking /\ ~flushCtx
  /\ app \in {"flushing", "exited"} => draining = L + 1

LEMMA ShutStep == TypeOK /\ ShutInv /\ [Next]_vars => ShutInv'
<1>. SUFFICES ASSUME TypeOK, ShutInv, [Next]_vars PROVE ShutInv'
  OBVIOUS
<1>. USE ConstantsOK DEF ShutInv
<1>1. ASSUME NEW l \in LB, Start(l) PROVE ShutInv'
  BY <1>1 DEF Start, TypeOK, running
<1>2. ASSUME NEW r \in Requests, Handle(r) PROVE ShutInv'
  BY <1>2, HandleSteps DEF Stepped, Moved, Goes, running
<1>3. ASSUME NEW k \in Kinds, Flush(k) PROVE ShutInv'
  BY <1>3, FlushSteps DEF running, serving
<1>4. CASE Signal
  BY <1>4 DEF Signal, TypeOK
<1>5. CASE Expire
  BY <1>5 DEF Expire, serving
<1>6. CASE ShutdownNext
  BY <1>6 DEF ShutdownNext, TypeOK
<1>7. CASE CancelAll
  BY <1>7 DEF CancelAll, serving
<1>8. CASE Exit
  BY <1>8 DEF Exit, serving
<1>9. CASE UNCHANGED vars
  BY <1>9 DEF vars
<1>. QED  BY <1>1, <1>2, <1>3, <1>4, <1>5, <1>6, <1>7, <1>8, <1>9 DEF Next, Run

LEMMA ShutAlways == Spec => []ShutInv
<1>1. Init => ShutInv
  BY ConstantsOK DEF Init, ShutInv
<1>. QED  BY <1>1, ShutStep, TypeCorrect, PTL DEF Spec

\* When the health checkers stop, every server is shut and stays so (app.go:54-59).
THEOREM ServersStopFirst == Spec => []StoppedBeforeCheckers
<1>1. ShutInv => StoppedBeforeCheckers
  BY ConstantsOK DEF ShutInv, StoppedBeforeCheckers
<1>. QED  BY <1>1, ShutAlways, PTL

-----------------------------------------------------------------------------
(* The flushers' steps, field by field.                                    *)

\* What a step of flusher k leaves alone.
Bystanders(k) ==
  /\ UNCHANGED <<running, serving, due>>
  /\ \A j \in Kinds : j # k =>
       /\ flusher'[j] = flusher[j] /\ waiting'[j] = waiting[j]
       /\ delivered'[j] = delivered[j] /\ lost'[j] = lost[j]

LEMMA TickFields ==
  ASSUME TypeOK, NEW k \in Kinds, Tick(k) \/ FinalFlush(k)
  PROVE  /\ Bystanders(k)
         /\ flusher[k].at = 0
         /\ flusher'[k].at = 1 /\ flusher'[k].batch = {}
         /\ flusher'[k].final => flushCtx
         /\ UNCHANGED <<waiting, delivered, lost>>
<1>1. PICK final \in BOOLEAN : SetFlusher(k, At(1, {}, final)) /\ (final => flushCtx)
  BY DEF Tick, FinalFlush
<1>2. flusher'[k] = At(1, {}, final) /\ \A j \in Kinds : j # k => flusher'[j] = flusher[j]
  BY <1>1 DEF SetFlusher, TypeOK
<1>3. UNCHANGED <<running, serving, waiting, delivered, lost, due>> /\ flusher[k].at = 0
  BY <1>1 DEF Tick, FinalFlush, SetFlusher
<1>. QED  BY <1>1, <1>2, <1>3 DEF At, Bystanders

LEMMA CollectFields ==
  ASSUME TypeOK, NEW k \in Kinds, Collect(k)
  PROVE  /\ Bystanders(k)
         /\ flusher[k].at \in LB
         /\ flusher'[k].at = flusher[k].at + 1
         /\ flusher'[k].batch = flusher[k].batch \cup waiting[k][flusher[k].at]
         /\ flusher'[k].final = flusher[k].final
         /\ waiting'[k][flusher[k].at] = {}
         /\ \A m \in LB : m # flusher[k].at => waiting'[k][m] = waiting[k][m]
         /\ UNCHANGED <<delivered, lost>>
<1>. DEFINE f == flusher[k]
            g == At(f.at + 1, f.batch \cup waiting[k][f.at], f.final)
<1>1. flusher'[k] = g /\ \A j \in Kinds : j # k => flusher'[j] = flusher[j]
  BY DEF Collect, SetFlusher, TypeOK
<1>2. /\ UNCHANGED <<running, serving, delivered, lost, due>> /\ f.at \in LB
      /\ waiting' = [waiting EXCEPT ![k][f.at] = {}]
  BY DEF Collect, SetFlusher
<1>3. /\ waiting'[k] = [waiting[k] EXCEPT ![f.at] = {}]
      /\ \A j \in Kinds : j # k => waiting'[j] = waiting[j]
  BY <1>2 DEF TypeOK
<1>4. /\ waiting'[k][f.at] = {}
      /\ \A m \in LB : m # f.at => waiting'[k][m] = waiting[k][m]
  BY <1>2, <1>3 DEF TypeOK
<1>. QED  BY <1>1, <1>2, <1>3, <1>4 DEF At, Bystanders

LEMMA BulkFields ==
  ASSUME TypeOK, NEW k \in Kinds, NEW D, Bulk(k, D)
  PROVE  /\ Bystanders(k)
         /\ flusher[k].at = L + 1
         /\ flusher'[k].at = IF flusher[k].final THEN Gone ELSE 0
         /\ flusher'[k].batch = {} /\ flusher'[k].final = flusher[k].final
         /\ D \subseteq flusher[k].batch
         /\ delivered'[k] = delivered[k] \cup D
         /\ lost'[k] = lost[k] \cup (flusher[k].batch \ D)
         /\ UNCHANGED waiting
<1>. DEFINE f == flusher[k]
            g == At(IF f.final THEN Gone ELSE 0, {}, f.final)
<1>1. flusher'[k] = g /\ \A j \in Kinds : j # k => flusher'[j] = flusher[j]
  BY DEF Bulk, SetFlusher, TypeOK
<1>2. /\ UNCHANGED <<running, serving, waiting, due>> /\ f.at = L + 1
      /\ D \subseteq f.batch
      /\ delivered' = [delivered EXCEPT ![k] = @ \cup D]
      /\ lost' = [lost EXCEPT ![k] = @ \cup (f.batch \ D)]
  BY DEF Bulk, SetFlusher
<1>3. /\ delivered'[k] = delivered[k] \cup D /\ lost'[k] = lost[k] \cup (f.batch \ D)
      /\ \A j \in Kinds : j # k => delivered'[j] = delivered[j] /\ lost'[j] = lost[j]
  BY <1>2 DEF TypeOK
<1>. QED  BY <1>1, <1>2, <1>3 DEF At, Bystanders

\* What a handler's step does to the buffers: nothing goes, and at most its item comes.
LEMMA HandleFields ==
  ASSUME TypeOK, NEW r \in Requests, Handle(r)
  PROVE  /\ UNCHANGED <<running, home, server, flusher, delivered, lost, due>>
         /\ \A k \in Kinds, l \in LB :
              \/ waiting'[k][l] = waiting[k][l]
              \/ \E n \in {1, 2} :
                   /\ waiting'[k][l] = waiting[k][l] \cup {<<r, n>>}
                   /\ l = home[r]
                   /\ conn[r] \in Inside \ Past(k, n)
                   /\ conn'[r] \in Past(k, n)
<1>1. PICK from, to \in Stages :
        /\ Moved(r, from, to)
        /\ waiting' # waiting =>
             \E k \in Kinds, n \in {1, 2} :
                /\ waiting' = [waiting EXCEPT ![k][home[r]] = @ \cup {<<r, n>>}]
                /\ from \in Inside \ Past(k, n)
                /\ to \in Past(k, n)
  BY HandleSteps DEF Stepped
<1>2. /\ UNCHANGED <<running, home, server, flusher, delivered, lost, due>>
      /\ conn[r] = from /\ conn'[r] = to
  BY <1>1 DEF Moved, Goes, TypeOK
<1>3. ASSUME waiting' # waiting, NEW k \in Kinds, NEW l \in LB
      PROVE  \/ waiting'[k][l] = waiting[k][l]
             \/ \E n \in {1, 2} :
                  /\ waiting'[k][l] = waiting[k][l] \cup {<<r, n>>}
                  /\ l = home[r]
                  /\ from \in Inside \ Past(k, n)
                  /\ to \in Past(k, n)
  <2>1. PICK j \in Kinds, n \in {1, 2} :
          /\ waiting' = [waiting EXCEPT ![j][home[r]] = @ \cup {<<r, n>>}]
          /\ from \in Inside \ Past(j, n)
          /\ to \in Past(j, n)
    BY <1>1, <1>3
  <2>2. CASE k = j /\ l = home[r]
    <3>1. waiting'[k][l] = waiting[k][l] \cup {<<r, n>>}
      BY <2>1, <2>2 DEF TypeOK
    <3>. QED  BY <2>1, <2>2, <3>1
  <2>3. CASE ~(k = j /\ l = home[r])
    <3>1. waiting'[k][l] = waiting[k][l]
      BY <2>1, <2>3 DEF TypeOK
    <3>. QED  BY <3>1
  <2>. QED  BY <2>2, <2>3
<1>. QED  BY <1>2, <1>3

-----------------------------------------------------------------------------
(* The final flush.  An item of due is settled, in the batch, or waits at  *)
(* a load balancer, and once the flush is the final one, at a load         *)
(* balancer it has not visited yet.                                        *)

BatchInv(k) ==
  /\ flusher[k].at \in {0, Gone} => flusher[k].batch = {}
  /\ flusher[k].at = Gone => flusher[k].final
  /\ flusher[k].at = 0 => ~flusher[k].final
  /\ flusher[k].final => flushCtx

DueInv(k) ==
  flushCtx =>
    \A i \in due[k] :
      \/ i \in Settled(k)
      \/ i \in flusher[k].batch
      \/ \E l \in LB : i \in waiting[k][l] /\ (flusher[k].final => l >= flusher[k].at)

FlushInv ==
  /\ \A k \in Kinds : BatchInv(k) /\ DueInv(k)
  /\ app = "exited" => \A k \in Kinds : flusher[k].at = Gone

LEMMA FlushInit == Init => FlushInv
BY ConstantsOK DEF Init, FlushInv, BatchInv, DueInv, At, Gone

LEMMA FlushInvByFlush ==
  ASSUME TypeOK, FlushInv, NEW k \in Kinds, Flush(k)
  PROVE  FlushInv'
<1>. USE ConstantsOK
<1>0. flusher[k].at \in 0 .. Gone
  BY DEF TypeOK
<1>1. ASSUME Bystanders(k), flusher'[k].at # Gone => app # "exited",
             BatchInv(k)', DueInv(k)'
      PROVE  FlushInv'
  <2>1. ASSUME NEW j \in Kinds, j # k PROVE BatchInv(j)' /\ DueInv(j)'
    BY <1>1, <2>1 DEF Bystanders, FlushInv, BatchInv, DueInv, Settled, running
  <2>2. app' = "exited" => \A j \in Kinds : flusher'[j].at = Gone
    BY <1>1 DEF Bystanders, FlushInv, running
  <2>. QED  BY <1>1, <2>1, <2>2 DEF FlushInv
<1>a. app # "exited"
  BY DEF Flush, Tick, FinalFlush, Collect, Bulk, Alive
<1>2. CASE Tick(k) \/ FinalFlush(k)
  <2>1. BatchInv(k)'
    BY <1>2, TickFields DEF BatchInv, Bystanders, running, Gone
  <2>2. DueInv(k)'
    <3>1. /\ flusher[k].batch = {} /\ flusher'[k].at = 1
          /\ UNCHANGED <<flushCtx, due, waiting, delivered, lost>>
      BY <1>2, TickFields DEF FlushInv, BatchInv, Bystanders, running
    <3>2. \A l \in LB : l >= 1
      OBVIOUS
    <3>. QED  BY <3>1, <3>2 DEF FlushInv, DueInv, Settled
  <2>. QED  BY <1>1, <1>2, <1>a, <2>1, <2>2, TickFields
<1>3. CASE Collect(k)
  <2>1. BatchInv(k)'
    BY <1>3, CollectFields DEF FlushInv, BatchInv, Bystanders, running, Gone
  <2>2. DueInv(k)'
    <3>. SUFFICES ASSUME flushCtx, NEW i \in due[k]
                  PROVE  \/ i \in Settled(k)' \/ i \in flusher'[k].batch
                         \/ \E l \in LB : /\ i \in waiting'[k][l]
                                          /\ flusher'[k].final => l >= flusher'[k].at
      BY <1>3, CollectFields DEF DueInv, Bystanders, running
    <3>1. CASE i \in Settled(k) \/ i \in flusher[k].batch
      BY <1>3, <3>1, CollectFields DEF Settled
    <3>2. ASSUME NEW l \in LB, i \in waiting[k][l], flusher[k].final => l >= flusher[k].at
          PROVE  \/ i \in flusher'[k].batch
                 \/ i \in waiting'[k][l] /\ (flusher'[k].final => l >= flusher'[k].at)
      <4>1. CASE l = flusher[k].at
        BY <1>3, <3>2, <4>1, CollectFields
      <4>2. CASE l # flusher[k].at
        BY <1>3, <3>2, <4>2, CollectFields
      <4>. QED  BY <4>1, <4>2
    <3>. QED  BY <3>1, <3>2 DEF FlushInv, DueInv
  <2>. QED  BY <1>1, <1>3, <1>a, <2>1, <2>2, CollectFields
<1>4. ASSUME NEW D, Bulk(k, D) PROVE FlushInv'
  <2>1. BatchInv(k)'
    BY <1>4, BulkFields DEF FlushInv, BatchInv, Bystanders, running, Gone
  <2>2. Settled(k)' = Settled(k) \cup flusher[k].batch
    BY <1>4, BulkFields DEF Settled
  <2>3. DueInv(k)'
    <3>1. /\ flusher[k].at = L + 1 /\ flusher'[k].final = flusher[k].final
          /\ UNCHANGED <<flushCtx, due, waiting>>
      BY <1>4, BulkFields DEF Bystanders, running
    <3>2. \A l \in LB : ~(l >= L + 1)
      OBVIOUS
    <3>. QED  BY <2>2, <3>1, <3>2 DEF FlushInv, DueInv
  <2>. QED  BY <1>1, <1>4, <1>a, <2>1, <2>3, BulkFields
<1>. QED  BY <1>2, <1>3, <1>4 DEF Flush

LEMMA FlushStep == TypeOK /\ ShutInv /\ FlushInv /\ [Next]_vars => FlushInv'
<1>. SUFFICES ASSUME TypeOK, ShutInv, FlushInv, [Next]_vars PROVE FlushInv'
  OBVIOUS
<1>1. ASSUME UNCHANGED <<flushCtx, waiting, flusher, delivered, lost, due>>,
             app' = "exited" => \A k \in Kinds : flusher[k].at = Gone
      PROVE  FlushInv'
  BY <1>1 DEF FlushInv, BatchInv, DueInv, Settled
<1>2. ASSUME NEW l \in LB, Start(l) PROVE FlushInv'
  BY <1>1, <1>2 DEF Start, running, reporting, FlushInv
<1>3. ASSUME NEW r \in Requests, Handle(r) PROVE FlushInv'
  <2>1. /\ UNCHANGED <<running, flusher, delivered, lost, due>>
        /\ \A k \in Kinds, l \in LB : waiting[k][l] \subseteq waiting'[k][l]
    BY <1>3, HandleFields
  <2>. QED  BY <2>1 DEF FlushInv, BatchInv, DueInv, Settled, running
<1>4. ASSUME NEW k \in Kinds, Flush(k) PROVE FlushInv'
  BY <1>4, FlushInvByFlush
<1>5. CASE Signal \/ Expire \/ ShutdownNext
  BY <1>1, <1>5 DEF Signal, Expire, ShutdownNext, reporting, serving
<1>6. CASE CancelAll
  <2>1. ~flushCtx /\ flushCtx' /\ UNCHANGED <<waiting, flusher, delivered, lost>>
    BY <1>6 DEF CancelAll, ShutInv
  <2>2. ASSUME NEW k \in Kinds PROVE BatchInv(k)' /\ DueInv(k)'
    <3>1. due'[k] = InMemory(k) /\ ~flusher[k].final
      BY <1>6, <2>1 DEF CancelAll, FlushInv, BatchInv
    <3>. QED  BY <2>1, <3>1 DEF FlushInv, BatchInv, DueInv, InMemory
  <2>. QED  BY <1>6, <2>2 DEF CancelAll, FlushInv
<1>7. CASE Exit
  BY <1>1, <1>7 DEF Exit, reporting, serving
<1>8. CASE UNCHANGED vars
  BY <1>1, <1>8 DEF vars, FlushInv
<1>. QED  BY <1>2, <1>3, <1>4, <1>5, <1>6, <1>7, <1>8 DEF Next, Run

LEMMA FlushAlways == Spec => [](TypeOK /\ ShutInv /\ FlushInv)
BY FlushInit, FlushStep, TypeCorrect, ShutAlways, PTL DEF Spec

\* Whatever was in memory when flushCtx was cancelled has gone through Bulk when the
\* process ends (app.go:97-99).
THEOREM FinalFlushComplete == Spec => []FinalFlushTakesAll
<1>1. TypeOK /\ ShutInv /\ FlushInv => FinalFlushTakesAll
  <2>. SUFFICES ASSUME TypeOK, ShutInv, FlushInv, app = "exited",
                       NEW k \in Kinds, NEW i \in due[k]
                PROVE  i \in Settled(k)
    BY DEF FinalFlushTakesAll
  <2>1. flusher[k].at = Gone /\ flusher[k].final /\ flusher[k].batch = {} /\ flushCtx
    BY DEF FlushInv, BatchInv
  <2>2. \A l \in LB : ~(l >= Gone)
    BY ConstantsOK DEF Gone
  <2>. QED  BY <2>1, <2>2 DEF FlushInv, DueInv
<1>. QED  BY <1>1, FlushAlways, PTL

-----------------------------------------------------------------------------
(* A drain within the deadline.  The servers shut so far are quiet and     *)
(* stay so, hence only hijacked connections report anything any more, and  *)
(* only they can leave something at a load balancer the final flush has    *)
(* already visited.                                                        *)

QuietInv == deadline = "running" => \A l \in LB : l < draining => Quiet(l)

LeftInv ==
  flushCtx /\ deadline = "running" =>
    \A k \in Kinds, l \in LB :
      flusher[k].final /\ l < flusher[k].at =>
        \A i \in waiting[k][l] : i[1] \in hijacked

DrainInv == QuietInv /\ LeftInv

LEMMA QuietStays ==
  ASSUME TypeOK, NEW r \in Requests, Handle(r), NEW l \in LB, server[l] = "shut", Quiet(l)
  PROVE  Quiet(l)'
<1>1. PICK from, to \in Stages :
        /\ Moved(r, from, to)
        /\ hijacked' # hijacked => r \in Upgrades /\ hijacked' = hijacked \cup {r}
  BY HandleSteps DEF Stepped
<1>2. hijacked \subseteq hijacked' /\ home' = home
  BY <1>1 DEF Moved, Goes
<1>3. ASSUME NEW q \in Requests \ hijacked', home'[q] = l
      PROVE  conn'[q] \in {"none", "over"}
  <2>1. conn[q] \in {"none", "over"}
    BY <1>2, <1>3 DEF Quiet
  <2>2. CASE q = r
    BY <1>1, <1>2, <1>3, <2>1, <2>2 DEF Moved, Goes, Onward
  <2>3. CASE q # r
    BY <1>1, <2>1, <2>3 DEF Moved, Goes, TypeOK
  <2>. QED  BY <2>2, <2>3
<1>. QED  BY <1>3 DEF Quiet

LEMMA DrainStep == TypeOK /\ ShutInv /\ FlushInv /\ DrainInv /\ [Next]_vars => DrainInv'
<1>. SUFFICES ASSUME TypeOK, ShutInv, FlushInv, DrainInv, [Next]_vars PROVE DrainInv'
  OBVIOUS
<1>. USE ConstantsOK DEF DrainInv
<1>1. ASSUME UNCHANGED <<serving, flushCtx, waiting, flusher>>,
             deadline' = "running" => deadline = "running" /\ draining' = draining
      PROVE  DrainInv'
  BY <1>1 DEF QuietInv, LeftInv, Quiet, serving
<1>2. ASSUME NEW l \in LB, Start(l) PROVE DrainInv'
  BY <1>2 DEF Start, running, reporting, QuietInv, LeftInv, Quiet
<1>3. ASSUME NEW r \in Requests, Handle(r) PROVE DrainInv'
  <2>1. UNCHANGED running /\ flusher' = flusher /\ hijacked \subseteq hijacked'
    BY <1>3, HandleSteps DEF Stepped, Moved, Goes
  <2>2. QuietInv'
    <3>. SUFFICES ASSUME deadline = "running", NEW l \in LB, l < draining PROVE Quiet(l)'
      BY <2>1 DEF QuietInv, running
    <3>1. server[l] = "shut" /\ Quiet(l)
      BY DEF ShutInv, QuietInv, TypeOK
    <3>. QED  BY <1>3, <3>1, QuietStays
  <2>3. LeftInv'
    <3>. SUFFICES ASSUME flushCtx, deadline = "running", NEW k \in Kinds, NEW l \in LB,
                         flusher[k].final, l < flusher[k].at, NEW i \in waiting'[k][l]
                  PROVE  i[1] \in hijacked'
      BY <2>1 DEF LeftInv, running
    <3>1. CASE i \in waiting[k][l]
      BY <2>1, <3>1 DEF LeftInv
    <3>2. CASE i \notin waiting[k][l]
      <4>1. i[1] = r /\ l = home[r] /\ conn[r] \in Inside
        BY <1>3, <3>2, HandleFields
      <4>2. draining = L + 1
        BY DEF ShutInv, TypeOK
      <4>3. Quiet(l)
        BY <4>2 DEF QuietInv
      <4>4. r \in hijacked
        BY <4>1, <4>3 DEF Quiet, Inside
      <4>. QED  BY <2>1, <4>1, <4>4
    <3>. QED  BY <3>1, <3>2
  <2>. QED  BY <2>2, <2>3
<1>4. ASSUME NEW k \in Kinds, Flush(k) PROVE DrainInv'
  <2>1. UNCHANGED <<running, serving>>
    BY <1>4, FlushSteps
  <2>2. QuietInv'
    BY <2>1 DEF QuietInv, Quiet, running, serving
  <2>3. LeftInv'
    <3>. SUFFICES ASSUME flushCtx, deadline = "running", NEW j \in Kinds, NEW l \in LB,
                         flusher'[j].final, l < flusher'[j].at, NEW i \in waiting'[j][l]
                  PROVE  i[1] \in hijacked
      BY <2>1 DEF LeftInv, running, serving
    <3>1. CASE Tick(k) \/ FinalFlush(k)
      BY <3>1, TickFields DEF LeftInv, Bystanders
    <3>2. CASE Collect(k)
      <4>1. CASE j # k
        BY <3>2, <4>1, CollectFields DEF LeftInv, Bystanders
      <4>2. CASE j = k
        <5>1. l # flusher[k].at /\ l < flusher[k].at
          BY <3>2, <4>2, CollectFields
        <5>. QED  BY <3>2, <4>2, <5>1, CollectFields DEF LeftInv
      <4>. QED  BY <4>1, <4>2
    <3>3. ASSUME NEW D, Bulk(k, D) PROVE i[1] \in hijacked
      <4>1. CASE j # k
        BY <3>3, <4>1, BulkFields DEF LeftInv, Bystanders
      <4>2. CASE j = k
        <5>1. l < flusher[k].at /\ flusher[k].final /\ i \in waiting[k][l]
          BY <3>3, <4>2, BulkFields
        <5>. QED  BY <4>2, <5>1 DEF LeftInv
      <4>. QED  BY <4>1, <4>2
    <3>. QED  BY <1>4, <3>1, <3>2, <3>3 DEF Flush
  <2>. QED  BY <2>2, <2>3
<1>5. CASE Signal
  BY <1>5 DEF Signal, ShutInv, QuietInv, LeftInv
<1>6. CASE Expire
  BY <1>1, <1>6 DEF Expire, reporting
<1>7. CASE ShutdownNext
  <2>1. /\ UNCHANGED <<deadline, flushCtx, conn, home, hijacked, reporting>>
        /\ draining' = draining + 1 /\ draining \in LB
        /\ Quiet(draining) \/ deadline = "expired"
    BY <1>7 DEF ShutdownNext
  <2>2. QuietInv'
    BY <2>1 DEF QuietInv, Quiet
  <2>. QED  BY <2>1, <2>2 DEF LeftInv, reporting
<1>8. CASE CancelAll
  BY <1>8 DEF CancelAll, serving, QuietInv, Quiet, LeftInv, FlushInv, BatchInv, ShutInv
<1>9. CASE Exit
  BY <1>1, <1>9 DEF Exit, reporting
<1>10. CASE UNCHANGED vars
  BY <1>1, <1>10 DEF vars, serving
<1>. QED  BY <1>2, <1>3, <1>4, <1>5, <1>6, <1>7, <1>8, <1>9, <1>10 DEF Next, Run

\* A process whose servers drained in time leaves nothing in memory but what a
\* hijacked connection recorded too late (app.go:85-99).
THEOREM CleanDrainComplete == Spec => []CleanDrainLosesNothing
<1>1. Init => DrainInv
  BY DEF Init, DrainInv, QuietInv, LeftInv
<1>2. Spec => [](TypeOK /\ ShutInv /\ FlushInv /\ DrainInv)
  BY <1>1, DrainStep, FlushAlways, PTL DEF Spec
<1>3. TypeOK /\ ShutInv /\ FlushInv /\ DrainInv => CleanDrainLosesNothing
  <2>. SUFFICES ASSUME TypeOK, ShutInv, FlushInv, DrainInv,
                       app = "exited", deadline = "running",
                       NEW k \in Kinds, NEW i \in InMemory(k)
                PROVE  i[1] \in hijacked
    BY DEF CleanDrainLosesNothing
  <2>1. flusher[k].at = Gone /\ flusher[k].final /\ flusher[k].batch = {} /\ flushCtx
    BY DEF FlushInv, BatchInv
  <2>2. PICK l \in LB : i \in waiting[k][l]
    BY <2>1 DEF InMemory
  <2>3. l < Gone
    BY ConstantsOK DEF Gone
  <2>. QED  BY <2>1, <2>2, <2>3 DEF DrainInv, LeftInv
<1>. QED  BY <1>2, <1>3, PTL

-----------------------------------------------------------------------------
(* Refinement: logs and metrics each keep the promise of the telemetry     *)
(* ledger.  An item is in one place only, and it is somewhere only if its  *)
(* request has come far enough.                                            *)

OnceInv(k) ==
  /\ \A l \in LB : \A i \in waiting[k][l] :
       home[i[1]] = l /\ i \notin flusher[k].batch \cup Settled(k)
  /\ flusher[k].batch \cap Settled(k) = {}
  /\ delivered[k] \cap lost[k] = {}
  /\ \A i \in InMemory(k) \cup Settled(k) : conn[i[1]] \in Past(k, i[2])

LEMMA PastGrows ==
  ASSUME TypeOK, NEW r \in Requests, Handle(r), NEW k \in Kinds, NEW i \in Items,
         conn[i[1]] \in Past(k, i[2])
  PROVE  conn'[i[1]] \in Past(k, i[2])
<1>1. PICK from, to \in Stages : Moved(r, from, to)
  BY HandleSteps DEF Stepped
<1>2. i[1] \in Requests /\ i[2] \in {1, 2}
  BY DEF Items
<1>3. CASE i[1] = r
  BY <1>1, <1>2, <1>3 DEF Moved, Goes, Onward, TypeOK
<1>4. CASE i[1] # r
  BY <1>1, <1>2, <1>4 DEF Moved, Goes, TypeOK
<1>. QED  BY <1>3, <1>4

\* What handlers do to the buffers of kind k: nothing, or one item arrives that was
\* nowhere before.
LEMMA HandleProduces ==
  ASSUME TypeOK, NEW r \in Requests, Handle(r), NEW k \in Kinds, OnceInv(k)
  PROVE  \/ \A l \in LB : waiting'[k][l] = waiting[k][l]
         \/ \E n \in {1, 2} :
              /\ \A l \in LB : waiting'[k][l] =
                   IF l = home[r] THEN waiting[k][l] \cup {<<r, n>>} ELSE waiting[k][l]
              /\ <<r, n>> \notin InMemory(k) \cup Settled(k)
              /\ conn'[r] \in Past(k, n)
<1>1. home[r] \in LB
  BY DEF TypeOK
<1>2. CASE waiting'[k][home[r]] = waiting[k][home[r]]
  BY <1>2, HandleFields
<1>3. CASE waiting'[k][home[r]] # waiting[k][home[r]]
  <2>1. PICK n \in {1, 2} :
          /\ waiting'[k][home[r]] = waiting[k][home[r]] \cup {<<r, n>>}
          /\ conn[r] \in Inside \ Past(k, n)
          /\ conn'[r] \in Past(k, n)
    BY <1>1, <1>3, HandleFields
  <2>2. <<r, n>> \notin InMemory(k) \cup Settled(k)
    BY <2>1 DEF OnceInv
  <2>3. \A l \in LB : l # home[r] => waiting'[k][l] = waiting[k][l]
    BY HandleFields
  <2>. QED  BY <2>1, <2>2, <2>3
<1>. QED  BY <1>2, <1>3

LEMMA OnceByHandle ==
  ASSUME TypeOK, NEW r \in Requests, Handle(r), NEW k \in Kinds, OnceInv(k)
  PROVE  OnceInv(k)'
<1>1. UNCHANGED <<home, flusher, delivered, lost>>
  BY HandleFields
<1>2. InMemory(k) \cup Settled(k) \subseteq Items
  <2>1. \A l \in LB : waiting[k][l] \subseteq Items
    <3>1. waiting[k] \in [LB -> SUBSET Items]
      BY DEF TypeOK
    <3>. QED  BY <3>1
  <2>2. flusher[k].batch \subseteq Items
    <3>1. flusher[k] \in Flushers
      BY DEF TypeOK, Flushers
    <3>. QED  BY <3>1 DEF Flushers
  <2>3. delivered[k] \subseteq Items /\ lost[k] \subseteq Items
    BY DEF TypeOK
  <2>. HIDE DEF LB
  <2>. QED  BY <2>1, <2>2, <2>3 DEF InMemory, Settled
<1>3. \A i \in InMemory(k) \cup Settled(k) : conn'[i[1]] \in Past(k, i[2])
  BY <1>2, PastGrows DEF OnceInv
<1>4. CASE \A l \in LB : waiting'[k][l] = waiting[k][l]
  BY <1>1, <1>3, <1>4 DEF OnceInv, InMemory, Settled
<1>5. ASSUME NEW n \in {1, 2},
             \A l \in LB : waiting'[k][l] =
               IF l = home[r] THEN waiting[k][l] \cup {<<r, n>>} ELSE waiting[k][l],
             <<r, n>> \notin InMemory(k) \cup Settled(k),
             conn'[r] \in Past(k, n)
      PROVE  OnceInv(k)'
  <2>1. \A l \in LB : \A i \in waiting'[k][l] :
          (i = <<r, n>> /\ l = home[r]) \/ i \in waiting[k][l]
    BY <1>5
  <2>2. \A l \in LB : \A i \in waiting'[k][l] :
          home[i[1]] = l /\ i \notin flusher[k].batch \cup Settled(k)
    BY <1>5, <2>1 DEF OnceInv, InMemory
  <2>3. \A i \in InMemory(k)' \cup Settled(k) : i = <<r, n>> \/ i \in InMemory(k) \cup Settled(k)
    BY <1>1, <2>1 DEF InMemory
  <2>4. \A i \in InMemory(k)' \cup Settled(k) : conn'[i[1]] \in Past(k, i[2])
    BY <1>3, <1>5, <2>3
  <2>. QED  BY <1>1, <2>2, <2>4 DEF OnceInv, Settled
<1>. QED  BY <1>4, <1>5, HandleProduces

LEMMA OnceByFlush ==
  ASSUME TypeOK, FlushInv, NEW k \in Kinds, Flush(k), NEW j \in Kinds, OnceInv(j)
  PROVE  OnceInv(j)'
<1>1. UNCHANGED serving
  BY FlushSteps
<1>2. CASE Tick(k) \/ FinalFlush(k)
  <2>1. UNCHANGED <<waiting, delivered, lost>> /\ flusher'[j].batch = flusher[j].batch
    BY <1>2, TickFields DEF FlushInv, BatchInv, Bystanders
  <2>. QED  BY <1>1, <2>1 DEF OnceInv, Settled, InMemory, serving
<1>3. ASSUME Bystanders(k), j # k PROVE OnceInv(j)'
  BY <1>1, <1>3 DEF Bystanders, OnceInv, Settled, InMemory, serving
<1>4. CASE Collect(k) /\ j = k
  <2>. DEFINE l == flusher[k].at
  <2>1. /\ l \in LB /\ waiting'[k][l] = {}
        /\ \A m \in LB : m # l => waiting'[k][m] = waiting[k][m]
        /\ flusher'[k].batch = flusher[k].batch \cup waiting[k][l]
        /\ UNCHANGED <<delivered, lost>>
    BY <1>4, CollectFields
  <2>. HIDE DEF l
  <2>2. InMemory(k)' \subseteq InMemory(k) /\ Settled(k)' = Settled(k)
    BY <2>1 DEF InMemory, Settled
  <2>3. ASSUME NEW m \in LB, NEW i \in waiting'[k][m]
        PROVE  home[i[1]] = m /\ i \notin flusher'[k].batch \cup Settled(k)
    <3>1. m # l /\ i \in waiting[k][m]
      BY <2>1, <2>3
    <3>2. home[i[1]] = m /\ i \notin flusher[k].batch \cup Settled(k)
      BY <1>4, <3>1 DEF OnceInv
    <3>3. i \notin waiting[k][l]
      BY <1>4, <2>1, <3>1, <3>2 DEF OnceInv
    <3>. QED  BY <2>1, <3>2, <3>3
  <2>4. flusher'[k].batch \cap Settled(k) = {}
    BY <1>4, <2>1 DEF OnceInv
  <2>. QED  BY <1>1, <1>4, <2>1, <2>2, <2>3, <2>4 DEF OnceInv, serving
<1>5. ASSUME NEW D, Bulk(k, D), j = k PROVE OnceInv(j)'
  <2>1. /\ waiting' = waiting /\ flusher'[k].batch = {} /\ D \subseteq flusher[k].batch
        /\ delivered'[k] = delivered[k] \cup D
        /\ lost'[k] = lost[k] \cup (flusher[k].batch \ D)
    BY <1>5, BulkFields
  <2>2. Settled(k)' = Settled(k) \cup flusher[k].batch
    BY <2>1 DEF Settled
  <2>3. InMemory(k)' \cup Settled(k)' = InMemory(k) \cup Settled(k)
    BY <2>1, <2>2 DEF InMemory
  <2>4. delivered'[k] \cap lost'[k] = {}
    BY <1>5, <2>1 DEF OnceInv, Settled
  <2>. QED  BY <1>1, <1>5, <2>1, <2>2, <2>3, <2>4 DEF OnceInv, serving
<1>. QED  BY <1>2, <1>3, <1>4, <1>5, CollectFields, BulkFields DEF Flush

LEMMA OnceStep ==
  ASSUME TypeOK, FlushInv, [Next]_vars, NEW k \in Kinds, OnceInv(k)
  PROVE  OnceInv(k)'
<1>1. ASSUME UNCHANGED <<conn, home, waiting, flusher, delivered, lost>> PROVE OnceInv(k)'
  BY <1>1 DEF OnceInv, InMemory, Settled
<1>2. CASE \E l \in LB : Start(l)
  BY <1>1, <1>2 DEF Start, reporting
<1>3. CASE Run
  BY <1>1, <1>3 DEF Run, Signal, Expire, ShutdownNext, CancelAll, Exit, serving, reporting
<1>4. CASE UNCHANGED vars
  BY <1>1, <1>4 DEF vars
<1>. QED  BY <1>2, <1>3, <1>4, OnceByHandle, OnceByFlush DEF Next

LEMMA OnceAlways == Spec => [](TypeOK /\ FlushInv /\ \A k \in Kinds : OnceInv(k))
<1>1. Init => \A k \in Kinds : OnceInv(k)
  BY DEF Init, OnceInv, InMemory, Settled, At
<1>2. TypeOK /\ FlushInv /\ (\A k \in Kinds : OnceInv(k)) /\ [Next]_vars
        => (\A k \in Kinds : OnceInv(k))'
  BY OnceStep
<1>. QED  BY <1>1, <1>2, FlushAlways, PTL DEF Spec

-----------------------------------------------------------------------------
(* The steps of the ledger, given by where items are before and after.     *)

LEMMA PlaceInStages ==
  ASSUME NEW k, NEW i
  PROVE  Place(k, i) \in {"unborn", "pending", "taken", "delivered", "lost"}
BY DEF Place

LEMMA LedgerStutters ==
  ASSUME NEW k \in Kinds, \A i \in Items : Place(k, i)' = Place(k, i)
  PROVE  Ledger(k)!Step
BY DEF Ledger!Step

LEMMA LedgerProduces ==
  ASSUME NEW k \in Kinds,
         \A i \in Items : Place(k, i)' # Place(k, i) =>
           Place(k, i) = "unborn" /\ Place(k, i)' = "pending"
  PROVE  Ledger(k)!Step
BY PlaceInStages DEF Ledger!Step, Ledger!Next, Ledger!Produce, Ledger!Moves, Ledger!Stages

LEMMA LedgerTakes ==
  ASSUME NEW k \in Kinds,
         \A i \in Items : Place(k, i)' # Place(k, i) =>
           Place(k, i) = "pending" /\ Place(k, i)' = "taken"
  PROVE  Ledger(k)!Step
BY PlaceInStages DEF Ledger!Step, Ledger!Next, Ledger!Take, Ledger!Moves, Ledger!Stages

LEMMA LedgerSettles ==
  ASSUME NEW k \in Kinds,
         \A i \in Items : Place(k, i)' # Place(k, i) =>
           Place(k, i) = "taken" /\ Place(k, i)' \in {"delivered", "lost"},
         \A i \in Items : Place(k, i)' # "taken"
  PROVE  Ledger(k)!Step
BY PlaceInStages DEF Ledger!Step, Ledger!Next, Ledger!Settle, Ledger!Moves, Ledger!Stages

LEMMA HandleKeepsLedger ==
  ASSUME TypeOK, NEW r \in Requests, Handle(r), NEW k \in Kinds, OnceInv(k)
  PROVE  Ledger(k)!Step
<1>1. UNCHANGED <<flusher, delivered, lost>> /\ home[r] \in LB
  BY HandleFields DEF TypeOK
<1>2. CASE \A l \in LB : waiting'[k][l] = waiting[k][l]
  BY <1>1, <1>2, LedgerStutters DEF Place
<1>3. ASSUME NEW n \in {1, 2},
             \A l \in LB : waiting'[k][l] =
               IF l = home[r] THEN waiting[k][l] \cup {<<r, n>>} ELSE waiting[k][l],
             <<r, n>> \notin InMemory(k) \cup Settled(k)
      PROVE  Ledger(k)!Step
  <2>1. Place(k, <<r, n>>) = "unborn"
    BY <1>3 DEF Place, InMemory, Settled
  <2>2. Place(k, <<r, n>>)' = "pending"
    BY <1>1, <1>3 DEF Place
  <2>3. ASSUME NEW i \in Items, i # <<r, n>> PROVE Place(k, i)' = Place(k, i)
    BY <1>1, <1>3, <2>3 DEF Place
  <2>. QED  BY <2>1, <2>2, <2>3, LedgerProduces
<1>4. \/ \A l \in LB : waiting'[k][l] = waiting[k][l]
      \/ \E n \in {1, 2} :
           /\ \A l \in LB : waiting'[k][l] =
                IF l = home[r] THEN waiting[k][l] \cup {<<r, n>>} ELSE waiting[k][l]
           /\ <<r, n>> \notin InMemory(k) \cup Settled(k)
           /\ conn'[r] \in Past(k, n)
  BY HandleProduces, ZenonT(30)
<1>. QED  BY <1>2, <1>3, <1>4

LEMMA FlushKeepsLedger ==
  ASSUME TypeOK, FlushInv, NEW k \in Kinds, Flush(k), NEW j \in Kinds, OnceInv(j)
  PROVE  Ledger(j)!Step
<1>1. ASSUME UNCHANGED <<waiting, delivered, lost>>, flusher'[j].batch = flusher[j].batch
      PROVE  Ledger(j)!Step
  BY <1>1, LedgerStutters DEF Place
<1>2. CASE Tick(k) \/ FinalFlush(k)
  BY <1>1, <1>2, TickFields DEF FlushInv, BatchInv, Bystanders
<1>3. ASSUME Bystanders(k), j # k PROVE Ledger(j)!Step
  BY <1>3, LedgerStutters DEF Place, Bystanders
<1>4. CASE Collect(k) /\ j = k
  <2>. DEFINE l == flusher[k].at
  <2>1. /\ l \in LB /\ waiting'[k][l] = {}
        /\ \A m \in LB : m # l => waiting'[k][m] = waiting[k][m]
        /\ flusher'[k].batch = flusher[k].batch \cup waiting[k][l]
        /\ UNCHANGED <<delivered, lost>>
    BY <1>4, CollectFields
  <2>. HIDE DEF l
  <2>2. ASSUME NEW i \in waiting[k][l]
        PROVE  Place(k, i) = "pending" /\ Place(k, i)' = "taken"
    <3>1. \A m \in LB : i \notin waiting'[k][m]
      BY <1>4, <2>1, <2>2 DEF OnceInv
    <3>. QED  BY <2>1, <2>2, <3>1 DEF Place
  <2>3. ASSUME NEW i \in Items, i \notin waiting[k][l] PROVE Place(k, i)' = Place(k, i)
    <3>1. \A m \in LB : i \in waiting'[k][m] <=> i \in waiting[k][m]
      BY <2>1, <2>3
    <3>. QED  BY <2>1, <2>3, <3>1 DEF Place
  <2>. QED  BY <1>4, <2>2, <2>3, LedgerTakes
<1>5. ASSUME NEW D, Bulk(k, D), j = k PROVE Ledger(j)!Step
  <2>1. /\ waiting' = waiting /\ flusher'[k].batch = {} /\ D \subseteq flusher[k].batch
        /\ delivered'[k] = delivered[k] \cup D
        /\ lost'[k] = lost[k] \cup (flusher[k].batch \ D)
    BY <1>5, BulkFields
  <2>2. \A i \in Items : Place(k, i)' # "taken"
    BY <2>1 DEF Place
  <2>3. ASSUME NEW i \in Items, i \in flusher[k].batch
        PROVE  Place(k, i) = "taken" /\ Place(k, i)' \in {"delivered", "lost"}
    <3>1. \A m \in LB : i \notin waiting[k][m]
      BY <1>5, <2>3 DEF OnceInv
    <3>. QED  BY <2>1, <2>3, <3>1 DEF Place
  <2>4. ASSUME NEW i \in Items, i \notin flusher[k].batch
        PROVE  Place(k, i)' = Place(k, i)
    BY <2>1, <2>4 DEF Place
  <2>. QED  BY <1>5, <2>2, <2>3, <2>4, LedgerSettles
<1>. QED  BY <1>2, <1>3, <1>4, <1>5, CollectFields, BulkFields DEF Flush

LEMMA LedgerImplemented ==
  ASSUME TypeOK, FlushInv, [Next]_vars, NEW k \in Kinds, OnceInv(k)
  PROVE  Ledger(k)!Step
<1>1. ASSUME UNCHANGED <<waiting, flusher, delivered, lost>> PROVE Ledger(k)!Step
  BY <1>1, LedgerStutters DEF Place
<1>2. CASE \E l \in LB : Start(l)
  BY <1>1, <1>2 DEF Start, reporting
<1>3. CASE Run
  BY <1>1, <1>3 DEF Run, Signal, Expire, ShutdownNext, CancelAll, Exit, reporting
<1>4. CASE UNCHANGED vars
  BY <1>1, <1>4 DEF vars
<1>. QED  BY <1>2, <1>3, <1>4, HandleKeepsLedger, FlushKeepsLedger DEF Next

\* The whole process implements the telemetry ledger, for logs and for metrics: an
\* item is flushed at most once, and only a flush takes or loses it.
THEOREM AppImplementsLedger == Spec => KeepsLedger
<1>1. Init => \A k \in Kinds : Ledger(k)!Init
  <2>. SUFFICES ASSUME Init, NEW k \in Kinds
                PROVE  \A i \in Items : Place(k, i) = "unborn"
    BY DEF Ledger!Init
  <2>. QED  BY DEF Init, Place, At
<1>2. TypeOK /\ FlushInv /\ (\A k \in Kinds : OnceInv(k)) /\ [Next]_vars
        => [\A k \in Kinds : Ledger(k)!Step]_vars
  BY LedgerImplemented
<1>. QED  BY <1>1, <1>2, OnceAlways, PTL DEF Spec, KeepsLedger
=============================================================================
