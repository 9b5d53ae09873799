---------------------------- MODULE TraderProofs ----------------------------
(***************************************************************************)
(* Proofs about Trader, for every finite set of requests, every set of     *)
(* symbols, every window and every number of resets.                       *)
(*                                                                         *)
(* The argument counts threads.  A thread between its append and its pop   *)
(* has one price in the window that the window may still have to give up,  *)
(* and values[a] minus the number of those threads never decreases.        *)
(***************************************************************************)
EXTENDS Trader, FiniteSetTheorems, TLAPS

\* The threads that work on a and are at one of the points ps, and their number.
At(a, ps)    == {t \in Trades : avg[t] = a /\ pc[t] \in ps}
Count(a, ps) == Cardinality(At(a, ps))

One(condition) == IF condition THEN 1 ELSE 0

LEMMA FiniteAt ==
  ASSUME NEW a, NEW ps
  PROVE  IsFiniteSet(At(a, ps)) /\ Count(a, ps) \in Nat
<1>1. At(a, ps) \subseteq Trades /\ IsFiniteSet(Trades)
  BY TraderAssumption DEF At
<1>2. IsFiniteSet(At(a, ps))
  BY <1>1, FS_Subset
<1>. QED  BY <1>2, FS_CardinalityType DEF Count

LEMMA CountEmpty ==
  ASSUME NEW a, NEW ps, At(a, ps) = {}
  PROVE  Count(a, ps) = 0
BY FS_EmptySet DEF Count

LEMMA CountGrows ==
  ASSUME NEW a, NEW ps, NEW qs, ps \subseteq qs
  PROVE  Count(a, ps) <= Count(a, qs)
<1>1. At(a, ps) \subseteq At(a, qs)
  BY DEF At
<1>2. IsFiniteSet(At(a, qs))
  BY FiniteAt
<1>. QED  BY <1>1, <1>2, FS_Subset DEF Count

LEMMA CountPositive ==
  ASSUME NEW a, NEW ps, NEW t \in Trades, avg[t] = a, pc[t] \in ps
  PROVE  Count(a, ps) >= 1
<1>1. t \in At(a, ps)
  BY DEF At
<1>2. IsFiniteSet(At(a, ps)) /\ Count(a, ps) \in Nat
  BY FiniteAt
<1>3. Count(a, ps) # 0
  BY <1>1, <1>2, FS_EmptySet DEF Count
<1>. QED  BY <1>2, <1>3

\* A move of one thread changes the numbers of its own average by that thread.
LEMMA CountMoves ==
  ASSUME TraderTypeOK, NEW t \in Trades, NEW from, NEW to, Goes(t, from, to), UNCHANGED avg,
         NEW a, NEW ps
  PROVE  /\ Count(a, ps) \in Nat /\ Count(a, ps)' \in Nat
         /\ Count(a, ps)' = Count(a, ps) + One(avg[t] = a /\ to \in ps)
                                         - One(avg[t] = a /\ from \in ps)
<1>1. pc[t] = from /\ pc'[t] = to /\ \A u \in Trades \ {t} : pc'[u] = pc[u]
  BY DEF Goes, TraderTypeOK
<1>2. IsFiniteSet(At(a, ps)) /\ Count(a, ps) \in Nat
  BY FiniteAt
<1>3. CASE avg[t] # a \/ (to \in ps <=> from \in ps)
  <2>1. At(a, ps)' = At(a, ps)
    BY <1>1, <1>3 DEF At
  <2>. QED  BY <1>2, <1>3, <2>1 DEF Count, One
<1>4. CASE avg[t] = a /\ to \in ps /\ from \notin ps
  <2>1. At(a, ps)' = At(a, ps) \cup {t} /\ t \notin At(a, ps)
    BY <1>1, <1>4 DEF At
  <2>2. Cardinality(At(a, ps) \cup {t}) = Cardinality(At(a, ps)) + 1
    BY <1>2, <2>1, FS_AddElement
  <2>. QED  BY <1>2, <1>4, <2>1, <2>2 DEF Count, One
<1>5. CASE avg[t] = a /\ to \notin ps /\ from \in ps
  <2>1. At(a, ps)' = At(a, ps) \ {t} /\ t \in At(a, ps)
    BY <1>1, <1>5 DEF At
  <2>2. Cardinality(At(a, ps) \ {t}) = Cardinality(At(a, ps)) - 1 /\ IsFiniteSet(At(a, ps) \ {t})
    BY <1>2, <2>1, FS_RemoveElement
  <2>3. Cardinality(At(a, ps) \ {t}) \in Nat
    BY <2>2, FS_CardinalityType
  <2>. QED  BY <1>2, <1>5, <2>1, <2>2, <2>3 DEF Count, One
<1>. QED  BY <1>3, <1>4, <1>5

\* A thread may change its average where it is not counted.
LEMMA CountLooks ==
  ASSUME TraderTypeOK, NEW t \in Trades, NEW from, NEW to, LookUp(t, from, to),
         NEW a, NEW ps, from \notin ps, to \notin ps, "no_symbol" \notin ps
  PROVE  Count(a, ps)' = Count(a, ps)
<1>1. pc[t] \notin ps /\ pc'[t] \notin ps
  BY DEF LookUp, Goes, TraderTypeOK
<1>2. \A u \in Trades \ {t} : pc'[u] = pc[u] /\ avg'[u] = avg[u]
  BY DEF LookUp, Goes, TraderTypeOK
<1>3. At(a, ps)' = At(a, ps)
  BY <1>1, <1>2 DEF At
<1>. QED  BY <1>3 DEF Count
-----------------------------------------------------------------------------
(* Types and counts.                                                       *)

Working == {"add", "check", "pop", "store"}
Owing   == {"add", "check", "pop"}

WindowInv ==
  \A a \in Trades : Count(a, Owing) <= values[a] /\ values[a] <= Window + Count(a, Owing)

SumInv ==
  \A a \in Trades :
    sum[a] + forgotten[a] = values[a] - Count(a, {"add"}) + Count(a, {"store"})

CountInv == TraderTypeOK /\ WindowInv /\ SumInv

LEMMA CountInit == TraderInit => CountInv
<1>. SUFFICES ASSUME TraderInit PROVE CountInv
  OBVIOUS
<1>1. TraderTypeOK
  BY TraderAssumption DEF TraderInit, TraderTypeOK, Points
<1>2. ASSUME NEW a \in Trades PROVE \A ps : "new" \notin ps => Count(a, ps) = 0
  <2>1. \A ps : "new" \notin ps => At(a, ps) = {}
    BY DEF TraderInit, At
  <2>. QED  BY <2>1, CountEmpty
<1>3. ASSUME NEW a \in Trades
      PROVE  Count(a, Owing) = 0 /\ Count(a, {"add"}) = 0 /\ Count(a, {"store"}) = 0
  BY <1>2 DEF Owing
<1>. QED  BY <1>1, <1>3, TraderAssumption DEF CountInv, WindowInv, SumInv, TraderInit

\* A step that only moves a thread between points that are not counted, or that
\* leaves the threads alone.
LEMMA QuietStep ==
  ASSUME CountInv, TraderTypeOK', UNCHANGED <<values, sum, forgotten>>,
         \A a \in Trades : /\ Count(a, Owing)' = Count(a, Owing)
                           /\ Count(a, {"add"})' = Count(a, {"add"})
                           /\ Count(a, {"store"})' = Count(a, {"store"})
  PROVE  CountInv'
BY DEF CountInv, WindowInv, SumInv

LEMMA QuietMove ==
  ASSUME CountInv, TraderTypeOK', UNCHANGED <<values, sum, forgotten, avg>>,
         NEW t \in Trades, NEW from, NEW to, Goes(t, from, to),
         from \notin Working, to \notin Working
  PROVE  CountInv'
<1>1. TraderTypeOK
  BY DEF CountInv
<1>2. ASSUME NEW a \in Trades, NEW ps, ps \subseteq Working PROVE Count(a, ps)' = Count(a, ps)
  <2>1. from \notin ps /\ to \notin ps
    BY <1>2
  <2>2. /\ Count(a, ps) \in Nat /\ Count(a, ps)' \in Nat
        /\ Count(a, ps)' = Count(a, ps) + One(avg[t] = a /\ to \in ps)
                                        - One(avg[t] = a /\ from \in ps)
    BY <1>1, CountMoves
  <2>. QED  BY <2>1, <2>2 DEF One
<1>3. Owing \subseteq Working /\ {"add"} \subseteq Working /\ {"store"} \subseteq Working
  BY DEF Owing, Working
<1>. QED  BY <1>2, <1>3, QuietStep

LEMMA QuietLook ==
  ASSUME CountInv, TraderTypeOK', NEW t \in Trades, Find(t) \/ Look(t)
  PROVE  CountInv'
<1>1. TraderTypeOK
  BY DEF CountInv
<1>2. ASSUME NEW a \in Trades, NEW ps, ps \subseteq Working PROVE Count(a, ps)' = Count(a, ps)
  <2>1. /\ "find" \notin ps /\ "mean" \notin ps /\ "look" \notin ps /\ "append" \notin ps
        /\ "no_symbol" \notin ps
    BY <1>2 DEF Working
  <2>. QED  BY <1>1, <2>1, CountLooks DEF Find, Look
<1>3. Owing \subseteq Working /\ {"add"} \subseteq Working /\ {"store"} \subseteq Working
  BY DEF Owing, Working
<1>4. UNCHANGED <<values, sum, forgotten>>
  BY DEF Find, Look, LookUp, prices
<1>. QED  BY <1>2, <1>3, <1>4, QuietStep

LEMMA TypeStep == TraderTypeOK /\ WindowInv /\ [TraderNext]_traderVars => TraderTypeOK'
<1>. SUFFICES ASSUME TraderTypeOK, WindowInv, [TraderNext]_traderVars PROVE TraderTypeOK'
  OBVIOUS
<1>. USE TraderAssumption DEF Points, Failures
<1>1. CASE reset_market_data
  BY <1>1 DEF reset_market_data, TraderTypeOK, prices, threads
<1>2. ASSUME NEW t \in Trades, NEW from, NEW to \in Points \cup Failures, Goes(t, from, to)
      PROVE  pc' \in [Trades -> Points \cup Failures]
  BY <1>2 DEF Goes, TraderTypeOK
<1>3. ASSUME NEW t \in Trades, Receives(t) PROVE TraderTypeOK'
  <2>1. pc' \in [Trades -> Points \cup Failures]
    BY <1>2, <1>3 DEF Receives, trade_request, trade_force, malformed
  <2>. QED  BY <1>3, <2>1 DEF Receives, trade_request, trade_force, malformed, TraderTypeOK,
         prices, threads
<1>4. ASSUME NEW t \in Trades, Test(t) \/ Mean(t) \/ Check(t) \/ Divide(t) PROVE TraderTypeOK'
  <2>1. pc' \in [Trades -> Points \cup Failures]
    BY <1>2, <1>4 DEF Test, Mean, Check, Divide
  <2>. QED  BY <1>4, <2>1 DEF Test, Mean, Check, Divide, TraderTypeOK, prices, threads
<1>5. ASSUME NEW t \in Trades, Create(t) PROVE TraderTypeOK'
  <2>1. pc' \in [Trades -> Points \cup Failures]
    BY <1>2, <1>5 DEF Create
  <2>. QED  BY <1>5, <2>1 DEF Create, TraderTypeOK, prices, threads
<1>6. ASSUME NEW t \in Trades, Find(t) \/ Look(t) PROVE TraderTypeOK'
  <2>1. pc' \in [Trades -> Points \cup Failures]
    BY <1>2, <1>6 DEF Find, Look, LookUp
  <2>2. avg' \in [Trades -> Trades]
    BY <1>6 DEF Find, Look, LookUp, TraderTypeOK
  <2>. QED  BY <1>6, <2>1, <2>2 DEF Find, Look, LookUp, TraderTypeOK, prices
<1>7. ASSUME NEW t \in Trades, AppendPrice(t) PROVE TraderTypeOK'
  <2>1. pc' \in [Trades -> Points \cup Failures]
    BY <1>2, <1>7 DEF AppendPrice
  <2>2. values' \in [Trades -> Nat] /\ crowded' \subseteq Trades
    BY <1>7 DEF AppendPrice, TraderTypeOK
  <2>. QED  BY <1>7, <2>1, <2>2 DEF AppendPrice, TraderTypeOK, threads
<1>8. ASSUME NEW t \in Trades, AddPrice(t) PROVE TraderTypeOK'
  <2>1. pc' \in [Trades -> Points \cup Failures]
    BY <1>2, <1>8 DEF AddPrice
  <2>2. sum' \in [Trades -> Int]
    BY <1>8 DEF AddPrice, TraderTypeOK
  <2>. QED  BY <1>8, <2>1, <2>2 DEF AddPrice, TraderTypeOK, threads
<1>9. ASSUME NEW t \in Trades, Pop(t) PROVE TraderTypeOK'
  <2>1. pc' \in [Trades -> Points \cup Failures]
    BY <1>2, <1>9 DEF Pop
  <2>2. avg[t] \in Trades /\ values[avg[t]] \in Nat /\ pc[t] = "pop"
    BY <1>9 DEF Pop, Goes, TraderTypeOK
  <2>3. Count(avg[t], Owing) >= 1 /\ Count(avg[t], Owing) \in Nat
    BY <2>2, CountPositive, FiniteAt DEF Owing
  <2>4. values[avg[t]] >= 1
    BY <2>2, <2>3 DEF WindowInv
  <2>5. values' \in [Trades -> Nat]
    BY <1>9, <2>2, <2>4 DEF Pop, TraderTypeOK
  <2>. QED  BY <1>9, <2>1, <2>2, <2>5 DEF Pop, TraderTypeOK
<1>10. ASSUME NEW t \in Trades, Store(t) PROVE TraderTypeOK'
  <2>1. pc' \in [Trades -> Points \cup Failures]
    BY <1>2, <1>10 DEF Store
  <2>2. forgotten' \in [Trades -> Int]
    BY <1>10 DEF Store, TraderTypeOK
  <2>3. sum' \in [Trades -> Int]
    BY <1>10 DEF Store, TraderTypeOK
  <2>. QED  BY <1>10, <2>1, <2>2, <2>3 DEF Store, TraderTypeOK, threads
<1>11. ASSUME NEW t \in Trades, sim_decide(t) PROVE TraderTypeOK'
  <2>1. pc' \in [Trades -> Points \cup Failures]
    BY <1>2, <1>11 DEF sim_decide
  <2>2. bad' \subseteq Trades
    BY <1>11 DEF sim_decide, TraderTypeOK
  <2>. QED  BY <1>11, <2>1, <2>2 DEF sim_decide, TraderTypeOK, prices, threads
<1>12. ASSUME NEW t \in Trades, Post(t) \/ Answered(t) \/ GiveUp(t) PROVE TraderTypeOK'
  <2>1. pc' \in [Trades -> Points \cup Failures]
    BY <1>2, <1>12 DEF Post, Answered, GiveUp
  <2>. QED  BY <1>12, <2>1 DEF Post, Answered, GiveUp, TraderTypeOK, prices, threads
<1>13. CASE UNCHANGED traderVars
  BY <1>13 DEF traderVars, prices, threads, TraderTypeOK
<1>. QED  BY <1>1, <1>3, <1>4, <1>5, <1>6, <1>7, <1>8, <1>9, <1>10, <1>11, <1>12, <1>13
       DEF TraderNext, Prices

LEMMA CountStep == CountInv /\ [TraderNext]_traderVars => CountInv'
<1>. SUFFICES ASSUME CountInv, [TraderNext]_traderVars PROVE CountInv'
  OBVIOUS
<1>1. TraderTypeOK /\ TraderTypeOK'
  BY TypeStep DEF CountInv
<1>2. CASE reset_market_data \/ UNCHANGED traderVars
  <2>1. UNCHANGED <<values, sum, forgotten, pc, avg>>
    BY <1>2 DEF reset_market_data, traderVars, prices, threads
  <2>2. \A a, ps : Count(a, ps)' = Count(a, ps)
    BY <2>1 DEF Count, At
  <2>. QED  BY <1>1, <2>1, <2>2, QuietStep
<1>3. ASSUME NEW t \in Trades, Receives(t) \/ Test(t) \/ Create(t) \/ Mean(t) \/ Divide(t)
      PROVE  CountInv'
  <2>1. PICK from, to : Goes(t, from, to) /\ from \notin Working /\ to \notin Working
    BY <1>3 DEF Receives, trade_request, trade_force, malformed, Test, Create, Mean, Divide, Working
  <2>2. UNCHANGED <<values, sum, forgotten, avg>>
    BY <1>3 DEF Receives, trade_request, trade_force, malformed, Test, Create, Mean, Divide, prices,
       threads
  <2>. QED  BY <1>1, <2>1, <2>2, QuietMove
<1>4. ASSUME NEW t \in Trades, sim_decide(t) \/ Post(t) \/ Answered(t) \/ GiveUp(t)
      PROVE  CountInv'
  <2>1. PICK from, to : Goes(t, from, to) /\ from \notin Working /\ to \notin Working
    BY <1>4 DEF sim_decide, Post, Answered, GiveUp, Working
  <2>2. UNCHANGED <<values, sum, forgotten, avg>>
    BY <1>4 DEF sim_decide, Post, Answered, GiveUp, prices, threads
  <2>. QED  BY <1>1, <2>1, <2>2, QuietMove
<1>5. ASSUME NEW t \in Trades, Find(t) \/ Look(t) PROVE CountInv'
  BY <1>1, <1>5, QuietLook
<1>6. ASSUME NEW t \in Trades, NEW from, NEW to, Goes(t, from, to), UNCHANGED avg,
             NEW a \in Trades
      PROVE  \A ps : /\ Count(a, ps) \in Nat /\ Count(a, ps)' \in Nat
                     /\ Count(a, ps)' = Count(a, ps) + One(avg[t] = a /\ to \in ps)
                                                     - One(avg[t] = a /\ from \in ps)
  BY <1>1, <1>6, CountMoves
<1>7. ASSUME NEW t \in Trades, AppendPrice(t) PROVE CountInv'
  <2>. SUFFICES ASSUME NEW a \in Trades
       PROVE  /\ Count(a, Owing)' <= values'[a] /\ values'[a] <= Window + Count(a, Owing)'
              /\ sum'[a] + forgotten'[a] = values'[a] - Count(a, {"add"})' + Count(a, {"store"})'
    BY <1>1 DEF CountInv, WindowInv, SumInv
  <2>1. Goes(t, "append", "add") /\ UNCHANGED <<sum, forgotten, avg>>
    BY <1>7 DEF AppendPrice, threads
  <2>2. values'[a] = values[a] + One(avg[t] = a)
    BY <1>1, <1>7 DEF AppendPrice, One, TraderTypeOK
  <2>3. /\ Count(a, Owing)' = Count(a, Owing) + One(avg[t] = a)
        /\ Count(a, {"add"})' = Count(a, {"add"}) + One(avg[t] = a)
        /\ Count(a, {"store"})' = Count(a, {"store"})
    BY <1>6, <2>1 DEF One, Owing
  <2>4. /\ Count(a, Owing) \in Nat /\ Count(a, {"add"}) \in Nat /\ Count(a, {"store"}) \in Nat
        /\ values[a] \in Nat /\ sum[a] \in Int /\ forgotten[a] \in Int
    BY <1>1, FiniteAt DEF TraderTypeOK
  <2>. QED  BY <2>1, <2>2, <2>3, <2>4, TraderAssumption DEF CountInv, WindowInv, SumInv, One
<1>8. ASSUME NEW t \in Trades, AddPrice(t) PROVE CountInv'
  <2>. SUFFICES ASSUME NEW a \in Trades
       PROVE  /\ Count(a, Owing)' <= values'[a] /\ values'[a] <= Window + Count(a, Owing)'
              /\ sum'[a] + forgotten'[a] = values'[a] - Count(a, {"add"})' + Count(a, {"store"})'
    BY <1>1 DEF CountInv, WindowInv, SumInv
  <2>1. Goes(t, "add", "check") /\ UNCHANGED <<values, forgotten, avg>>
    BY <1>8 DEF AddPrice, threads
  <2>2. sum'[a] = sum[a] + One(avg[t] = a)
    BY <1>1, <1>8 DEF AddPrice, One, TraderTypeOK
  <2>3. /\ Count(a, Owing)' = Count(a, Owing)
        /\ Count(a, {"add"})' = Count(a, {"add"}) - One(avg[t] = a)
        /\ Count(a, {"store"})' = Count(a, {"store"})
    BY <1>6, <2>1 DEF One, Owing
  <2>4. /\ Count(a, Owing) \in Nat /\ Count(a, {"add"}) \in Nat /\ Count(a, {"store"}) \in Nat
        /\ values[a] \in Nat /\ sum[a] \in Int /\ forgotten[a] \in Int
    BY <1>1, FiniteAt DEF TraderTypeOK
  <2>. QED  BY <2>1, <2>2, <2>3, <2>4, TraderAssumption DEF CountInv, WindowInv, SumInv, One
<1>9. ASSUME NEW t \in Trades, Check(t) PROVE CountInv'
  <2>. SUFFICES ASSUME NEW a \in Trades
       PROVE  /\ Count(a, Owing)' <= values'[a] /\ values'[a] <= Window + Count(a, Owing)'
              /\ sum'[a] + forgotten'[a] = values'[a] - Count(a, {"add"})' + Count(a, {"store"})'
    BY <1>1 DEF CountInv, WindowInv, SumInv
  <2>. DEFINE over == values[avg[t]] > Window
  <2>1. UNCHANGED <<values, sum, forgotten, avg>>
    BY <1>9 DEF Check, prices, threads
  <2>2. CASE over
    <3>1. Goes(t, "check", "pop")
      BY <1>9, <2>2 DEF Check
    <3>2. /\ Count(a, Owing)' = Count(a, Owing)
          /\ Count(a, {"add"})' = Count(a, {"add"})
          /\ Count(a, {"store"})' = Count(a, {"store"})
      BY <1>6, <2>1, <3>1 DEF One, Owing
    <3>. QED  BY <2>1, <3>2 DEF CountInv, WindowInv, SumInv
  <2>3. CASE ~over
    <3>1. Goes(t, "check", "divide")
      BY <1>9, <2>3 DEF Check
    <3>2. /\ Count(a, Owing)' = Count(a, Owing) - One(avg[t] = a) /\ Count(a, Owing)' \in Nat
          /\ Count(a, {"add"})' = Count(a, {"add"})
          /\ Count(a, {"store"})' = Count(a, {"store"})
      BY <1>6, <2>1, <3>1 DEF One, Owing
    <3>3. Count(a, Owing) \in Nat /\ values[a] \in Nat
      BY <1>1, FiniteAt DEF TraderTypeOK
    <3>. QED  BY <2>1, <2>3, <3>2, <3>3, TraderAssumption DEF CountInv, WindowInv, SumInv, One
  <2>. QED  BY <2>2, <2>3
<1>10. ASSUME NEW t \in Trades, Pop(t) PROVE CountInv'
  <2>. SUFFICES ASSUME NEW a \in Trades
       PROVE  /\ Count(a, Owing)' <= values'[a] /\ values'[a] <= Window + Count(a, Owing)'
              /\ sum'[a] + forgotten'[a] = values'[a] - Count(a, {"add"})' + Count(a, {"store"})'
    BY <1>1 DEF CountInv, WindowInv, SumInv
  <2>1. Goes(t, "pop", "store") /\ UNCHANGED <<sum, forgotten, avg>>
    BY <1>10 DEF Pop
  <2>2. values'[a] = values[a] - One(avg[t] = a)
    BY <1>1, <1>10 DEF Pop, One, TraderTypeOK
  <2>3. /\ Count(a, Owing)' = Count(a, Owing) - One(avg[t] = a)
        /\ Count(a, {"add"})' = Count(a, {"add"})
        /\ Count(a, {"store"})' = Count(a, {"store"}) + One(avg[t] = a)
    BY <1>6, <2>1 DEF One, Owing
  <2>4. /\ Count(a, Owing) \in Nat /\ Count(a, {"add"}) \in Nat /\ Count(a, {"store"}) \in Nat
        /\ values[a] \in Nat /\ sum[a] \in Int /\ forgotten[a] \in Int
    BY <1>1, FiniteAt DEF TraderTypeOK
  <2>. QED  BY <2>1, <2>2, <2>3, <2>4, TraderAssumption DEF CountInv, WindowInv, SumInv, One
<1>11. ASSUME NEW t \in Trades, Store(t) PROVE CountInv'
  <2>. SUFFICES ASSUME NEW a \in Trades
       PROVE  /\ Count(a, Owing)' <= values'[a] /\ values'[a] <= Window + Count(a, Owing)'
              /\ sum'[a] + forgotten'[a] = values'[a] - Count(a, {"add"})' + Count(a, {"store"})'
    BY <1>1 DEF CountInv, WindowInv, SumInv
  <2>1. Goes(t, "store", "divide") /\ UNCHANGED <<values, avg>>
    BY <1>11 DEF Store, threads
  <2>2. sum'[a] + forgotten'[a] = sum[a] + forgotten[a] - One(avg[t] = a)
    <3>1. loaded[t] \in Int /\ sum[a] \in Int /\ forgotten[a] \in Int /\ avg[t] \in Trades
      BY <1>1 DEF TraderTypeOK
    <3>2. CASE avg[t] = a
      <4>1. sum'[a] = loaded[t] - 1 /\ forgotten'[a] = forgotten[a] + (sum[a] - loaded[t])
        BY <1>1, <1>11, <3>2 DEF Store, TraderTypeOK
      <4>. QED  BY <3>1, <3>2, <4>1 DEF One
    <3>3. CASE avg[t] # a
      <4>1. sum'[a] = sum[a] /\ forgotten'[a] = forgotten[a]
        BY <1>1, <1>11, <3>3 DEF Store, TraderTypeOK
      <4>. QED  BY <3>1, <3>3, <4>1 DEF One
    <3>. QED  BY <3>2, <3>3
  <2>3. /\ Count(a, Owing)' = Count(a, Owing)
        /\ Count(a, {"add"})' = Count(a, {"add"})
        /\ Count(a, {"store"})' = Count(a, {"store"}) - One(avg[t] = a)
    BY <1>6, <2>1 DEF One, Owing
  <2>4. /\ Count(a, Owing) \in Nat /\ Count(a, {"add"}) \in Nat /\ Count(a, {"store"}) \in Nat
        /\ values[a] \in Nat /\ sum[a] \in Int /\ forgotten[a] \in Int
    BY <1>1, FiniteAt DEF TraderTypeOK
  <2>. QED  BY <2>1, <2>2, <2>3, <2>4, TraderAssumption DEF CountInv, WindowInv, SumInv, One
<1>. QED  BY <1>2, <1>3, <1>4, <1>5, <1>7, <1>8, <1>9, <1>10, <1>11 DEF TraderNext, Prices

THEOREM CountInvariant == TraderSpec => []CountInv
BY CountInit, CountStep, PTL DEF TraderSpec

\* The types of Trader's variables (app.py:40-73, model.py:15-33).
THEOREM TypeCorrect == TraderSpec => []TraderTypeOK
<1>1. CountInv => TraderTypeOK
  BY DEF CountInv
<1>. QED  BY <1>1, CountInvariant, PTL

(***************************************************************************)
(* An average no thread works on keeps at most the window's prices, and    *)
(* its sum is theirs less exactly the updates that a thread which          *)
(* subtracted has overwritten (model.py:20-25).                            *)
(***************************************************************************)
THEOREM AveragesAreExact == TraderSpec => []AverageExact
<1>1. CountInv => AverageExact
  <2>. SUFFICES ASSUME CountInv, NEW a \in Trades, Inside(a) = {}
       PROVE  values[a] <= Window /\ sum[a] + forgotten[a] = values[a]
    BY DEF AverageExact
  <2>1. At(a, Owing) = {} /\ At(a, {"add"}) = {} /\ At(a, {"store"}) = {}
    BY DEF At, Inside, Owing
  <2>2. Count(a, Owing) = 0 /\ Count(a, {"add"}) = 0 /\ Count(a, {"store"}) = 0
    BY <2>1, CountEmpty
  <2>. QED  BY <2>2, TraderAssumption DEF CountInv, WindowInv, SumInv, TraderTypeOK
<1>. QED  BY <1>1, CountInvariant, PTL
-----------------------------------------------------------------------------
(* The races the market needs to fail a request.                           *)

\* Before a reset, a thread on its way to look its symbol up has seen an average there.
ResetInv ==
  \A t \in Trades :
    /\ pc[t] = "no_symbol" => resets > 0
    /\ pc[t] \in {"find", "mean", "look"} /\ resets = 0 => market[symbol[t]] # Missing

\* The points of a thread that has not created an average, or has looked nothing up.
Early == {"new", "test", "create", "find", "mean"}

\* The average in the market is its creator's, who has looked it up before it appends.
CreatorInv ==
  \A a \in Trades, s \in Symbols :
    market[s] = a => symbol[a] = s /\ pc[a] \notin Early /\ (pc[a] # "look" => avg[a] = a)

CrowdInv == \A a \in Trades : a \notin crowded => Count(a, Working) <= Window

\* Some thread has appended to a and compared the window.
Compared   == {"pop", "store", "divide"}
Uncompared == {"look", "append", "add", "check"}

Settled(a) ==
  \/ At(a, Compared) # {}
  \/ \E s \in Symbols : market[s] = a /\ pc[a] \notin Uncompared

SettledInv == \A a \in Trades : a \notin crowded /\ Settled(a) => values[a] >= Count(a, Owing) + 1

RaceInv == ResetInv /\ CreatorInv /\ CrowdInv /\ SettledInv

LEMMA RaceInit == TraderInit => RaceInv
<1>. SUFFICES ASSUME TraderInit PROVE RaceInv
  OBVIOUS
<1>1. ResetInv
  BY DEF TraderInit, ResetInv
<1>2. \A s \in Symbols : market[s] \notin Trades
  BY TraderAssumption DEF TraderInit
<1>3. CreatorInv
  BY <1>2 DEF CreatorInv
<1>4. ASSUME NEW a \in Trades PROVE At(a, Working) = {} /\ At(a, Compared) = {}
  BY DEF TraderInit, At, Working, Compared
<1>5. CrowdInv
  <2>1. \A a \in Trades : Count(a, Working) = 0
    BY <1>4, CountEmpty
  <2>. QED  BY <2>1, TraderAssumption DEF CrowdInv
<1>6. SettledInv
  BY <1>2, <1>4 DEF SettledInv, Settled
<1>. QED  BY <1>1, <1>3, <1>5, <1>6 DEF RaceInv

LEMMA ResetStep ==
  ASSUME TraderTypeOK, ResetInv, [TraderNext]_traderVars PROVE ResetInv'
<1>. USE TraderAssumption
<1>1. CASE reset_market_data
  <2>1. resets' > 0 /\ resets' \in Nat
    BY <1>1 DEF reset_market_data, TraderTypeOK
  <2>. QED  BY <2>1 DEF ResetInv
<1>2. CASE UNCHANGED traderVars
  BY <1>2 DEF ResetInv, traderVars, threads
<1>3. ASSUME NEW t \in Trades, Test(t) PROVE ResetInv'
  BY <1>3 DEF Test, Goes, ResetInv, TraderTypeOK, threads
<1>4. ASSUME NEW t \in Trades, Create(t) PROVE ResetInv'
  <2>1. UNCHANGED <<resets, symbol>> /\ symbol[t] \in Symbols /\ t # Missing
    BY <1>4 DEF Create, TraderTypeOK, threads
  <2>2. /\ market'[symbol[t]] = t
        /\ \A s \in Symbols : market[s] # Missing => market'[s] # Missing
    BY <1>4, <2>1 DEF Create, TraderTypeOK
  <2>3. pc'[t] = "look" /\ \A u \in Trades \ {t} : pc'[u] = pc[u]
    BY <1>4 DEF Create, Goes, TraderTypeOK
  <2>. QED  BY <2>1, <2>2, <2>3 DEF ResetInv, TraderTypeOK
<1>5. ASSUME NEW t \in Trades, Find(t) \/ Look(t) PROVE ResetInv'
  <2>1. UNCHANGED <<resets, symbol, market>> /\ pc[t] \in {"find", "look"}
    BY <1>5 DEF Find, Look, LookUp, Goes
  <2>2. /\ pc'[t] \in {"no_symbol", "mean", "append"}
        /\ pc'[t] = "no_symbol" => market[symbol[t]] = Missing
        /\ \A u \in Trades \ {t} : pc'[u] = pc[u]
    BY <1>5 DEF Find, Look, LookUp, Goes, TraderTypeOK
  <2>. QED  BY <2>1, <2>2 DEF ResetInv, TraderTypeOK
<1>6. ASSUME NEW t \in Trades, Mean(t) PROVE ResetInv'
  BY <1>6 DEF Mean, Goes, ResetInv, TraderTypeOK, threads
<1>7. ASSUME NEW t \in Trades,
             \/ Receives(t) \/ AppendPrice(t) \/ AddPrice(t) \/ Check(t) \/ Pop(t) \/ Store(t)
             \/ Divide(t) \/ sim_decide(t) \/ Post(t) \/ Answered(t) \/ GiveUp(t)
      PROVE  ResetInv'
  <2>1. UNCHANGED <<resets, symbol, market>>
    BY <1>7 DEF Receives, trade_request, trade_force, malformed, AppendPrice, AddPrice, Check, Pop,
       Store, Divide, sim_decide, Post, Answered, GiveUp, prices, threads
  <2>2. PICK from, to : Goes(t, from, to) /\ to \notin {"find", "mean", "look", "no_symbol"}
    BY <1>7 DEF Receives, trade_request, trade_force, malformed, AppendPrice, AddPrice, Check, Pop,
       Store, Divide, sim_decide, Post, Answered, GiveUp
  <2>. QED  BY <2>1, <2>2 DEF ResetInv, Goes, TraderTypeOK
<1>. QED  BY <1>1, <1>2, <1>3, <1>4, <1>5, <1>6, <1>7 DEF TraderNext, Prices

LEMMA CreatorStep ==
  ASSUME TraderTypeOK, CreatorInv, [TraderNext]_traderVars PROVE CreatorInv'
<1>. USE TraderAssumption
<1>. SUFFICES ASSUME NEW a \in Trades, NEW s \in Symbols, market'[s] = a
     PROVE  symbol'[a] = s /\ pc'[a] \notin Early /\ (pc'[a] # "look" => avg'[a] = a)
  BY DEF CreatorInv
<1>1. CASE reset_market_data
  BY <1>1 DEF reset_market_data
<1>2. CASE UNCHANGED traderVars
  BY <1>2 DEF CreatorInv, traderVars, threads
<1>3. ASSUME NEW t \in Trades, Create(t)
      PROVE  symbol'[a] = s /\ pc'[a] \notin Early /\ (pc'[a] # "look" => avg'[a] = a)
  <2>1. /\ UNCHANGED <<symbol, avg>> /\ pc[t] \in Early
        /\ pc'[t] = "look" /\ \A u \in Trades \ {t} : pc'[u] = pc[u]
    BY <1>3 DEF Create, Goes, TraderTypeOK, threads, Early
  <2>2. IF s = symbol[t] THEN a = t ELSE market[s] = a
    BY <1>3 DEF Create, TraderTypeOK
  <2>3. CASE s = symbol[t]
    BY <2>1, <2>2, <2>3 DEF Early
  <2>4. CASE s # symbol[t]
    <3>1. market[s] = a /\ a # t
      BY <2>1, <2>2, <2>4 DEF CreatorInv
    <3>. QED  BY <2>1, <3>1 DEF CreatorInv
  <2>. QED  BY <2>3, <2>4
<1>4. ASSUME NEW t \in Trades, Find(t) \/ Look(t)
      PROVE  symbol'[a] = s /\ pc'[a] \notin Early /\ (pc'[a] # "look" => avg'[a] = a)
  <2>1. /\ UNCHANGED <<symbol, market>> /\ pc[t] \in {"find", "look"}
        /\ \A u \in Trades \ {t} : pc'[u] = pc[u] /\ avg'[u] = avg[u]
    BY <1>4 DEF Find, Look, LookUp, Goes, TraderTypeOK
  <2>2. market[s] = a /\ symbol[a] = s /\ pc[a] \notin Early
    BY <2>1 DEF CreatorInv
  <2>3. a = t => pc[t] = "look" /\ market[symbol[t]] = t /\ t # Missing
    BY <2>1, <2>2 DEF Early
  <2>4. a = t => pc'[t] = "append" /\ avg'[t] = t
    BY <1>4, <2>3 DEF Find, Look, LookUp, Goes, TraderTypeOK
  <2>. QED  BY <2>1, <2>2, <2>4 DEF CreatorInv, Early
<1>5. ASSUME NEW t \in Trades, Receives(t) \/ Test(t) \/ Mean(t)
      PROVE  symbol'[a] = s /\ pc'[a] \notin Early /\ (pc'[a] # "look" => avg'[a] = a)
  <2>1. /\ UNCHANGED <<symbol, market, avg>> /\ pc[t] \in Early
        /\ \A u \in Trades \ {t} : pc'[u] = pc[u]
    BY <1>5 DEF Receives, trade_request, trade_force, malformed, Test, Mean, Goes, TraderTypeOK,
       threads, Early
  <2>2. market[s] = a /\ a # t
    BY <2>1 DEF CreatorInv
  <2>. QED  BY <2>1, <2>2 DEF CreatorInv
<1>6. ASSUME NEW t \in Trades,
             \/ AppendPrice(t) \/ AddPrice(t) \/ Check(t) \/ Pop(t) \/ Store(t)
             \/ Divide(t) \/ sim_decide(t) \/ Post(t) \/ Answered(t) \/ GiveUp(t)
      PROVE  symbol'[a] = s /\ pc'[a] \notin Early /\ (pc'[a] # "look" => avg'[a] = a)
  <2>1. UNCHANGED <<symbol, market, avg>>
    BY <1>6 DEF AppendPrice, AddPrice, Check, Pop, Store, Divide, sim_decide, Post, Answered, GiveUp,
       prices, threads
  <2>2. PICK from, to : Goes(t, from, to) /\ from # "look" /\ to \notin Early
    BY <1>6 DEF AppendPrice, AddPrice, Check, Pop, Store, Divide, sim_decide, Post, Answered, GiveUp,
       Early
  <2>. QED  BY <2>1, <2>2 DEF CreatorInv, Goes, TraderTypeOK
<1>. QED  BY <1>1, <1>2, <1>3, <1>4, <1>5, <1>6 DEF TraderNext, Prices

\* Fewer than Window other threads are at work when one begins on an average
\* that is not crowded.
LEMMA CrowdStep ==
  ASSUME TraderTypeOK, CrowdInv, [TraderNext]_traderVars PROVE CrowdInv'
<1>. USE TraderAssumption
<1>. SUFFICES ASSUME NEW a \in Trades, a \notin crowded' PROVE Count(a, Working)' <= Window
  BY DEF CrowdInv
<1>1. a \notin crowded
  BY DEF TraderNext, reset_market_data, Receives, trade_request, trade_force, malformed, Prices,
     Test, Create, Find, Look, LookUp, Mean, AppendPrice, AddPrice, Check, Pop, Store, Divide,
     sim_decide, Post, Answered, GiveUp, traderVars, prices
<1>2. Count(a, Working) <= Window /\ Count(a, Working) \in Nat
  BY <1>1, FiniteAt DEF CrowdInv
<1>3. ASSUME NEW t \in Trades, NEW from, NEW to, Goes(t, from, to), UNCHANGED avg,
             to \in Working => from \in Working
      PROVE  Count(a, Working)' <= Window
  <2>1. /\ Count(a, Working) \in Nat /\ Count(a, Working)' \in Nat
        /\ Count(a, Working)' = Count(a, Working) + One(avg[t] = a /\ to \in Working)
                                                  - One(avg[t] = a /\ from \in Working)
    BY <1>3, CountMoves
  <2>. QED  BY <1>2, <1>3, <2>1 DEF One
<1>4. CASE reset_market_data \/ UNCHANGED traderVars
  <2>1. UNCHANGED <<pc, avg>>
    BY <1>4 DEF reset_market_data, traderVars, threads
  <2>2. Count(a, Working)' = Count(a, Working)
    BY <2>1 DEF Count, At
  <2>. QED  BY <1>2, <2>2
<1>5. ASSUME NEW t \in Trades, Find(t) \/ Look(t) PROVE Count(a, Working)' <= Window
  <2>1. Count(a, Working)' = Count(a, Working)
    BY <1>5, CountLooks DEF Find, Look, Working
  <2>. QED  BY <1>2, <2>1
<1>6. ASSUME NEW t \in Trades, AppendPrice(t) PROVE Count(a, Working)' <= Window
  <2>1. Goes(t, "append", "add") /\ UNCHANGED avg
    BY <1>6 DEF AppendPrice, threads
  <2>2. /\ Count(a, Working) \in Nat /\ Count(a, Working)' \in Nat
        /\ Count(a, Working)' = Count(a, Working) + One(avg[t] = a /\ "add" \in Working)
                                                  - One(avg[t] = a /\ "append" \in Working)
    BY <2>1, CountMoves
  <2>3. Inside(a) = At(a, Working)
    BY DEF Inside, At, Working
  <2>4. avg[t] = a => ~(Count(a, Working) >= Window)
    BY <1>6, <2>3 DEF AppendPrice, Count
  <2>. QED  BY <1>2, <2>2, <2>4 DEF One, Working
<1>7. ASSUME NEW t \in Trades,
             \/ Receives(t) \/ Test(t) \/ Create(t) \/ Mean(t) \/ AddPrice(t) \/ Check(t) \/ Pop(t)
             \/ Store(t) \/ Divide(t) \/ sim_decide(t) \/ Post(t) \/ Answered(t) \/ GiveUp(t)
      PROVE  Count(a, Working)' <= Window
  <2>1. UNCHANGED avg
    BY <1>7 DEF Receives, trade_request, trade_force, malformed, Test, Create, Mean, AddPrice, Check,
       Pop, Store, Divide, sim_decide, Post, Answered, GiveUp, threads
  <2>2. PICK from, to : Goes(t, from, to) /\ (to \in Working => from \in Working)
    BY <1>7 DEF Receives, trade_request, trade_force, malformed, Test, Create, Mean, AddPrice, Check,
       Pop, Store, Divide, sim_decide, Post, Answered, GiveUp, Working
  <2>. QED  BY <1>3, <2>1, <2>2
<1>. QED  BY <1>4, <1>5, <1>6, <1>7 DEF TraderNext, Prices

\* What a move of a thread does not settle: an average it does not work on, or any,
\* when it does not compare.
LEMMA SettledElsewhere ==
  ASSUME TraderTypeOK, CreatorInv, NEW t \in Trades, NEW from, NEW to, Goes(t, from, to),
         UNCHANGED <<market, avg>>, NEW a \in Trades, Settled(a)',
         \/ avg[t] # a /\ from \notin Early \cup {"look"}
         \/ /\ to \in Compared => from \in Compared
            /\ from \in Early \/ to \in Uncompared \/ from \notin Uncompared
  PROVE  Settled(a)
<1>1. pc[t] = from /\ pc'[t] = to /\ \A u \in Trades \ {t} : pc'[u] = pc[u]
  BY DEF Goes, TraderTypeOK
<1>2. CASE At(a, Compared)' # {}
  <2>1. PICK u \in Trades : avg[u] = a /\ pc'[u] \in Compared
    BY <1>2 DEF At
  <2>2. pc[u] \in Compared
    BY <1>1, <2>1 DEF Uncompared, Compared, Early
  <2>. QED  BY <2>1, <2>2 DEF Settled, At
<1>3. CASE \E s \in Symbols : market[s] = a /\ pc'[a] \notin Uncompared
  <2>1. PICK s \in Symbols : market[s] = a /\ pc'[a] \notin Uncompared
    BY <1>3
  <2>2. pc[a] \notin Early /\ (pc[a] # "look" => avg[a] = a)
    BY <2>1 DEF CreatorInv
  <2>3. pc[a] \notin Uncompared
    BY <1>1, <2>1, <2>2
  <2>. QED  BY <2>1, <2>3 DEF Settled
<1>. QED  BY <1>2, <1>3 DEF Settled

LEMMA SettledStep ==
  ASSUME CountInv, TraderTypeOK', RaceInv, [TraderNext]_traderVars PROVE SettledInv'
<1>. USE TraderAssumption
<1>. SUFFICES ASSUME NEW a \in Trades, a \notin crowded', Settled(a)'
     PROVE  values'[a] >= Count(a, Owing)' + 1
  BY DEF SettledInv
<1>1. /\ TraderTypeOK /\ CreatorInv
      /\ Settled(a) /\ a \notin crowded => values[a] >= Count(a, Owing) + 1
  BY DEF CountInv, RaceInv, SettledInv
<1>2. a \notin crowded
  BY DEF TraderNext, reset_market_data, Receives, trade_request, trade_force, malformed, Prices,
     Test, Create, Find, Look, LookUp, Mean, AppendPrice, AddPrice, Check, Pop, Store, Divide,
     sim_decide, Post, Answered, GiveUp, traderVars, prices
<1>3. Count(a, Owing) \in Nat /\ values[a] \in Nat
  BY <1>1, FiniteAt DEF TraderTypeOK
<1>4. ASSUME NEW t \in Trades, NEW from, NEW to, Goes(t, from, to), UNCHANGED avg
      PROVE  /\ Count(a, Owing)' \in Nat
             /\ Count(a, Owing)' = Count(a, Owing) + One(avg[t] = a /\ to \in Owing)
                                                   - One(avg[t] = a /\ from \in Owing)
  BY <1>1, <1>4, CountMoves
<1>5. CASE reset_market_data \/ UNCHANGED traderVars
  <2>1. UNCHANGED <<pc, avg, values>> /\ \A s \in Symbols : market'[s] = a => market[s] = a
    BY <1>5 DEF reset_market_data, traderVars, prices, threads
  <2>2. Settled(a) /\ Count(a, Owing)' = Count(a, Owing)
    BY <2>1 DEF Settled, At, Count
  <2>. QED  BY <1>1, <1>2, <2>1, <2>2
<1>6. ASSUME NEW t \in Trades, Create(t) PROVE values'[a] >= Count(a, Owing)' + 1
  <2>1. Goes(t, "create", "look") /\ UNCHANGED <<values, avg>>
    BY <1>6 DEF Create, prices, threads
  <2>2. pc'[t] = "look" /\ pc[t] = "create" /\ \A u \in Trades \ {t} : pc'[u] = pc[u]
    BY <1>1, <2>1 DEF Goes, TraderTypeOK
  <2>3. \A s \in Symbols : market'[s] = a /\ a # t => market[s] = a
    BY <1>6 DEF Create, TraderTypeOK
  <2>4. Settled(a)
    BY <2>1, <2>2, <2>3 DEF Settled, At, Compared, Uncompared
  <2>. QED  BY <1>1, <1>2, <1>3, <1>4, <2>1, <2>4 DEF One, Owing
<1>7. ASSUME NEW t \in Trades, Find(t) \/ Look(t) PROVE values'[a] >= Count(a, Owing)' + 1
  <2>1. /\ UNCHANGED <<market, values>> /\ pc[t] \in {"find", "look"}
        /\ pc'[t] \in {"mean", "append", "no_symbol"}
        /\ pc[t] = "look" /\ market[symbol[t]] # Missing => pc'[t] = "append"
        /\ \A u \in Trades \ {t} : pc'[u] = pc[u] /\ avg'[u] = avg[u]
    BY <1>1, <1>7 DEF Find, Look, LookUp, Goes, prices, TraderTypeOK
  <2>2. ASSUME At(a, Compared)' # {} PROVE Settled(a)
    <3>1. PICK u \in Trades : avg'[u] = a /\ pc'[u] \in Compared
      BY <2>2 DEF At
    <3>2. u # t
      BY <2>1, <3>1 DEF Compared
    <3>3. u \in At(a, Compared)
      BY <2>1, <3>1, <3>2 DEF At
    <3>. QED  BY <3>3 DEF Settled
  <2>3. ASSUME \E s \in Symbols : market[s] = a /\ pc'[a] \notin Uncompared PROVE Settled(a)
    <3>1. PICK s \in Symbols : market[s] = a /\ pc'[a] \notin Uncompared
      BY <2>3
    <3>2. symbol[a] = s /\ pc[a] \notin Early
      BY <1>1, <3>1 DEF CreatorInv
    <3>3. a # t
      BY <2>1, <3>1, <3>2 DEF Uncompared, Early
    <3>4. pc[a] \notin Uncompared
      BY <2>1, <3>1, <3>3
    <3>. QED  BY <3>1, <3>4 DEF Settled
  <2>4. Settled(a)
    <3>1. At(a, Compared)' # {} \/ \E s \in Symbols : market'[s] = a /\ pc'[a] \notin Uncompared
      BY DEF Settled
    <3>. QED  BY <2>1, <2>2, <2>3, <3>1
  <2>5. Count(a, Owing)' = Count(a, Owing)
    BY <1>1, <1>7, CountLooks DEF Find, Look, Owing
  <2>. QED  BY <1>1, <1>2, <2>1, <2>4, <2>5
<1>8. ASSUME NEW t \in Trades, Receives(t) \/ Test(t) \/ Mean(t)
      PROVE  values'[a] >= Count(a, Owing)' + 1
  <2>1. UNCHANGED <<market, values, avg>>
    BY <1>8 DEF Receives, trade_request, trade_force, malformed, Test, Mean, prices, threads
  <2>2. PICK from, to : Goes(t, from, to) /\ from \in Early \ Owing /\ to \notin Compared \cup Owing
    BY <1>8 DEF Receives, trade_request, trade_force, malformed, Test, Mean, Early, Compared, Owing
  <2>3. Settled(a)
    BY <1>1, <2>1, <2>2, SettledElsewhere
  <2>. QED  BY <1>1, <1>2, <1>3, <1>4, <2>1, <2>2, <2>3 DEF One
<1>9. ASSUME NEW t \in Trades, AppendPrice(t) PROVE values'[a] >= Count(a, Owing)' + 1
  <2>1. Goes(t, "append", "add") /\ UNCHANGED <<market, avg>>
    BY <1>9 DEF AppendPrice, threads
  <2>2. Settled(a)
    BY <1>1, <2>1, SettledElsewhere DEF Compared, Uncompared
  <2>3. values'[a] = values[a] + One(avg[t] = a)
    BY <1>1, <1>9 DEF AppendPrice, One, TraderTypeOK
  <2>. QED  BY <1>1, <1>2, <1>3, <1>4, <2>1, <2>2, <2>3 DEF One, Owing
<1>10. ASSUME NEW t \in Trades, AddPrice(t) PROVE values'[a] >= Count(a, Owing)' + 1
  <2>1. Goes(t, "add", "check") /\ UNCHANGED <<market, avg, values>>
    BY <1>10 DEF AddPrice, threads
  <2>2. Settled(a)
    BY <1>1, <2>1, SettledElsewhere DEF Compared, Uncompared
  <2>. QED  BY <1>1, <1>2, <1>3, <1>4, <2>1, <2>2 DEF One, Owing
<1>11. ASSUME NEW t \in Trades, Check(t) PROVE values'[a] >= Count(a, Owing)' + 1
  <2>1. UNCHANGED <<market, avg, values>>
    BY <1>11 DEF Check, prices, threads
  <2>2. PICK to \in {"pop", "divide"} : /\ Goes(t, "check", to)
                                        /\ to = "pop" => values[avg[t]] > Window
    BY <1>11 DEF Check
  <2>3. CASE avg[t] = a
    <3>1. Count(a, Owing) <= Count(a, Working) /\ Count(a, Working) \in Nat
      BY CountGrows, FiniteAt DEF Owing, Working
    <3>2. Count(a, Working) <= Window
      BY <1>2 DEF RaceInv, CrowdInv
    <3>3. Count(a, Owing) <= values[a]
      BY DEF CountInv, WindowInv
    <3>4. CASE to = "pop"
      <4>1. Count(a, Owing)' = Count(a, Owing)
        BY <1>3, <1>4, <2>1, <2>2, <2>3, <3>4 DEF One, Owing
      <4>. QED  BY <1>3, <2>1, <2>2, <2>3, <3>1, <3>2, <3>4, <4>1
    <3>5. CASE to = "divide"
      <4>1. Count(a, Owing)' = Count(a, Owing) - 1
        BY <1>3, <1>4, <2>1, <2>2, <2>3, <3>5 DEF One, Owing
      <4>. QED  BY <1>3, <2>1, <3>3, <4>1
    <3>. QED  BY <2>2, <3>4, <3>5
  <2>4. CASE avg[t] # a
    <3>1. Settled(a)
      BY <1>1, <2>1, <2>2, <2>4, SettledElsewhere DEF Early
    <3>2. Count(a, Owing)' = Count(a, Owing)
      BY <1>3, <1>4, <2>1, <2>2, <2>4 DEF One
    <3>. QED  BY <1>1, <1>2, <2>1, <3>1, <3>2
  <2>. QED  BY <2>3, <2>4
<1>12. ASSUME NEW t \in Trades, Pop(t) PROVE values'[a] >= Count(a, Owing)' + 1
  <2>1. Goes(t, "pop", "store") /\ UNCHANGED <<market, avg>>
    BY <1>12 DEF Pop
  <2>2. Settled(a)
    BY <1>1, <2>1, SettledElsewhere DEF Compared, Uncompared
  <2>3. values'[a] = values[a] - One(avg[t] = a)
    BY <1>1, <1>12 DEF Pop, One, TraderTypeOK
  <2>. QED  BY <1>1, <1>2, <1>3, <1>4, <2>1, <2>2, <2>3 DEF One, Owing
<1>13. ASSUME NEW t \in Trades,
              \/ Store(t) \/ Divide(t) \/ sim_decide(t) \/ Post(t) \/ Answered(t) \/ GiveUp(t)
       PROVE  values'[a] >= Count(a, Owing)' + 1
  <2>1. UNCHANGED <<market, avg, values>>
    BY <1>13 DEF Store, Divide, sim_decide, Post, Answered, GiveUp, prices, threads
  <2>2. PICK from, to : /\ Goes(t, from, to) /\ from \notin Uncompared \cup Owing /\ to \notin Owing
                        /\ to \in Compared => from \in Compared
    BY <1>13 DEF Store, Divide, sim_decide, Post, Answered, GiveUp, Uncompared, Compared, Owing
  <2>3. Settled(a)
    BY <1>1, <2>1, <2>2, SettledElsewhere
  <2>. QED  BY <1>1, <1>2, <1>3, <1>4, <2>1, <2>2, <2>3 DEF One
<1>. QED  BY <1>5, <1>6, <1>7, <1>8, <1>9, <1>10, <1>11, <1>12, <1>13 DEF TraderNext, Prices

THEOREM RaceInvariant == TraderSpec => []RaceInv
<1>1. CountInv /\ CountInv' /\ RaceInv /\ [TraderNext]_traderVars => RaceInv'
  <2>. SUFFICES ASSUME CountInv, CountInv', RaceInv, [TraderNext]_traderVars PROVE RaceInv'
    OBVIOUS
  <2>1. TraderTypeOK /\ TraderTypeOK'
    BY DEF CountInv
  <2>2. ResetInv'
    BY <2>1, ResetStep DEF RaceInv
  <2>3. CreatorInv'
    BY <2>1, CreatorStep DEF RaceInv
  <2>4. CrowdInv'
    BY <2>1, CrowdStep DEF RaceInv
  <2>5. SettledInv'
    BY <2>1, SettledStep
  <2>. QED  BY <2>2, <2>3, <2>4, <2>5 DEF RaceInv
<1>. QED  BY <1>1, RaceInit, CountInvariant, PTL DEF TraderSpec

(***************************************************************************)
(* The market fails a request only when it was reset, when the average has *)
(* no price yet, or when more threads than the window has prices worked on *)
(* it at once (model.py:20-28 and 58-67).                                  *)
(***************************************************************************)
THEOREM MarketFailures == TraderSpec => MarketFailsInRacesOnly
<1>1. ASSUME CountInv, RaceInv, RaceInv', [TraderNext]_traderVars, NEW t \in Trades
      PROVE  /\ pc'[t] = "no_symbol" => resets > 0
             /\ pc'[t] = "no_price" /\ pc[t] # "no_price" =>
                  \/ pc[avg[t]] \in {"look", "append"}
                  \/ market[symbol[t]] # avg[t]
                  \/ avg[t] \in crowded
  <2>1. TraderTypeOK
    BY <1>1 DEF CountInv
  <2>2. ASSUME pc'[t] = "no_symbol" PROVE resets > 0
    <3>1. resets' > 0
      BY <1>1, <2>2 DEF RaceInv, ResetInv
    <3>2. CASE reset_market_data
      BY <1>1, <2>2, <3>2 DEF reset_market_data, RaceInv, ResetInv
    <3>3. CASE ~reset_market_data
      BY <1>1, <3>1, <3>3 DEF TraderNext, Receives, trade_request, trade_force, malformed, Prices,
         Test, Create, Find, Look, LookUp, Mean, AppendPrice, AddPrice, Check, Pop, Store, Divide,
         sim_decide, Post, Answered, GiveUp, traderVars
    <3>. QED  BY <3>2, <3>3
  <2>3. ASSUME pc'[t] = "no_price", pc[t] # "no_price",
               pc[avg[t]] \notin {"look", "append"}, market[symbol[t]] = avg[t], avg[t] \notin crowded
        PROVE  FALSE
    <3>. DEFINE a == avg[t]
    <3>1. a \in Trades /\ symbol[t] \in Symbols /\ values[a] \in Nat
      BY <2>1 DEF TraderTypeOK
    <3>2. (Mean(t) \/ Divide(t)) /\ values[a] = 0
      BY <1>1, <2>1, <2>3 DEF TraderNext, reset_market_data, Receives, trade_request, trade_force,
         malformed, Prices, Test, Create, Find, Look, LookUp, Mean, AppendPrice, AddPrice, Check,
         Pop, Store, Divide, sim_decide, Post, Answered, GiveUp, traderVars, Goes, TraderTypeOK
    <3>3. pc[a] # "look" /\ avg[a] = a
      BY <1>1, <2>3, <3>1 DEF RaceInv, CreatorInv
    <3>4. Count(a, Owing) \in Nat /\ Count(a, Owing) <= values[a]
      BY <1>1, <3>1, FiniteAt DEF CountInv, WindowInv
    <3>5. CASE pc[a] \in Owing
      BY <3>1, <3>2, <3>3, <3>4, <3>5, CountPositive
    <3>6. CASE pc[a] \notin Owing
      <4>1. Settled(a)
        BY <2>3, <3>1, <3>3, <3>6 DEF Settled, Uncompared, Owing
      <4>. QED  BY <1>1, <2>3, <3>1, <3>2, <3>4, <4>1 DEF RaceInv, SettledInv
    <3>. QED  BY <3>5, <3>6
  <2>. QED  BY <2>2, <2>3
<1>2. CountInv /\ RaceInv /\ RaceInv' /\ [TraderNext]_traderVars
        => [\A t \in Trades :
              /\ pc'[t] = "no_symbol" => resets > 0
              /\ pc'[t] = "no_price" /\ pc[t] # "no_price" =>
                   \/ pc[avg[t]] \in {"look", "append"}
                   \/ market[symbol[t]] # avg[t]
                   \/ avg[t] \in crowded]_traderVars
  BY <1>1
<1>. QED  BY <1>2, CountInvariant, RaceInvariant, PTL DEF TraderSpec, MarketFailsInRacesOnly
-----------------------------------------------------------------------------
(* The refinement: what a thread does for one request is what TradeRequest *)
(* allows.                                                                 *)

LEMMA RequestStep ==
  ASSUME TraderTypeOK, [TraderNext]_traderVars
  PROVE  [Request!RequestNext]_(Request!requestVars)
<1>. DEFINE phase == [u \in Trades |-> Phase(pc[u])]
<1>1. ASSUME NEW t \in Trades, NEW from, NEW to, Goes(t, from, to)
      PROVE  Request!Becomes(t, Phase(from), Phase(to))
  BY <1>1 DEF Request!Becomes, Goes, TraderTypeOK
<1>2. ASSUME NEW t \in Trades, NEW from, NEW to, Goes(t, from, to), Phase(to) = Phase(from)
      PROVE  phase' = phase
  BY <1>2 DEF Goes, TraderTypeOK
<1>3. CASE reset_market_data \/ UNCHANGED traderVars
  <2>1. UNCHANGED <<pc, bad>>
    BY <1>3 DEF reset_market_data, traderVars
  <2>. QED  BY <2>1 DEF Request!requestVars
<1>4. ASSUME NEW t \in Trades,
             \/ trade_request(t) \/ Test(t) \/ Create(t) \/ AppendPrice(t) \/ AddPrice(t) \/ Check(t)
             \/ Pop(t) \/ Store(t)
      PROVE  [Request!RequestNext]_(Request!requestVars)
  <2>1. PICK from, to : Goes(t, from, to) /\ Phase(from) = "new" /\ Phase(to) = "new"
    BY <1>4 DEF trade_request, Test, Create, AppendPrice, AddPrice, Check, Pop, Store, Phase, Failures
  <2>2. UNCHANGED bad
    BY <1>4 DEF trade_request, Test, Create, AppendPrice, AddPrice, Check, Pop, Store
  <2>. QED  BY <1>2, <2>1, <2>2 DEF Request!requestVars
<1>5. ASSUME NEW t \in Trades,
             malformed(t) \/ Find(t) \/ Look(t) \/ Mean(t) \/ Divide(t) \/ GiveUp(t)
      PROVE  [Request!RequestNext]_(Request!requestVars)
  <2>1. PICK from, to : /\ Goes(t, from, to) /\ Phase(from) \in {"new", "post", "waiting"}
                        /\ Phase(to) \in {Phase(from), "failed"}
    BY <1>5 DEF malformed, Find, Look, LookUp, Mean, Divide, GiveUp, Phase, Failures
  <2>2. UNCHANGED bad
    BY <1>5 DEF malformed, Find, Look, LookUp, Mean, Divide, GiveUp
  <2>3. CASE Phase(to) = Phase(from)
    BY <1>2, <2>1, <2>2, <2>3 DEF Request!requestVars
  <2>4. CASE Phase(to) = "failed"
    <3>1. Request!Fail(t)
      BY <1>1, <2>1, <2>2, <2>4 DEF Request!Fail
    <3>. QED  BY <3>1 DEF Request!RequestNext
  <2>. QED  BY <2>1, <2>3, <2>4
<1>6. ASSUME NEW t \in Trades, trade_force(t) \/ sim_decide(t)
      PROVE  [Request!RequestNext]_(Request!requestVars)
  <2>1. PICK from, to : /\ Goes(t, from, to) /\ Phase(from) = "new"
                        /\ \/ Phase(to) = "post" /\ bad' \in {bad, bad \cup {t}}
                           \/ Phase(to) = "failed" /\ UNCHANGED bad
    BY <1>6 DEF trade_force, sim_decide, Phase, Failures
  <2>2. Request!Decide(t) \/ Request!Fail(t)
    BY <1>1, <2>1 DEF Request!Decide, Request!Fail
  <2>. QED  BY <2>2 DEF Request!RequestNext
<1>7. ASSUME NEW t \in Trades, Post(t) \/ Answered(t)
      PROVE  [Request!RequestNext]_(Request!requestVars)
  <2>1. CASE Post(t)
    <3>1. Request!Post(t)
      BY <1>1, <2>1 DEF Post, Request!Post, Phase, Failures
    <3>. QED  BY <3>1 DEF Request!RequestNext
  <2>2. CASE Answered(t)
    <3>1. Request!Answered(t)
      BY <1>1, <2>2 DEF Answered, Request!Answered, Phase, Failures
    <3>. QED  BY <3>1 DEF Request!RequestNext
  <2>. QED  BY <1>7, <2>1, <2>2
<1>. QED  BY <1>3, <1>4, <1>5, <1>6, <1>7 DEF TraderNext, Receives, Prices

(***************************************************************************)
(* The trader implements TradeRequest: one post at most, its parameters    *)
(* fixed before it, and success only after an answer (app.py:131-221).     *)
(***************************************************************************)
THEOREM RequestsAreKept == TraderSpec => KeepsRequest
<1>1. TraderInit => Request!RequestInit
  BY DEF TraderInit, Request!RequestInit, Phase, Failures
<1>2. TraderTypeOK /\ [TraderNext]_traderVars => [Request!RequestNext]_(Request!requestVars)
  BY RequestStep
<1>. QED  BY <1>1, <1>2, TypeCorrect, PTL DEF TraderSpec, KeepsRequest, Request!RequestSpec
=============================================================================
