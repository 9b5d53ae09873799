---------------------------- MODULE MonkeyProofs ----------------------------
(***************************************************************************)
(* Proofs about Monkey, for every set of customers, symbols and handler    *)
(* threads and every number of calls.                                      *)
(***************************************************************************)
EXTENDS Monkey, SequenceTheorems, TLAPS

\* The operations the handlers' calls are made of.
Operations ==
  {i \in Instructions : /\ i.op \in {"put", "drop", "del"} => i.key \in Keys(i.table)
                        /\ i.op = "put" => i.entry # "absent"}

LEMMA KeysAreKeys == \A t \in Tables : Keys(t) \subseteq AllKeys
BY DEF Keys, AllKeys

LEMMA SlotsAreSlots ==
  /\ \A t \in Tables : \A k \in Keys(t) : <<t, k>> \in Slots
  /\ \A x \in Slots : x = <<x[1], x[2]>> /\ x[1] \in Tables /\ x[2] \in Keys(x[1])
BY KeysAreKeys DEF Slots

LEMMA Puts ==
  /\ \A t \in Tables : \A k \in Keys(t), e \in Entries \ {"absent"} : Put(t, k, e) \in Operations
  /\ \A t \in Tables : \A k \in Keys(t) : Boost(t, k) \in Operations /\ Drop(t, k) \in Operations
  /\ \A t \in Tables : Clear(t) \in Operations /\ Purge(t) \in Operations
<1>1. \A t \in Tables : \A k \in Keys(t) : k \in AllKeys
  BY KeysAreKeys
<1>2. Region \in AllKeys
  BY DEF AllKeys
<1>. QED  BY <1>1, <1>2 DEF Put, Boost, Drop, Clear, Purge, Do, Operations, Instructions, Entries

LEMMA ShortLists ==
  ASSUME NEW S, NEW a \in S, NEW b \in S, NEW c \in S, NEW d \in S, NEW e \in S
  PROVE  /\ <<>> \in Seq(S) /\ <<a>> \in Seq(S) /\ <<a, b>> \in Seq(S)
         /\ <<a, b, c, d>> \in Seq(S) /\ <<a, b, c, d, e>> \in Seq(S)
OBVIOUS

LEMMA SetsType ==
  ASSUME NEW t \in Tables, NEW k \in Keys(t), NEW e \in Modes, NEW u \in Tables, k \in Keys(u)
  PROVE  Sets(t, k, e, u) \in Seq(Operations)
<1>1. Put(t, k, e) \in Operations /\ Boost(u, k) \in Operations
  BY Puts DEF Modes, Entries
<1>2. <<Put(t, k, e)>> \in Seq(Operations) /\ <<Boost(u, k)>> \in Seq(Operations) /\ <<>> \in Seq(Operations)
  BY <1>1, ShortLists
<1>3. (IF e = "oneshot" THEN <<Boost(u, k)>> ELSE <<>>) \in Seq(Operations)
  BY <1>2
<1>. QED  BY <1>2, <1>3, ConcatProperties DEF Sets

LEMMA ProgramsType == Programs \subseteq Seq(Operations)
<1>. SUFFICES ASSUME NEW p \in Programs PROVE p \in Seq(Operations)
  OBVIOUS
<1>. USE DEF Tables, RegionTables, CustomerTables, SymbolTables
<1>. DEFINE Ops == Seq(Operations)
<1>1. \A a \in Operations : <<a>> \in Ops
  BY ShortLists
<1>2. \A a, b \in Operations : <<a, b>> \in Ops
  BY ShortLists
<1>3. /\ \A t \in RegionTables : Region \in Keys(t)
      /\ \A n \in Names, t \in CustomerTables : n \in Keys(t)
      /\ \A s \in Symbols, t \in SymbolTables : s \in Keys(t)
  BY DEF Keys
<1>4. \A t \in Tables : Clear(t) \in Operations /\ Purge(t) \in Operations
  BY Puts
<1>5. reset_market \in Ops /\ reset_error \in Ops
  BY <1>4, ShortLists DEF reset_market, reset_error
<1>6. test_error \in Ops /\ version_delete \in Ops
  BY <1>1, <1>2, <1>4 DEF test_error, version_delete
<1>7. /\ latency_region_delete \in Ops /\ err_db_region_delete \in Ops
      /\ err_model_region \in Ops /\ err_model_region_delete \in Ops /\ flags_region \in Ops
  <2>1. \A t \in RegionTables :
          /\ Put(t, Region, "set") \in Operations /\ Boost(t, Region) \in Operations
          /\ Drop(t, Region) \in Operations
    BY <1>3, Puts DEF Entries
  <2>. QED  BY <1>1, <1>2, <2>1 DEF latency_region_delete, err_db_region_delete, err_model_region,
              err_model_region_delete, flags_region
<1>8. \A e \in Modes : latency_region(e) \in Ops
  BY <1>3, SetsType DEF latency_region
<1>9. \A e \in Modes : err_db_region(e) \in Ops
  <2>1. \A e \in Modes : Put("db_region", Region, e) \in Operations
    BY <1>3, Puts DEF Entries, Modes
  <2>. QED  BY <1>1, <2>1 DEF err_db_region
<1>10. Tputs \subseteq Ops
  <2>1. \A x \in Slots : Boost(x[1], x[2]) \in Operations /\ Drop(x[1], x[2]) \in Operations
    BY SlotsAreSlots, Puts
  <2>. QED  BY <1>1, <2>1 DEF Tputs
<1>11. \A n \in Names, e \in Modes : err_db_customer(n, e) \in Ops
  BY <1>3, SetsType DEF err_db_customer
<1>12. \A n \in Names : err_db_customer_delete(n) \in Ops
  <2>1. \A n \in Names, t \in CustomerTables : Drop(t, n) \in Operations
    BY <1>3, Puts
  <2>. QED  BY <1>2, <2>1 DEF err_db_customer_delete
<1>13. \A c \in Customers, e \in Modes : err_request_ua(c, e) \in Ops
  BY <1>3, SetsType DEF err_request_ua, Names
<1>14. \A s \in Symbols : skew_market_factor_symbol(s) \in Ops /\ skew_pr_symbol_delete(s) \in Ops
  <2>1. \A s \in Symbols : Put("skew", s, "set") \in Operations /\ Drop("skew", s) \in Operations
    BY <1>3, Puts DEF Entries
  <2>. QED  BY <1>1, <2>1 DEF skew_market_factor_symbol, skew_pr_symbol_delete
<1>. HIDE DEF Ops
<1>15. p \in Ops
  BY <1>5, <1>6, <1>7, <1>8, <1>9, <1>10, <1>11, <1>12, <1>13, <1>14 DEF Programs
<1>. QED  BY <1>15 DEF Ops
-----------------------------------------------------------------------------
(* The invariant: where the generator is, what it relies on there, and     *)
(* which of its locals belong to the iteration.                            *)

\* The order in which an iteration reads the dictionaries.
Rank == [latency |-> 1, model |-> 2, flags |-> 3, request |-> 4, db_customer |-> 5,
         db_region |-> 5, skew |-> 6, tput_region |-> 7, tput_customer |-> 8, tput_symbol |-> 9]

FaultTables == Tables \ TputTables

TodoInv == todo \in [Handlers -> Seq(Operations)]

PcInv ==
  /\ pc.at \in {"test", "read"} => pc.table \in FaultTables
  /\ pc.at = "expire" => pc.table \in Expiring
  /\ pc.at = "sweep" => pc.table = "request"
  /\ pc.at \in {"any", "choose", "weigh"} => pc.table \in TputTables

LiveInv == InForce \subseteq live

\* What the generator has found is still there, or was removed since.
FoundInv ==
  alive =>
    /\ pc.at \in {"read", "expire"} => Slot(pc.table) \in InForce \cup removed
    /\ pc.at = "choose" => \E x \in InForce \cup removed : x[1] = pc.table
    /\ pc.at = "weigh" => <<pc.table, chosen>> \in InForce \cup removed

\* The rank of the dictionaries whose locals are still to be set in this iteration.
Now == CASE pc.at = "pick"               -> 0
         [] pc.at \in {"test", "read"}    -> Rank[pc.table]
         [] pc.at \in {"expire", "sweep"} -> Rank[pc.table] + 1
         [] OTHER                         -> 7

CarriedInv ==
  \A x \in carried : x[1] \in FaultTables /\ (x \in live \/ Rank[x[1]] >= Now)

\* The boosts that have been drawn since the last request.
Drawn(t) == \/ pc.at = "pick" /\ alive
            \/ pc.at \in {"any", "choose", "weigh"} /\ Rank[t] < Rank[pc.table]

AimInv == \A t \in TputTables : Drawn(t) /\ aim[t] # Nobody => <<t, aim[t]>> \in live

IndInv ==
  /\ TypeOK /\ TodoInv
  /\ PcInv /\ LiveInv /\ FoundInv /\ CarriedInv /\ AimInv

LEMMA Ranks ==
  /\ \A t \in Tables : Rank[t] \in 1 .. 9
  /\ \A t \in FaultTables : Rank[t] <= 6
  /\ \A t \in FaultTables \ {"skew"} : Follows[t] \in FaultTables /\ Rank[Follows[t]] = Rank[t] + 1
  /\ \A t \in FaultTables : \A u \in SameLocal(t) : Rank[u] = Rank[t]
  /\ \A t, u \in FaultTables : Rank[u] = Rank[t] => u \in SameLocal(t)
  /\ Expiring \subseteq FaultTables \ {"skew"}
BY DEF Rank, Follows, SameLocal, FaultTables, Tables, TputTables, RegionTables, CustomerTables,
   SymbolTables, Expiring

LEMMA SlotType ==
  ASSUME TypeOK, NEW t \in Tables PROVE Slot(t) \in Slots /\ Slot(t)[1] = t
<1>. DEFINE k == CASE t \in RegionTables   -> Region
                   [] t \in CustomerTables -> customer
                   [] OTHER                -> symbol
<1>1. k \in Keys(t)
  BY DEF TypeOK, Keys, RegionTables, CustomerTables
<1>2. Slot(t) = <<t, k>>
  BY DEF Slot
<1>. QED  BY <1>1, <1>2, SlotsAreSlots

LEMMA PresentType ==
  \A x \in Slots : (x \in InForce <=> Present(x)) /\ (Present(x) <=> x[2] \in Held(x[1]))
BY SlotsAreSlots DEF InForce, Held

LEMMA OperationsAreInstructions == Seq(Operations) \subseteq Seq(Instructions)
<1>1. Operations \subseteq Instructions
  BY DEF Operations
<1>. QED  BY <1>1, SeqMonotonic

LEMMA InvInit == Init => IndInv
<1>. SUFFICES ASSUME Init PROVE IndInv
  OBVIOUS
<1>. USE ConstantsOK DEF Init
<1>1. (CHOOSE c \in Customers : TRUE) \in Customers /\ (CHOOSE s \in Symbols : TRUE) \in Symbols
  OBVIOUS
<1>2. InForce = {}
  BY DEF InForce, Present
<1>3. TodoInv
  <2>1. <<>> \in Seq(Operations)
    OBVIOUS
  <2>. QED  BY <2>1 DEF TodoInv
<1>4. TypeOK
  <2>1. todo \in [Handlers -> Seq(Instructions)]
    BY <1>3, OperationsAreInstructions DEF TodoInv
  <2>2. entry \in [Slots -> Entries] /\ aim \in [TputTables -> AllKeys \cup {Nobody}]
    BY DEF Entries
  <2>3. pc \in [at : {"pick", "test", "read", "expire", "sweep", "submit", "any", "choose", "weigh"},
                table : Tables]
    BY DEF Tables, RegionTables
  <2>4. customer \in Names /\ symbol \in Symbols
    BY <1>1 DEF Names
  <2>. QED  BY <2>1, <2>2, <2>3, <2>4 DEF TypeOK
<1>5. PcInv /\ LiveInv /\ FoundInv /\ CarriedInv /\ AimInv
  BY <1>2 DEF PcInv, LiveInv, FoundInv, CarriedInv, AimInv
<1>. QED  BY <1>3, <1>4, <1>5 DEF IndInv
-----------------------------------------------------------------------------
(* The handlers, and time.                                                 *)

\* What a step of another thread may do to what the generator relies on.
Outside ==
  /\ UNCHANGED <<pc, alive, locals>>
  /\ live \subseteq live' /\ removed \subseteq removed'
  /\ InForce \subseteq InForce' \cup removed'
  /\ InForce' \subseteq live'
  /\ sweep = "grown" => sweep' = "grown"

LEMMA OutsideStep ==
  ASSUME IndInv, TypeOK', TodoInv', Outside PROVE IndInv'
<1>. USE DEF IndInv
<1>1. UNCHANGED <<pc, alive, customer, symbol, carried, aim, chosen>>
  BY DEF Outside, locals
<1>2. PcInv'
  BY <1>1 DEF PcInv
<1>3. LiveInv'
  BY DEF LiveInv, Outside
<1>4. \A t : Slot(t)' = Slot(t)
  BY <1>1 DEF Slot
<1>5. InForce \cup removed \subseteq InForce' \cup removed'
  BY DEF Outside
<1>6. FoundInv'
  BY <1>1, <1>4, <1>5 DEF FoundInv
<1>7. CarriedInv'
  <2>1. Now' = Now
    BY <1>1 DEF Now
  <2>. QED  BY <1>1, <2>1 DEF CarriedInv, Outside
<1>8. AimInv'
  BY <1>1 DEF AimInv, Drawn, Outside
<1>. QED  BY <1>2, <1>3, <1>6, <1>7, <1>8

LEMMA HeadOperation ==
  ASSUME TodoInv, NEW h \in Handlers, todo[h] # <<>>
  PROVE  /\ todo[h] \in Seq(Operations) /\ Head(todo[h]) \in Operations
         /\ Tail(todo[h]) \in Seq(Operations)
<1>1. todo[h] \in Seq(Operations)
  BY DEF TodoInv
<1>. QED  BY <1>1, HeadTailProperties

LEMMA TargetType ==
  ASSUME TodoInv, NEW h \in Handlers, Ready(h, "put") \/ Ready(h, "drop") \/ Ready(h, "del")
  PROVE  Target(h) \in Slots
<1>1. Head(todo[h]) \in Operations
  BY HeadOperation DEF Ready
<1>. QED  BY <1>1, SlotsAreSlots DEF Target, Ready, Operations, Instructions

LEMMA TodoType ==
  ASSUME TypeOK, TodoInv'
  PROVE  todo' \in [Handlers -> Seq(Instructions)]
BY OperationsAreInstructions DEF TodoInv

LEMMA CallStep ==
  ASSUME IndInv, NEW h \in Handlers, Call(h) PROVE IndInv'
<1>. USE ConstantsOK DEF IndInv
<1>1. TodoInv'
  BY ProgramsType DEF Call, TodoInv
<1>2. TypeOK'
  <2>1. todo' \in [Handlers -> Seq(Instructions)]
    BY <1>1, TodoType
  <2>2. calls' \in 0 .. MaxCalls
    BY DEF Call, TypeOK
  <2>. QED  BY <2>1, <2>2 DEF Call, TypeOK, locals, history
<1>3. Outside
  BY DEF Call, Outside, history, InForce, Present, LiveInv
<1>. QED  BY <1>1, <1>2, <1>3, OutsideStep

LEMMA PutStep ==
  ASSUME IndInv, NEW h \in Handlers, PutEntry(h) PROVE IndInv'
<1>. USE ConstantsOK DEF IndInv
<1>. DEFINE x == Target(h)
<1>. DEFINE e == Head(todo[h]).entry
<1>1. todo[h] # <<>> /\ Ready(h, "put")
  BY DEF PutEntry, Ready
<1>2. x \in Slots /\ e \in Entries \ {"absent"}
  BY <1>1, TargetType, HeadOperation DEF Ready, Operations, Instructions
<1>3. TodoInv'
  BY <1>1, HeadOperation DEF PutEntry, Proceed, TodoInv
<1>4. entry' = [entry EXCEPT ![x] = e] /\ live' = live \cup {x}
  BY DEF PutEntry
<1>. HIDE DEF x, e
<1>5. TypeOK'
  <2>1. todo' \in [Handlers -> Seq(Instructions)]
    BY <1>3, TodoType
  <2>2. entry' \in [Slots -> Entries] /\ live' \subseteq Slots
    BY <1>2, <1>4 DEF TypeOK
  <2>3. sweep' \in {"same", "grown", "replaced"}
    BY DEF PutEntry, TypeOK
  <2>. QED  BY <2>1, <2>2, <2>3 DEF PutEntry, TypeOK, locals
<1>6. InForce' = InForce \cup {x}
  BY <1>2, <1>4 DEF InForce, Present, TypeOK
<1>7. Outside
  <2>1. sweep = "grown" => sweep' = "grown"
    BY DEF PutEntry
  <2>. QED  BY <1>4, <1>6, <2>1 DEF PutEntry, Outside, LiveInv
<1>. QED  BY <1>3, <1>5, <1>7, OutsideStep

LEMMA DropTestStep ==
  ASSUME IndInv, NEW h \in Handlers, DropTest(h) PROVE IndInv'
<1>. USE ConstantsOK DEF IndInv
<1>1. todo[h] # <<>> /\ Ready(h, "drop")
  BY DEF DropTest, Ready
<1>2. TodoInv'
  <2>. DEFINE i == [Head(todo[h]) EXCEPT !.op = "del"]
  <2>1. Head(todo[h]) \in Operations /\ Tail(todo[h]) \in Seq(Operations)
    BY <1>1, HeadOperation
  <2>2. i \in Operations
    BY <1>1, <2>1 DEF Ready, Operations, Instructions
  <2>3. <<i>> \in Seq(Operations)
    BY <2>2, ShortLists
  <2>. HIDE DEF i
  <2>4. <<i>> \o Tail(todo[h]) \in Seq(Operations)
    BY <2>1, <2>3, ConcatProperties
  <2>5. todo' = [todo EXCEPT ![h] = <<i>> \o Tail(todo[h])]
          \/ todo' = [todo EXCEPT ![h] = Tail(todo[h])]
    BY DEF DropTest, Proceed, TodoInv, i
  <2>. QED  BY <2>1, <2>4, <2>5 DEF TodoInv
<1>3. TypeOK'
  <2>1. todo' \in [Handlers -> Seq(Instructions)]
    BY <1>2, TodoType
  <2>. QED  BY <2>1 DEF DropTest, TypeOK, locals, history
<1>4. Outside
  BY DEF DropTest, Outside, history, InForce, Present, LiveInv
<1>. QED  BY <1>2, <1>3, <1>4, OutsideStep

LEMMA DeleteStep ==
  ASSUME IndInv, NEW h \in Handlers, Delete(h) PROVE IndInv'
<1>. USE ConstantsOK DEF IndInv
<1>. DEFINE x == Target(h)
<1>1. todo[h] # <<>> /\ Ready(h, "del")
  BY DEF Delete, Ready
<1>2. x \in Slots
  BY <1>1, TargetType
<1>3. TodoInv'
  <2>1. Tail(todo[h]) \in Seq(Operations) /\ <<>> \in Seq(Operations)
    BY <1>1, HeadOperation
  <2>2. todo' = [todo EXCEPT ![h] = Tail(todo[h])] \/ todo' = [todo EXCEPT ![h] = <<>>]
    BY DEF Delete, Proceed, TodoInv
  <2>. QED  BY <2>1, <2>2 DEF TodoInv
<1>4. entry' = [entry EXCEPT ![x] = "absent"] /\ removed' = removed \cup ({x} \cap InForce)
  BY DEF Delete
<1>. HIDE DEF x
<1>5. TypeOK'
  <2>1. todo' \in [Handlers -> Seq(Instructions)]
    BY <1>3, TodoType
  <2>2. entry' \in [Slots -> Entries] /\ removed' \subseteq Slots
    BY <1>2, <1>4 DEF TypeOK, Entries
  <2>. QED  BY <2>1, <2>2 DEF Delete, TypeOK, locals
<1>6. InForce' = InForce \ {x}
  BY <1>2, <1>4 DEF InForce, Present, TypeOK
<1>7. Outside
  BY <1>4, <1>6 DEF Delete, Outside, LiveInv
<1>. QED  BY <1>3, <1>5, <1>7, OutsideStep

LEMMA PurgeStep ==
  ASSUME IndInv, NEW h \in Handlers, PurgeFirst(h) PROVE IndInv'
<1>. USE ConstantsOK DEF IndInv
<1>1. todo[h] # <<>> /\ Ready(h, "purge")
  BY DEF PurgeFirst, Ready
<1>. DEFINE t == Head(todo[h]).table
<1>2. Tail(todo[h]) \in Seq(Operations) /\ t \in Tables
  BY <1>1, HeadOperation DEF Operations, Instructions
<1>3. TodoInv'
  <2>1. ASSUME NEW k \in Held(t) PROVE <<Do("del", t, k, "absent")>> \in Seq(Operations)
    <3>1. k \in Keys(t) /\ k \in AllKeys
      BY <1>2, <2>1, KeysAreKeys DEF Held
    <3>2. Do("del", t, k, "absent") \in Operations
      BY <1>2, <3>1 DEF Do, Operations, Instructions, Entries
    <3>. QED  BY <3>2, ShortLists
  <2>2. \/ todo' = [todo EXCEPT ![h] = Tail(todo[h])]
        \/ \E k \in Held(t) : todo' = [todo EXCEPT ![h] = <<Do("del", t, k, "absent")>>]
    BY DEF PurgeFirst, Proceed, TodoInv
  <2>. QED  BY <1>2, <2>1, <2>2 DEF TodoInv
<1>4. TypeOK'
  <2>1. todo' \in [Handlers -> Seq(Instructions)]
    BY <1>3, TodoType
  <2>. QED  BY <2>1 DEF PurgeFirst, TypeOK, locals, history
<1>5. Outside
  BY DEF PurgeFirst, Outside, history, InForce, Present, LiveInv
<1>. QED  BY <1>3, <1>4, <1>5, OutsideStep

LEMMA ClearStep ==
  ASSUME IndInv, NEW h \in Handlers, ClearTable(h) PROVE IndInv'
<1>. USE ConstantsOK DEF IndInv
<1>1. todo[h] # <<>> /\ Ready(h, "clear")
  BY DEF ClearTable, Ready
<1>. DEFINE gone == {x \in InForce : x[1] = Head(todo[h]).table}
<1>2. TodoInv'
  BY <1>1, HeadOperation DEF ClearTable, Proceed, TodoInv
<1>3. gone \subseteq InForce /\ InForce \subseteq Slots
  BY DEF InForce
<1>4. /\ entry' = [x \in Slots |-> IF x \in gone THEN "absent" ELSE entry[x]]
      /\ removed' = removed \cup gone
  BY DEF ClearTable
<1>. HIDE DEF gone
<1>5. TypeOK'
  <2>1. todo' \in [Handlers -> Seq(Instructions)]
    BY <1>2, TodoType
  <2>2. entry' \in [Slots -> Entries] /\ removed' \subseteq Slots
    BY <1>3, <1>4 DEF TypeOK, Entries
  <2>3. sweep' \in {"same", "grown", "replaced"}
    BY DEF ClearTable, TypeOK
  <2>. QED  BY <2>1, <2>2, <2>3 DEF ClearTable, TypeOK, locals
<1>6. InForce' = InForce \ gone
  BY <1>4 DEF InForce, Present
<1>7. Outside
  <2>1. sweep = "grown" => sweep' = "grown"
    BY DEF ClearTable
  <2>. QED  BY <1>4, <1>6, <2>1 DEF ClearTable, Outside, LiveInv
<1>. QED  BY <1>2, <1>5, <1>7, OutsideStep

LEMMA AgeStep ==
  ASSUME IndInv, NEW x \in Slots, Age(x) PROVE IndInv'
<1>. USE DEF IndInv
<1>1. TodoInv'
  BY DEF Age, TodoInv, web
<1>2. TypeOK'
  BY DEF Age, TypeOK, Entries, web, locals, history
<1>3. InForce' = InForce
  BY DEF Age, InForce, Present, TypeOK
<1>4. Outside
  BY <1>3 DEF Age, Outside, history, LiveInv
<1>. QED  BY <1>1, <1>2, <1>4, OutsideStep
-----------------------------------------------------------------------------
(* The generator.                                                          *)

PcType == [at : {"pick", "test", "read", "expire", "sweep", "submit", "any", "choose", "weigh"},
           table : Tables]

LEMMA AtFacts ==
  ASSUME NEW step, NEW t, At(step, t) PROVE alive = TRUE /\ pc.at = step /\ pc.table = t
BY DEF At

LEMMA TestFacts ==
  ASSUME NEW t \in FaultTables, Goto("test", t)
  PROVE  /\ pc' \in PcType /\ pc'.at = "test" /\ pc'.table = t /\ alive' = alive
         /\ PcInv' /\ Now' = Rank[t]
BY DEF Goto, PcType, PcInv, Now, FaultTables

LEMMA NextTableFacts ==
  ASSUME NEW t \in FaultTables, NextTable(t)
  PROVE  /\ pc' \in PcType /\ pc'.at \in {"test", "submit"} /\ alive' = alive
         /\ PcInv' /\ Now' = Rank[t] + 1
<1>1. CASE t = "skew"
  <2>1. pc' = [at |-> "submit", table |-> "skew"] /\ alive' = alive
    BY <1>1 DEF NextTable, Goto
  <2>. QED  BY <1>1, <2>1 DEF PcType, PcInv, Now, Rank, FaultTables
<1>2. CASE t # "skew"
  BY <1>2, TestFacts, Ranks DEF NextTable
<1>. QED  BY <1>1, <1>2

\* A step of the generator that does not die, and does not begin an iteration.
LEMMA GoesOn ==
  ASSUME IndInv, alive', TypeOK', UNCHANGED <<entry, customer, symbol, web, history>>,
         PcInv', CarriedInv', AimInv',
         /\ pc'.at \in {"read", "expire"} => Slot(pc'.table) \in InForce \cup removed
         /\ pc'.at = "choose" => \E x \in InForce : x[1] = pc'.table
         /\ pc'.at = "weigh" => <<pc'.table, chosen'>> \in InForce
  PROVE  IndInv'
<1>. USE DEF IndInv
<1>1. UNCHANGED <<live, removed, todo>>
  BY DEF history, web
<1>2. TodoInv' /\ InForce' = InForce
  BY <1>1 DEF TodoInv, InForce, Present
<1>3. LiveInv'
  BY <1>1, <1>2 DEF LiveInv
<1>4. \A t : Slot(t)' = Slot(t)
  BY DEF Slot
<1>5. FoundInv'
  BY <1>1, <1>2, <1>4 DEF FoundInv
<1>. QED  BY <1>2, <1>3, <1>5

\* Away from the drawing of boosts nothing is claimed of them.
LEMMA NotDrawn ==
  ASSUME pc'.at \in {"test", "read", "expire", "sweep", "submit"} PROVE AimInv'
BY DEF AimInv, Drawn

\* A step by which the thread dies keeps what concerns its way.
LEMMA DiesStep ==
  ASSUME IndInv, alive, Dies, UNCHANGED <<entry, locals, web, history>>, TypeOK'
  PROVE  IndInv'
<1>. USE DEF IndInv
<1>1. UNCHANGED <<live, removed, todo, pc, carried, aim, chosen>> /\ alive' = FALSE
  BY DEF history, web, locals, Dies
<1>2. TodoInv' /\ InForce' = InForce /\ PcInv'
  BY <1>1 DEF TodoInv, InForce, Present, PcInv
<1>3. LiveInv' /\ FoundInv'
  BY <1>1, <1>2 DEF LiveInv, FoundInv
<1>4. CarriedInv'
  BY <1>1 DEF CarriedInv, Now
<1>5. AimInv'
  BY <1>1 DEF AimInv, Drawn
<1>. QED  BY <1>2, <1>3, <1>4, <1>5

\* What a table's local carries once it is set anew.
LEMMA SetAnew ==
  ASSUME IndInv, NEW t \in FaultTables, Now = Rank[t], NEW carry \in SUBSET live,
         carry \subseteq {x \in Slots : x[1] \in FaultTables},
         carried' = Without(t) \cup carry \/ carried' = Without(t),
         Now' \in Nat, Now' <= Rank[t] + 1, UNCHANGED live
  PROVE  CarriedInv'
<1>. SUFFICES ASSUME NEW x \in carried' PROVE x[1] \in FaultTables /\ (x \in live \/ Rank[x[1]] >= Now')
  BY DEF CarriedInv
<1>1. CASE x \in carry
  BY <1>1
<1>2. CASE x \in Without(t)
  <2>1. x \in carried /\ x[1] \notin SameLocal(t)
    BY <1>2 DEF Without
  <2>2. x[1] \in FaultTables /\ (x \in live \/ Rank[x[1]] >= Now)
    BY <2>1 DEF IndInv, CarriedInv
  <2>3. Rank[x[1]] # Rank[t] /\ Rank[x[1]] \in Nat /\ Rank[t] \in Nat
    BY <2>1, <2>2, Ranks DEF FaultTables
  <2>. QED  BY <2>2, <2>3
<1>. QED  BY <1>1, <1>2

LEMMA TypeKept ==
  ASSUME TypeOK, pc' \in PcType, alive' \in BOOLEAN, UNCHANGED <<entry, web, history>>,
         customer' \in Names, symbol' \in Symbols, carried' \subseteq Slots,
         aim' \in [TputTables -> AllKeys \cup {Nobody}],
         \A t \in TputTables : aim'[t] \in Keys(t) \cup {Nobody},
         chosen' \in AllKeys \cup {Nobody}, sweep' \in {"same", "grown", "replaced"}
  PROVE  TypeOK'
BY DEF TypeOK, PcType, web, history

\* The same when only the generator's place, its faults and sweep change.
LEMMA TypeOnTheWay ==
  ASSUME TypeOK, pc' \in PcType, alive' \in BOOLEAN, carried' \subseteq Slots,
         sweep' \in {"same", "grown", "replaced"},
         UNCHANGED <<entry, web, history, customer, symbol, aim, chosen>>
  PROVE  TypeOK'
BY TypeKept DEF TypeOK

LEMMA PickStep == ASSUME IndInv, Pick PROVE IndInv'
<1>. USE ConstantsOK DEF IndInv
<1>1. PICK c \in Aimed("tput_customer", Customers), s \in Aimed("tput_symbol", Symbols) :
        /\ At("pick", "latency")
        /\ customer' = c
        /\ symbol' = s
        /\ live' = InForce
        /\ removed' = {}
        /\ IF c \in Customers THEN Goto("test", "latency") ELSE Dies
        /\ UNCHANGED <<entry, carried, aim, chosen, sweep, web>>
  BY DEF Pick
<1>2. alive = TRUE /\ pc.at = "pick" /\ pc = [at |-> "pick", table |-> "latency"]
  BY <1>1 DEF At
<1>3. c \in Names /\ s \in Symbols
  <2>1. /\ aim["tput_customer"] \in Names \cup {Nobody}
        /\ aim["tput_symbol"] \in Symbols \cup {Nobody}
    BY DEF TypeOK, TputTables, Keys, RegionTables, CustomerTables
  <2>. QED  BY <1>1, <2>1 DEF Aimed, Names
<1>4. InForce' = InForce /\ TodoInv' /\ InForce \subseteq Slots
  BY <1>1 DEF InForce, Present, TodoInv, web
<1>5. pc' \in PcType /\ alive' \in BOOLEAN
  <2>1. CASE Goto("test", "latency")
    BY <1>2, <2>1 DEF Goto, PcType, Tables, RegionTables
  <2>2. CASE Dies
    BY <1>2, <2>2 DEF Dies, TypeOK, PcType
  <2>. QED  BY <1>1, <2>1, <2>2
<1>6. TypeOK'
  BY <1>1, <1>3, <1>4, <1>5 DEF TypeOK, PcType, web
<1>7. LiveInv'
  BY <1>1, <1>4 DEF LiveInv
<1>8. ASSUME alive' = TRUE PROVE PcInv' /\ FoundInv' /\ CarriedInv' /\ AimInv'
  <2>1. Goto("test", "latency") /\ "latency" \in FaultTables
    BY <1>1, <1>8 DEF Dies, FaultTables, Tables, RegionTables, TputTables
  <2>2. pc'.at = "test" /\ PcInv' /\ Now' = Rank["latency"]
    BY <2>1, TestFacts
  <2>3. FoundInv' /\ AimInv'
    BY <1>8, <2>2 DEF FoundInv, AimInv, Drawn
  <2>4. \A x \in carried : x[1] \in FaultTables /\ Rank[x[1]] >= 1
    BY Ranks DEF CarriedInv, FaultTables
  <2>5. CarriedInv'
    BY <1>1, <2>2, <2>4 DEF CarriedInv, Rank
  <2>. QED  BY <2>2, <2>3, <2>5
<1>9. ASSUME alive' = FALSE PROVE PcInv' /\ FoundInv' /\ CarriedInv' /\ AimInv'
  <2>1. pc' = pc
    BY <1>1, <1>2, <1>9 DEF Goto, Dies
  <2>2. PcInv' /\ FoundInv' /\ AimInv'
    BY <1>2, <1>9, <2>1 DEF PcInv, FoundInv, AimInv, Drawn
  <2>4. \A x \in carried : x[1] \in FaultTables /\ Rank[x[1]] >= 0
    BY Ranks DEF CarriedInv, FaultTables
  <2>5. CarriedInv'
    BY <1>1, <1>2, <2>1, <2>4 DEF CarriedInv, Now
  <2>. QED  BY <2>2, <2>5
<1>. QED  BY <1>4, <1>5, <1>6, <1>7, <1>8, <1>9

LEMMA TestTable ==
  ASSUME IndInv, NEW t \in Tables, At("test", t) \/ At("read", t) \/ At("expire", t)
  PROVE  /\ t \in FaultTables /\ Rank[t] \in Nat /\ alive = TRUE
         /\ pc.at \in {"test", "read", "expire"} /\ pc.table = t
         /\ Now = IF pc.at = "expire" THEN Rank[t] + 1 ELSE Rank[t]
<1>1. pc.at \in {"test", "read", "expire"} /\ pc.table = t /\ alive = TRUE
  BY DEF At
<1>2. t \in FaultTables /\ Rank[t] \in Nat
  BY <1>1, Ranks DEF IndInv, PcInv, FaultTables
<1>. QED  BY <1>1, <1>2 DEF Now

LEMMA FoundStep == ASSUME IndInv, NEW t \in Tables, Found(t) PROVE IndInv'
<1>. USE DEF IndInv
<1>1. t \in FaultTables /\ Now = Rank[t] /\ alive = TRUE
  BY TestTable DEF Found, At
<1>2. pc' = [at |-> "read", table |-> t] /\ alive' = alive
  BY DEF Found, Goto
<1>3. UNCHANGED <<entry, customer, symbol, carried, aim, chosen, sweep, web, history>>
  BY DEF Found, locals
<1>4. TypeOK' /\ PcInv' /\ AimInv'
  BY <1>1, <1>2, <1>3 DEF TypeOK, PcInv, AimInv, Drawn, web, history
<1>5. CarriedInv'
  BY <1>1, <1>2, <1>3 DEF CarriedInv, Now, history
<1>6. Slot(t) \in InForce
  BY SlotType, PresentType DEF Found
<1>. QED  BY <1>1, <1>2, <1>3, <1>4, <1>5, <1>6, GoesOn

LEMMA NotFoundStep == ASSUME IndInv, NEW t \in Tables, NotFound(t) PROVE IndInv'
<1>. USE DEF IndInv
<1>1. t \in FaultTables /\ Now = Rank[t] /\ alive = TRUE /\ Rank[t] \in Nat
  <2>1. At("test", t) /\ pc.at = "test"
    BY DEF NotFound, At
  <2>. QED  BY <2>1, TestTable
<1>2. UNCHANGED <<entry, customer, symbol, aim, chosen, sweep, web, history>>
  BY DEF NotFound
<1>3. carried' = Without(t) /\ Without(t) \subseteq carried
  BY DEF NotFound, Without
<1>4. /\ pc' \in PcType /\ pc'.at \in {"test", "submit"} /\ alive' = alive
      /\ PcInv' /\ Now' \in Nat /\ Now' <= Rank[t] + 1
  <2>1. CASE t = "db_customer"
    <3>1. Goto("test", "db_region") /\ "db_region" \in FaultTables
      BY <2>1 DEF NotFound, FaultTables, Tables, RegionTables, TputTables
    <3>2. Rank["db_region"] = 5 /\ Rank[t] = 5
      BY <2>1 DEF Rank
    <3>. QED  BY <3>1, <3>2, TestFacts
  <2>2. CASE t # "db_customer"
    <3>1. NextTable(t)
      BY <2>2 DEF NotFound
    <3>2. /\ pc' \in PcType /\ pc'.at \in {"test", "submit"} /\ alive' = alive
          /\ PcInv' /\ Now' = Rank[t] + 1
      BY <1>1, <3>1, NextTableFacts
    <3>. QED  BY <1>1, <3>2
  <2>. QED  BY <2>1, <2>2
<1>5. TypeOK'
  BY <1>1, <1>2, <1>3, <1>4, TypeOnTheWay DEF TypeOK
<1>6. CarriedInv'
  <2>1. UNCHANGED live
    BY <1>2 DEF history
  <2>2. {} \in SUBSET live /\ {} \subseteq {x \in Slots : x[1] \in FaultTables}
    OBVIOUS
  <2>. QED  BY <1>1, <1>3, <1>4, <2>1, <2>2, SetAnew
<1>7. AimInv'
  BY <1>4, NotDrawn
<1>. QED  BY <1>1, <1>2, <1>4, <1>5, <1>6, <1>7, GoesOn

LEMMA ReadStep == ASSUME IndInv, NEW t \in Tables, Read(t) PROVE IndInv'
<1>. USE DEF IndInv
<1>1. t \in FaultTables /\ Now = Rank[t] /\ alive = TRUE /\ Rank[t] \in Nat
      /\ pc.at = "read" /\ pc.table = t
  <2>1. At("read", t) /\ pc.at = "read"
    BY DEF Read, At
  <2>. QED  BY <2>1, TestTable
<1>2. UNCHANGED <<entry, customer, symbol, aim, chosen, sweep, web, history>>
  BY DEF Read
<1>3. Slot(t) \in Slots /\ Slot(t)[1] = t
  BY SlotType
<1>4. CASE ~Present(Slot(t))
  <2>1. Dies /\ carried' = carried
    BY <1>4 DEF Read
  <2>2. pc' \in PcType /\ alive' \in BOOLEAN
    BY <2>1 DEF Dies, TypeOK, PcType
  <2>3. TypeOK'
    BY <1>2, <2>1, <2>2, TypeOnTheWay DEF TypeOK
  <2>. QED  BY <1>1, <1>2, <2>1, <2>3, DiesStep DEF locals
<1>5. CASE Present(Slot(t))
  <2>1. Slot(t) \in InForce /\ Slot(t) \in live
    BY <1>3, <1>5, PresentType DEF LiveInv
  <2>2. carried' = Without(t) \cup {Slot(t)} \/ carried' = Without(t)
    BY <1>5 DEF Read
  <2>3. /\ pc' \in PcType /\ pc'.at \in {"expire", "test", "submit"} /\ alive' = alive
        /\ PcInv' /\ Now' = Rank[t] + 1 /\ (pc'.at = "expire" => pc'.table = t)
    <3>1. CASE t \in Expiring
      <4>1. pc' = [at |-> "expire", table |-> t] /\ alive' = alive
        BY <1>5, <3>1 DEF Read, Goto
      <4>. QED  BY <1>1, <3>1, <4>1 DEF PcType, PcInv, Now, FaultTables
    <3>2. CASE t \notin Expiring
      <4>1. NextTable(t)
        BY <1>5, <3>2 DEF Read
      <4>. QED  BY <1>1, <4>1, NextTableFacts
    <3>. QED  BY <3>1, <3>2
  <2>4. carried' \subseteq Slots
    BY <1>3, <2>2 DEF Without, TypeOK
  <2>5. TypeOK'
    BY <1>1, <1>2, <2>3, <2>4, TypeOnTheWay DEF TypeOK
  <2>6. CarriedInv'
    <3>1. UNCHANGED live
      BY <1>2 DEF history
    <3>2. {Slot(t)} \in SUBSET live /\ {Slot(t)} \subseteq {x \in Slots : x[1] \in FaultTables}
      BY <1>1, <1>3, <2>1
    <3>3. Now' \in Nat /\ Now' <= Rank[t] + 1
      BY <1>1, <2>3
    <3>. QED  BY <1>1, <2>2, <3>1, <3>2, <3>3, SetAnew
  <2>7. AimInv'
    BY <2>3, NotDrawn
  <2>. QED  BY <1>1, <1>2, <2>1, <2>3, <2>5, <2>6, <2>7, GoesOn
<1>. QED  BY <1>4, <1>5

LEMMA ExpireStep == ASSUME IndInv, NEW t \in Tables, Expire(t) PROVE IndInv'
<1>. USE DEF IndInv
<1>1. t \in FaultTables /\ Now = Rank[t] + 1 /\ alive = TRUE /\ pc.at = "expire" /\ pc.table = t
  BY TestTable DEF Expire, At
<1>2. UNCHANGED <<entry, customer, symbol, carried, aim, chosen, web, history>>
  BY DEF Expire, locals
<1>3. sweep' = "same"
  BY DEF Expire
<1>5. CASE Dies
  <2>1. pc' \in PcType /\ alive' \in BOOLEAN
    BY <1>5 DEF Dies, TypeOK, PcType
  <2>2. TypeOK'
    BY <1>2, <1>3, <2>1, TypeOnTheWay DEF TypeOK
  <2>. QED  BY <1>1, <1>2, <1>5, <2>2, DiesStep DEF locals
<1>6. CASE ~Dies
  <2>1. (t = "request" /\ Goto("sweep", t)) \/ NextTable(t)
    BY <1>6 DEF Expire
  <2>2. /\ pc' \in PcType /\ pc'.at \in {"sweep", "test", "submit"} /\ alive' = alive
        /\ PcInv' /\ Now' = Rank[t] + 1
    <3>1. CASE t = "request" /\ Goto("sweep", t)
      BY <3>1 DEF Goto, PcType, PcInv, Now, Tables, CustomerTables
    <3>2. CASE NextTable(t)
      BY <1>1, <3>2, NextTableFacts
    <3>. QED  BY <2>1, <3>1, <3>2
  <2>3. TypeOK'
    BY <1>1, <1>2, <1>3, <2>2, TypeOnTheWay DEF TypeOK
  <2>4. CarriedInv'
    BY <1>1, <1>2, <2>2 DEF CarriedInv, history
  <2>5. AimInv'
    BY <2>2, NotDrawn
  <2>. QED  BY <1>1, <1>2, <2>2, <2>3, <2>4, <2>5, GoesOn
<1>. QED  BY <1>5, <1>6

LEMMA SweepStep == ASSUME IndInv, Sweep PROVE IndInv'
<1>. USE DEF IndInv
<1>1. pc.at = "sweep" /\ pc.table = "request" /\ alive = TRUE /\ Now = Rank["request"] + 1
  BY DEF Sweep, At, Now
<1>2. UNCHANGED <<entry, customer, symbol, carried, aim, chosen, sweep, web, history>>
  BY DEF Sweep, locals
<1>3. CASE sweep = "grown"
  <2>1. Dies
    BY <1>3 DEF Sweep
  <2>2. pc' \in PcType /\ alive' \in BOOLEAN
    BY <2>1 DEF Dies, TypeOK, PcType
  <2>3. TypeOK'
    BY <1>2, <2>2, TypeOnTheWay DEF TypeOK
  <2>. QED  BY <1>1, <1>2, <2>1, <2>3, DiesStep DEF locals
<1>4. CASE sweep # "grown"
  <2>1. "request" \in FaultTables
    BY DEF FaultTables, Tables, CustomerTables, TputTables
  <2>2. /\ pc' \in PcType /\ pc'.at \in {"test", "submit"} /\ alive' = alive
        /\ PcInv' /\ Now' = Rank["request"] + 1
    BY <1>4, <2>1, NextTableFacts DEF Sweep
  <2>3. TypeOK'
    BY <1>1, <1>2, <2>2, TypeOnTheWay DEF TypeOK
  <2>4. CarriedInv'
    BY <1>1, <1>2, <2>2 DEF CarriedInv, history
  <2>5. AimInv'
    BY <2>2, NotDrawn
  <2>. QED  BY <1>1, <1>2, <2>2, <2>3, <2>4, <2>5, GoesOn
<1>. QED  BY <1>3, <1>4

LEMMA SubmitStep == ASSUME IndInv, Submit PROVE IndInv'
<1>. USE DEF IndInv
<1>1. pc.at = "submit" /\ alive = TRUE /\ Now = 7
  BY DEF Submit, At, Now
<1>2. UNCHANGED <<entry, customer, symbol, carried, aim, chosen, sweep, web, history>>
  BY DEF Submit, locals
<1>3. pc' = [at |-> "any", table |-> "tput_region"] /\ alive' = alive
  BY DEF Submit, Goto
<1>4. pc' \in PcType /\ PcInv' /\ Now' = 7
  BY <1>3 DEF PcType, PcInv, Now, Tables, SymbolTables, CustomerTables, RegionTables, TputTables
<1>5. TypeOK'
  BY <1>1, <1>2, <1>3, <1>4, TypeOnTheWay DEF TypeOK
<1>6. CarriedInv'
  BY <1>1, <1>2, <1>4 DEF CarriedInv, history
<1>7. AimInv'
  BY <1>3 DEF AimInv, Drawn, Rank, TputTables
<1>. QED  BY <1>1, <1>2, <1>3, <1>4, <1>5, <1>6, <1>7, GoesOn

\* The carried faults once all of an iteration's locals are set.
LEMMA CarriedLate ==
  ASSUME IndInv, pc.at \in {"submit", "any", "choose", "weigh"}, carried' = carried, live' = live
  PROVE  CarriedInv'
<1>1. Now = 7
  BY DEF Now
<1>2. ASSUME NEW x \in carried PROVE x[1] \in FaultTables /\ x \in live
  <2>1. x[1] \in FaultTables /\ (x \in live \/ Rank[x[1]] >= 7)
    BY <1>1 DEF IndInv, CarriedInv
  <2>2. Rank[x[1]] <= 6 /\ Rank[x[1]] \in Nat
    BY <2>1, Ranks DEF FaultTables
  <2>. QED  BY <2>1, <2>2
<1>. QED  BY <1>2 DEF CarriedInv

LEMMA NextTputFacts ==
  ASSUME NEW t \in TputTables, NextTput(t), alive = TRUE
  PROVE  /\ pc' \in PcType /\ pc'.at \in {"any", "pick"} /\ alive' = alive /\ PcInv'
         /\ \A u \in TputTables : Drawn(u)' <=> Rank[u] <= Rank[t]
<1>. USE DEF NextTput, Goto, Drawn, Rank, TputTables
<1>1. CASE t = "tput_region"
  <2>1. pc' = [at |-> "any", table |-> "tput_customer"] /\ alive' = alive
    BY <1>1
  <2>2. pc' \in PcType /\ PcInv'
    BY <2>1 DEF PcType, PcInv, Tables, CustomerTables
  <2>. QED  BY <1>1, <2>1, <2>2
<1>2. CASE t = "tput_customer"
  <2>1. pc' = [at |-> "any", table |-> "tput_symbol"] /\ alive' = alive
    BY <1>2
  <2>2. pc' \in PcType /\ PcInv'
    BY <2>1 DEF PcType, PcInv, Tables, SymbolTables
  <2>. QED  BY <1>2, <2>1, <2>2
<1>3. CASE t = "tput_symbol"
  <2>1. pc' = [at |-> "pick", table |-> "latency"] /\ alive' = alive
    BY <1>3
  <2>2. pc' \in PcType /\ PcInv'
    BY <2>1 DEF PcType, PcInv, Tables, RegionTables
  <2>. QED  BY <1>3, <2>1, <2>2
<1>. QED  BY <1>1, <1>2, <1>3

LEMMA AnyBoostStep == ASSUME IndInv, NEW t \in TputTables, AnyBoost(t) PROVE IndInv'
<1>. USE DEF IndInv
<1>1. pc.at = "any" /\ pc.table = t /\ alive = TRUE
  BY DEF AnyBoost, At
<1>2. UNCHANGED <<entry, customer, symbol, carried, chosen, sweep, web, history>>
  BY DEF AnyBoost
<1>3. aim' = [aim EXCEPT ![t] = Nobody]
  BY DEF AnyBoost
<1>4. /\ pc' \in PcType /\ alive' = alive /\ PcInv'
      /\ pc'.at \in {"any", "pick", "choose"}
      /\ pc'.at = "choose" => pc'.table = t /\ Held(t) # {}
      /\ \A u \in TputTables : Drawn(u)' => Rank[u] <= Rank[t]
  <2>1. CASE Held(t) = {}
    <3>1. NextTput(t)
      BY <2>1 DEF AnyBoost
    <3>. QED  BY <1>1, <3>1, NextTputFacts
  <2>2. CASE Held(t) # {}
    <3>1. pc' = [at |-> "choose", table |-> t] /\ alive' = alive
      BY <2>2 DEF AnyBoost, Goto
    <3>2. t \in Tables
      BY DEF Tables, RegionTables, CustomerTables, SymbolTables, TputTables
    <3>. QED  BY <2>2, <3>1, <3>2 DEF PcType, PcInv, Drawn, Rank, TputTables
  <2>. QED  BY <2>1, <2>2
<1>5. TypeOK'
  <2>1. aim' \in [TputTables -> AllKeys \cup {Nobody}]
    BY <1>3 DEF TypeOK
  <2>2. \A u \in TputTables : aim'[u] \in Keys(u) \cup {Nobody}
    BY <1>3 DEF TypeOK
  <2>. QED  BY <1>1, <1>2, <1>4, <2>1, <2>2, TypeKept DEF TypeOK
<1>6. CarriedInv'
  BY <1>1, <1>2, CarriedLate DEF history
<1>7. AimInv'
  <2>. SUFFICES ASSUME NEW u \in TputTables, Drawn(u)', aim'[u] # Nobody PROVE <<u, aim'[u]>> \in live'
    BY DEF AimInv
  <2>1. u # t /\ aim'[u] = aim[u]
    BY <1>3 DEF TypeOK
  <2>2. Rank[u] < Rank[t]
    BY <1>4, <2>1 DEF Rank, TputTables
  <2>3. Drawn(u)
    BY <1>1, <2>2 DEF Drawn
  <2>. QED  BY <1>2, <2>1, <2>3 DEF AimInv, history
<1>8. pc'.at = "choose" => \E x \in InForce : x[1] = pc'.table
  <2>. SUFFICES ASSUME pc'.at = "choose" PROVE \E x \in InForce : x[1] = t
    BY <1>4
  <2>1. PICK k \in Held(t) : TRUE
    BY <1>4
  <2>2. k \in Keys(t) /\ Present(<<t, k>>) /\ t \in Tables
    BY DEF Held, Tables, RegionTables, CustomerTables, SymbolTables, TputTables
  <2>3. <<t, k>> \in InForce /\ <<t, k>>[1] = t
    BY <2>2, SlotsAreSlots, PresentType
  <2>. QED  BY <2>3
<1>. QED  BY <1>1, <1>2, <1>4, <1>5, <1>6, <1>7, <1>8, GoesOn

LEMMA TputIsTable == TputTables \subseteq Tables
BY DEF Tables, RegionTables, CustomerTables, SymbolTables, TputTables

\* What is held in a dictionary is a slot in force.
LEMMA HeldInForce ==
  ASSUME NEW t \in Tables
  PROVE  /\ \A k \in Held(t) : k \in Keys(t) /\ k \in AllKeys /\ <<t, k>> \in InForce
         /\ \A k : <<t, k>> \in InForce => k \in Held(t)
<1>1. \A k \in Held(t) : k \in Keys(t) /\ Present(<<t, k>>)
  BY DEF Held
<1>2. \A k \in Keys(t) : <<t, k>> \in Slots
  BY SlotsAreSlots
<1>3. \A k : <<t, k>> \in InForce => k \in Keys(t) /\ Present(<<t, k>>)
  BY SlotsAreSlots DEF InForce
<1>. QED  BY <1>1, <1>2, <1>3, KeysAreKeys DEF InForce, Held

LEMMA ChooseStep == ASSUME IndInv, NEW t \in TputTables, Choose(t) PROVE IndInv'
<1>. USE DEF IndInv
<1>1. pc.at = "choose" /\ pc.table = t /\ alive = TRUE /\ t \in Tables
  BY TputIsTable DEF Choose, At
<1>2. UNCHANGED <<entry, customer, symbol, carried, aim, sweep, web, history>>
  BY DEF Choose
<1>3. CASE Held(t) = {}
  <2>1. Dies /\ chosen' = chosen
    BY <1>3 DEF Choose
  <2>2. pc' \in PcType /\ alive' \in BOOLEAN
    BY <2>1 DEF Dies, TypeOK, PcType
  <2>3. TypeOK'
    BY <1>2, <2>1, <2>2, TypeOnTheWay DEF TypeOK
  <2>. QED  BY <1>1, <1>2, <2>1, <2>3, DiesStep DEF locals
<1>4. CASE Held(t) # {}
  <2>1. chosen' \in Held(t) /\ pc' = [at |-> "weigh", table |-> t] /\ alive' = alive
    BY <1>4 DEF Choose, Goto
  <2>2. chosen' \in AllKeys /\ <<t, chosen'>> \in InForce
    BY <1>1, <2>1, HeldInForce
  <2>3. pc' \in PcType /\ PcInv'
    BY <1>1, <2>1 DEF PcType, PcInv
  <2>4. TypeOK'
    BY <1>1, <1>2, <2>1, <2>2, <2>3, TypeKept DEF TypeOK
  <2>5. CarriedInv'
    BY <1>1, <1>2, CarriedLate DEF history
  <2>6. AimInv'
    BY <1>1, <1>2, <2>1 DEF AimInv, Drawn, history
  <2>. QED  BY <1>1, <1>2, <2>1, <2>2, <2>3, <2>4, <2>5, <2>6, GoesOn
<1>. QED  BY <1>3, <1>4

LEMMA WeighStep == ASSUME IndInv, NEW t \in TputTables, Weigh(t) PROVE IndInv'
<1>. USE DEF IndInv
<1>1. pc.at = "weigh" /\ pc.table = t /\ alive = TRUE /\ t \in Tables
  BY TputIsTable DEF Weigh, At
<1>2. UNCHANGED <<entry, customer, symbol, carried, chosen, sweep, web, history>>
  BY DEF Weigh
<1>3. CASE chosen \notin Held(t)
  <2>1. Dies /\ aim' = aim
    BY <1>3 DEF Weigh
  <2>2. pc' \in PcType /\ alive' \in BOOLEAN
    BY <2>1 DEF Dies, TypeOK, PcType
  <2>3. TypeOK'
    BY <1>2, <2>1, <2>2, TypeOnTheWay DEF TypeOK
  <2>. QED  BY <1>1, <1>2, <2>1, <2>3, DiesStep DEF locals
<1>4. CASE chosen \in Held(t)
  <2>1. NextTput(t)
    BY <1>4 DEF Weigh
  <2>2. PICK k \in {Nobody, chosen} : aim' = [aim EXCEPT ![t] = k]
    BY <1>4 DEF Weigh
  <2>3. chosen \in Keys(t) /\ chosen \in AllKeys /\ <<t, chosen>> \in live
    BY <1>1, <1>4, HeldInForce DEF LiveInv
  <2>4. /\ pc' \in PcType /\ pc'.at \in {"any", "pick"} /\ alive' = alive /\ PcInv'
        /\ \A u \in TputTables : Drawn(u)' <=> Rank[u] <= Rank[t]
    BY <1>1, <2>1, NextTputFacts
  <2>5. TypeOK'
    <3>1. aim' \in [TputTables -> AllKeys \cup {Nobody}]
      BY <2>2, <2>3 DEF TypeOK
    <3>2. \A u \in TputTables : aim'[u] \in Keys(u) \cup {Nobody}
      BY <2>2, <2>3 DEF TypeOK
    <3>. QED  BY <1>1, <1>2, <2>4, <3>1, <3>2, TypeKept DEF TypeOK
  <2>6. CarriedInv'
    BY <1>1, <1>2, CarriedLate DEF history
  <2>7. AimInv'
    <3>. SUFFICES ASSUME NEW u \in TputTables, Drawn(u)', aim'[u] # Nobody
         PROVE  <<u, aim'[u]>> \in live'
      BY DEF AimInv
    <3>1. CASE u = t
      BY <1>2, <2>2, <2>3, <3>1 DEF TypeOK, history
    <3>2. CASE u # t
      <4>1. aim'[u] = aim[u]
        BY <2>2, <3>2 DEF TypeOK
      <4>2. Rank[u] < Rank[t]
        BY <2>4, <3>2 DEF Rank, TputTables
      <4>3. Drawn(u)
        BY <1>1, <4>2 DEF Drawn
      <4>. QED  BY <1>2, <4>1, <4>3 DEF AimInv, history
    <3>. QED  BY <3>1, <3>2
  <2>. QED  BY <1>1, <1>2, <2>4, <2>5, <2>6, <2>7, GoesOn
<1>. QED  BY <1>3, <1>4
-----------------------------------------------------------------------------
LEMMA InvStep == IndInv /\ [Next]_vars => IndInv'
<1>. SUFFICES ASSUME IndInv, [Next]_vars PROVE IndInv'
  OBVIOUS
<1>1. CASE Generate
  BY <1>1, PickStep, SweepStep, SubmitStep, FoundStep, NotFoundStep, ReadStep, ExpireStep,
     AnyBoostStep, ChooseStep, WeighStep DEF Generate
<1>2. ASSUME NEW h \in Handlers, Call(h) \/ Step(h) PROVE IndInv'
  BY <1>2, CallStep, PutStep, DropTestStep, DeleteStep, PurgeStep, ClearStep DEF Step
<1>3. ASSUME NEW x \in Slots, Age(x) PROVE IndInv'
  BY <1>3, AgeStep
<1>4. CASE UNCHANGED vars
  <2>1. TypeOK' /\ TodoInv' /\ InForce' = InForce
    BY <1>4 DEF IndInv, TypeOK, TodoInv, InForce, Present, vars, locals, web, history
  <2>2. Outside
    BY <1>4, <2>1 DEF IndInv, LiveInv, Outside, vars, history
  <2>. QED  BY <2>1, <2>2, OutsideStep
<1>. QED  BY <1>1, <1>2, <1>3, <1>4 DEF Next

THEOREM Invariant == Spec => []IndInv
BY InvInit, InvStep, PTL DEF Spec

\* The types of the ten dictionaries, the generator's locals and the handlers' calls
\* (app.py:38-80 and 224-326).
THEOREM TypeCorrect == Spec => []TypeOK
<1>1. IndInv => TypeOK
  BY DEF IndInv
<1>. QED  BY <1>1, Invariant, PTL

(***************************************************************************)
(* What the thread dies of, action by action: an entry that is gone was    *)
(* found by this iteration, so a handler removed it meanwhile.             *)
(***************************************************************************)
LEMMA PickDeath == ASSUME IndInv, Pick, alive, ~alive' PROVE Reason
<1>. USE ConstantsOK DEF IndInv
<1>1. PICK c \in Aimed("tput_customer", Customers) :
        At("pick", "latency") /\ (IF c \in Customers THEN Goto("test", "latency") ELSE Dies)
  BY DEF Pick
<1>2. c \notin Customers /\ pc.at = "pick"
  BY <1>1 DEF Goto, At
<1>3. aim["tput_customer"] \in Names \cup {Nobody}
  BY DEF TypeOK, TputTables, Keys, RegionTables, CustomerTables
<1>4. aim["tput_customer"] = c /\ c # Nobody
  BY <1>1, <1>2 DEF Aimed
<1>. QED  BY <1>2, <1>3, <1>4 DEF Reason, Names

LEMMA ReadDeath ==
  ASSUME IndInv, NEW t \in Tables, Read(t) \/ Expire(t), alive, ~alive' PROVE Reason
<1>. USE DEF IndInv
<1>1. pc.table = t /\ pc.at \in {"read", "expire"}
  BY DEF Read, Expire, At
<1>2. ~Present(Slot(t)) => Slot(t) \in removed
  BY <1>1, SlotType, PresentType DEF FoundInv
<1>3. CASE Read(t)
  <2>1. ~Present(Slot(t))
    BY <1>3 DEF Read, NextTable, Goto
  <2>. QED  BY <1>1, <1>2, <2>1 DEF Reason
<1>4. CASE Expire(t)
  <2>1. pc.at = "expire"
    BY <1>4 DEF Expire, At
  <2>2. \/ ~Present(Slot(t)) \/ t = "model"
        \/ TimedOut(t) /\ t \in {"latency", "db_region"}
    BY <1>4 DEF Expire, NextTable, Goto
  <2>. QED  BY <1>1, <1>2, <2>1, <2>2 DEF Reason
<1>. QED  BY <1>3, <1>4

LEMMA BoostDeath ==
  ASSUME IndInv, NEW t \in TputTables, Choose(t) \/ Weigh(t), alive, ~alive' PROVE Reason
<1>. USE DEF IndInv
<1>1. pc.table = t /\ t \in Tables
  BY TputIsTable DEF Choose, Weigh, At
<1>2. CASE Choose(t)
  <2>1. Held(t) = {} /\ pc.at = "choose"
    BY <1>2 DEF Choose, Goto, At
  <2>2. PICK x \in InForce \cup removed : x[1] = t
    BY <1>1, <2>1 DEF FoundInv
  <2>3. x \notin InForce
    BY <2>1, <2>2, PresentType DEF InForce
  <2>. QED  BY <1>1, <2>1, <2>2, <2>3 DEF Reason
<1>3. CASE Weigh(t)
  <2>1. chosen \notin Held(t) /\ pc.at = "weigh"
    BY <1>3 DEF Weigh, NextTput, Goto, At
  <2>2. <<t, chosen>> \in removed
    BY <1>1, <2>1, HeldInForce DEF FoundInv
  <2>. QED  BY <1>1, <2>1, <2>2 DEF Reason
<1>. QED  BY <1>2, <1>3

(***************************************************************************)
(* The only generator thread dies of nothing but the listed reasons, for   *)
(* any customers, handlers and calls (app.py:234-326).                     *)
(***************************************************************************)
THEOREM DeathsHaveReasons == Spec => DeathHasReason
<1>1. ASSUME IndInv, Next, alive, ~alive' PROVE Reason
  <2>1. CASE Generate
    <3>1. CASE Sweep
      <4>1. pc.at = "sweep" /\ sweep = "grown"
        BY <1>1, <3>1 DEF Sweep, At, NextTable, Goto
      <4>. QED  BY <4>1 DEF Reason
    <3>2. ASSUME NEW t \in Tables, Found(t) \/ NotFound(t) PROVE FALSE
      BY <1>1, <3>2 DEF Found, NotFound, NextTable, Goto
    <3>3. ASSUME Submit \/ \E t \in TputTables : AnyBoost(t) PROVE FALSE
      BY <1>1, <3>3 DEF Submit, AnyBoost, NextTput, Goto
    <3>. QED  BY <1>1, <2>1, <3>1, <3>2, <3>3, PickDeath, ReadDeath, BoostDeath DEF Generate
  <2>2. ASSUME NEW h \in Handlers, Call(h) \/ Step(h) PROVE FALSE
    BY <1>1, <2>2 DEF Call, Step, PutEntry, DropTest, Delete, PurgeFirst, ClearTable
  <2>3. ASSUME NEW x \in Slots, Age(x) PROVE FALSE
    BY <1>1, <2>3 DEF Age
  <2>. QED  BY <1>1, <2>1, <2>2, <2>3 DEF Next
<1>2. IndInv /\ [Next]_vars => [alive /\ ~alive' => Reason]_vars
  BY <1>1
<1>. QED  BY <1>2, Invariant, PTL DEF DeathHasReason, Spec

(***************************************************************************)
(* Nothing is left over in the loop's locals: a submitted request carries  *)
(* faults that were in force since its iteration began, and aims at boosts *)
(* that were in force during the one before (app.py:239-326).              *)
(***************************************************************************)
THEOREM RequestsStayCurrent == Spec => []RequestsAreCurrent
<1>1. IndInv => RequestsAreCurrent
  <2>. SUFFICES ASSUME IndInv PROVE RequestsAreCurrent
    OBVIOUS
  <2>1. ASSUME pc.at = "submit", NEW x \in carried PROVE x \in live
    <3>1. Now = 7 /\ x[1] \in FaultTables /\ (x \in live \/ Rank[x[1]] >= Now)
      BY <2>1 DEF IndInv, CarriedInv, Now
    <3>2. Rank[x[1]] <= 6 /\ Rank[x[1]] \in Nat
      BY <3>1, Ranks DEF FaultTables
    <3>. QED  BY <3>1, <3>2
  <2>2. ASSUME pc.at = "pick", alive, NEW t \in TputTables, aim[t] # Nobody PROVE <<t, aim[t]>> \in live
    BY <2>2 DEF IndInv, AimInv, Drawn
  <2>. QED  BY <2>1, <2>2 DEF RequestsAreCurrent
<1>. QED  BY <1>1, Invariant, PTL
=============================================================================
