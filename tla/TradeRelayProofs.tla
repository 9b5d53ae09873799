-------------------------- MODULE TradeRelayProofs --------------------------
(***************************************************************************)
(* Proofs about TradeRelay, for every set of processes, every number of    *)
(* records and every number of upsets.                                     *)
(***************************************************************************)
EXTENDS TradeRelay, FiniteSetTheorems, TLAPS

LEMMA TypeInit == Init => TypeOK
<1>. SUFFICES ASSUME Init PROVE TypeOK
  OBVIOUS
<1>. USE ConstantsOK DEF Init, None, Offsets
<1>1. position \in [Consumers -> 0 .. end] /\ next \in [Consumers -> 1 .. end + 1]
  OBVIOUS
<1>2. mode \in [Consumers -> {"down", "polling", "relaying", "closed"}]
  OBVIOUS
<1>3. /\ held \in [Consumers -> BOOLEAN] /\ signalled \in [Consumers -> BOOLEAN]
      /\ wakeup \in [Consumers -> BOOLEAN] /\ tries \in [Offsets -> Nat]
  OBVIOUS
<1>4. committed \in {None} \cup 0 .. end /\ end \in 0 .. MaxRecords /\ upsets \in 0 .. MaxUpsets
  OBVIOUS
<1>5. /\ members \subseteq Consumers /\ owner \in members \cup {Nobody} /\ turns \in Nat
      /\ rebalance \in BOOLEAN /\ abandoned \subseteq Offsets /\ missed \subseteq Offsets
  OBVIOUS
<1>. QED  BY <1>1, <1>2, <1>3, <1>4, <1>5 DEF TypeOK

\* The coordinator's bookkeeping keeps the owner among the members.
LEMMA WithoutType ==
  ASSUME TypeOK, NEW c \in Consumers, Without(c)
  PROVE  /\ members' \subseteq Consumers
         /\ owner' \in members' \cup {Nobody}
         /\ rebalance' \in BOOLEAN
BY DEF TypeOK, Without

LEMMA TypeStep == TypeOK /\ [Next]_vars => TypeOK'
<1>. SUFFICES ASSUME TypeOK, [Next]_vars PROVE TypeOK'
  OBVIOUS
<1>. USE ConstantsOK DEF None, Offsets
<1>1. CASE Produce
  BY <1>1 DEF Produce, TypeOK, group, process, history
<1>2. ASSUME NEW c \in Consumers, Coordinate(c) PROVE TypeOK'
  <2>1. CASE Join(c)
    BY <2>1 DEF Join, TypeOK, process, history
  <2>2. CASE Rebalance(c)
    <3>. DEFINE from == IF committed = None THEN end ELSE committed
    <3>1. from \in 0 .. end /\ end' = end /\ end \in 0 .. MaxRecords
      BY <2>2 DEF Rebalance, TypeOK
    <3>2. /\ position' = [position EXCEPT ![c] = from]
          /\ next' = [next EXCEPT ![c] = from + 1]
      BY <2>2 DEF Rebalance
    <3>. HIDE DEF from
    <3>3. position' \in [Consumers -> 0 .. end']
      BY <3>1, <3>2 DEF TypeOK
    <3>4. next' \in [Consumers -> 1 .. end' + 1]
      BY <3>1, <3>2 DEF TypeOK
    <3>5. held' \in [Consumers -> BOOLEAN]
      BY <2>2 DEF Rebalance, TypeOK
    <3>6. turns' \in Nat
      BY <2>2 DEF Rebalance, TypeOK
    <3>7. missed' \subseteq Offsets
      <4>1. {o \in 1 .. end : tries[o] = 0} \subseteq Offsets
        BY <3>1
      <4>. QED  BY <2>2, <4>1 DEF Rebalance, TypeOK
    <3>8. owner' \in members' \cup {Nobody} /\ rebalance' \in BOOLEAN
      BY <2>2 DEF Rebalance
    <3>9. UNCHANGED <<end, committed, members, mode, signalled, wakeup, tries, abandoned, upsets>>
      BY <2>2 DEF Rebalance
    <3>. QED  BY <3>1, <3>3, <3>4, <3>5, <3>6, <3>7, <3>8, <3>9 DEF TypeOK
  <2>3. CASE Evict(c)
    <3>1. upsets' \in 0 .. MaxUpsets
      BY <2>3 DEF Evict, TypeOK
    <3>. QED  BY <2>3, <3>1, WithoutType DEF Evict, TypeOK, process, history
  <2>4. CASE Lose(c)
    BY <2>4 DEF Lose, TypeOK, group, history
  <2>. QED  BY <1>2, <2>1, <2>2, <2>3, <2>4 DEF Coordinate
<1>3. ASSUME NEW c \in Consumers, Run(c) PROVE TypeOK'
  <2>1. CASE Poll(c)
    BY <2>1 DEF Poll, TypeOK, group, history
  <2>2. CASE PollWoken(c) \/ PollThrows(c)
    <3>1. upsets' \in 0 .. MaxUpsets /\ Close(c)
      BY <2>2 DEF PollWoken, PollThrows, TypeOK
    <3>. QED  BY <3>1, WithoutType DEF Close, TypeOK, history
  <2>3. CASE Relay(c)
    <3>1. next[c] \in 1 .. end /\ end \in 0 .. MaxRecords
      BY <2>3 DEF Relay, Relaying, TypeOK
    <3>2. tries' \in [Offsets -> Nat]
      BY <2>3, <3>1 DEF Relay, TypeOK
    <3>3. next' \in [Consumers -> 1 .. end' + 1]
      BY <2>3, <3>1 DEF Relay, TypeOK
    <3>. QED  BY <2>3, <3>1, <3>2, <3>3 DEF Relay, TypeOK, group
  <2>4. CASE RelayFails(c)
    <3>1. next[c] \in 1 .. end /\ end \in 0 .. MaxRecords /\ position[c] \in 0 .. end
      BY <2>4 DEF RelayFails, Relaying, TypeOK
    <3>2. tries' \in [Offsets -> Nat]
      BY <2>4, <3>1 DEF RelayFails, TypeOK
    <3>3. next' \in [Consumers -> 1 .. end' + 1]
      BY <2>4, <3>1 DEF RelayFails, TypeOK
    <3>4. abandoned' \subseteq Offsets
      <4>1. next[c] + 1 .. position[c] \subseteq Offsets
        BY <3>1
      <4>. QED  BY <2>4, <4>1 DEF RelayFails, TypeOK
    <3>5. mode' \in [Consumers -> {"down", "polling", "relaying", "closed"}]
      BY <2>4 DEF RelayFails, TypeOK
    <3>. QED  BY <2>4, <3>1, <3>2, <3>3, <3>4, <3>5 DEF RelayFails, TypeOK, group
  <2>5. CASE Commit(c) \/ CommitFails(c) \/ CommitFenced(c) \/ CommitWoken(c)
    <3>1. committed' \in {None} \cup 0 .. end
      BY <2>5 DEF Commit, CommitFails, CommitFenced, CommitWoken, TypeOK
    <3>2. held' \in [Consumers -> BOOLEAN] /\ wakeup' \in [Consumers -> BOOLEAN]
      BY <2>5 DEF Commit, CommitFails, CommitFenced, CommitWoken, TypeOK
    <3>3. Committing(c)
      BY <2>5 DEF Commit, CommitFails, CommitFenced, CommitWoken
    <3>. QED  BY <3>1, <3>2, <3>3 DEF Committing, TypeOK, group, history
  <2>. QED  BY <1>3, <2>1, <2>2, <2>3, <2>4, <2>5 DEF Run
<1>4. ASSUME NEW c \in Consumers, Live(c) PROVE TypeOK'
  <2>1. CASE Start(c)
    BY <2>1 DEF Start, TypeOK, group, history
  <2>2. CASE Signal(c)
    BY <2>2 DEF Signal, TypeOK, group, history
  <2>3. CASE Exit(c) \/ Crash(c)
    <3>1. upsets' \in 0 .. MaxUpsets /\ Ends(c)
      BY <2>3 DEF Exit, Crash, TypeOK
    <3>. QED  BY <3>1 DEF Ends, TypeOK, group, history
  <2>. QED  BY <1>4, <2>1, <2>2, <2>3 DEF Live
<1>5. CASE UNCHANGED vars
  BY <1>5 DEF vars, TypeOK, group, process, history
<1>. QED  BY <1>1, <1>2, <1>3, <1>4, <1>5 DEF Next

\* Type correctness of the relay.
THEOREM TypeCorrect == Spec => []TypeOK
BY TypeInit, TypeStep, PTL DEF Spec

-----------------------------------------------------------------------------
(* What a process knows: one that relays believes the partition is its     *)
(* own, one that does not has been through its last batch, and the one the *)
(* coordinator agrees with is never behind the committed offset.           *)

Knows(c) ==
  /\ mode[c] = "relaying" => held[c]
  /\ held[c] => mode[c] \in {"polling", "relaying"}
  /\ next[c] <= position[c] + 1
  /\ mode[c] # "relaying" => next[c] = position[c] + 1
  /\ owner = c /\ held[c] => committed <= position[c]

\* Everything before the next record of a process with the partition is dealt with,
\* and so is everything that is committed.
DealtWith(o) == Tried(o) \/ o \in abandoned \/ o \in missed

Behind(c) == held[c] => \A o \in 1 .. next[c] - 1 : DealtWith(o)

RelayInv ==
  /\ \A c \in Consumers : Knows(c) /\ Behind(c)
  /\ \A o \in 1 .. committed : DealtWith(o)

LEMMA RelayInit == Init => RelayInv
<1>. SUFFICES ASSUME Init PROVE RelayInv
  OBVIOUS
<1>1. \A c \in Consumers : Knows(c) /\ Behind(c)
  BY DEF Init, Knows, Behind, None
<1>2. \A o \in 1 .. committed : DealtWith(o)
  BY DEF Init, None
<1>. QED  BY <1>1, <1>2 DEF RelayInv

\* Dealt with once, dealt with for ever.
LEMMA DealtWithStays ==
  ASSUME TypeOK, [Next]_vars, NEW o \in Offsets, DealtWith(o)
  PROVE  DealtWith(o)'
<1>. USE DEF DealtWith, Tried
<1>1. \/ UNCHANGED <<tries, abandoned, missed>>
      \/ \E c \in Consumers : Rebalance(c) \/ Relay(c) \/ RelayFails(c)
  BY DEF Next, Produce, Coordinate, Run, Live, Join, Evict, Lose, Poll, PollWoken, PollThrows,
     Close, Commit, CommitFails, CommitFenced, CommitWoken, Committing, Start, Signal, Exit,
     Crash, Ends, vars, history
<1>2. CASE UNCHANGED <<tries, abandoned, missed>>
  BY <1>2
<1>3. ASSUME NEW c \in Consumers, Rebalance(c) PROVE DealtWith(o)'
  BY <1>3 DEF Rebalance
<1>4. ASSUME NEW c \in Consumers, Relay(c) PROVE DealtWith(o)'
  BY <1>4 DEF Relay, TypeOK
<1>5. ASSUME NEW c \in Consumers, RelayFails(c) PROVE DealtWith(o)'
  BY <1>5 DEF RelayFails, TypeOK
<1>. QED  BY <1>1, <1>2, <1>3, <1>4, <1>5

\* A process whose own state does not change, and which does not become the owner,
\* still knows what it knew.
LEMMA KnowsStays ==
  ASSUME TypeOK, TypeOK', [Next]_vars, NEW d \in Consumers, Knows(d), Behind(d),
         mode'[d] = mode[d], position'[d] = position[d], next'[d] = next[d],
         held'[d] = held[d],
         owner' = d => owner = d /\ committed' = committed
  PROVE  Knows(d)' /\ Behind(d)'
<1>1. Knows(d)'
  BY DEF Knows
<1>2. Behind(d)'
  <2>1. 1 .. next[d] - 1 \subseteq Offsets
    BY ConstantsOK DEF TypeOK, Offsets
  <2>. QED  BY <2>1, DealtWithStays DEF Behind
<1>. QED  BY <1>1, <1>2

\* A process that gives the partition up has nothing to know.
LEMMA KnowsGivenUp ==
  ASSUME TypeOK, NEW d \in Consumers, ~held'[d], mode'[d] # "relaying",
         next'[d] = position'[d] + 1, position'[d] \in Nat
  PROVE  Knows(d)' /\ Behind(d)'
BY DEF Knows, Behind

\* What is committed stays dealt with, when nothing is committed.
LEMMA CommittedStays ==
  ASSUME TypeOK, RelayInv, [Next]_vars, committed' = committed
  PROVE  \A o \in 1 .. committed' : DealtWith(o)'
<1>1. 1 .. committed \subseteq Offsets
  BY ConstantsOK DEF TypeOK, Offsets, None
<1>. QED  BY <1>1, DealtWithStays DEF RelayInv

LEMMA RebalanceKeeps ==
  ASSUME TypeOK, TypeOK', RelayInv, [Next]_vars, NEW c \in Consumers, Rebalance(c)
  PROVE  RelayInv'
<1>1. \A o \in 1 .. committed' : DealtWith(o)'
  BY CommittedStays DEF Rebalance
<1>2. ASSUME NEW d \in Consumers, d # c, d \in members PROVE Knows(d)' /\ Behind(d)'
  <2>1. /\ ~held'[d] /\ mode'[d] = "polling" /\ position'[d] = position[d] /\ next'[d] = next[d]
    BY <1>2 DEF Rebalance, TypeOK
  <2>2. next[d] = position[d] + 1 /\ position[d] \in Nat
    BY <1>2 DEF Rebalance, RelayInv, Knows, TypeOK
  <2>. QED  BY <2>1, <2>2, KnowsGivenUp
<1>3. ASSUME NEW d \in Consumers, d \notin members PROVE Knows(d)' /\ Behind(d)'
  <2>1. /\ mode'[d] = mode[d] /\ position'[d] = position[d] /\ next'[d] = next[d]
        /\ held'[d] = held[d] /\ owner' # d
    BY <1>3 DEF Rebalance, TypeOK
  <2>. QED  BY <2>1, KnowsStays DEF RelayInv
<1>4. Knows(c)' /\ Behind(c)'
  <2>. DEFINE from == IF committed = None THEN end ELSE committed
  <2>1. /\ from \in 0 .. end /\ committed <= from
    BY DEF TypeOK, None
  <2>2. /\ position'[c] = from /\ next'[c] = from + 1
        /\ mode'[c] = "polling" /\ committed' = committed
    BY DEF Rebalance, TypeOK
  <2>3. \A o \in 1 .. from : DealtWith(o)'
    <3>1. CASE committed = None
      BY <3>1, ConstantsOK DEF Rebalance, DealtWith, Tried, TypeOK, Offsets
    <3>2. CASE committed # None
      BY <3>2, <1>1, <2>2
    <3>. QED  BY <3>1, <3>2
  <2>. HIDE DEF from
  <2>4. next'[c] - 1 = from
    BY <2>1, <2>2
  <2>. QED  BY <2>1, <2>2, <2>3, <2>4 DEF Knows, Behind
<1>. QED  BY <1>1, <1>2, <1>3, <1>4 DEF RelayInv

\* The steps of c between two polls: the state of the others does not change.
LEMMA OthersStay ==
  ASSUME TypeOK, TypeOK', RelayInv, [Next]_vars, NEW c \in Consumers,
         \/ Poll(c) \/ Relay(c) \/ RelayFails(c)
         \/ Commit(c) \/ CommitFails(c) \/ CommitFenced(c) \/ CommitWoken(c),
         NEW d \in Consumers, d # c
  PROVE  Knows(d)' /\ Behind(d)'
<1>1. /\ mode'[d] = mode[d] /\ position'[d] = position[d] /\ next'[d] = next[d]
      /\ held'[d] = held[d] /\ owner' = owner /\ (owner = d => committed' = committed)
  <2>1. CASE Poll(c) \/ Relay(c) \/ RelayFails(c)
    BY <2>1 DEF Poll, Relay, RelayFails, TypeOK, group
  <2>2. CASE Commit(c) \/ CommitFails(c) \/ CommitFenced(c) \/ CommitWoken(c)
    <3>. USE DEF Commit, CommitFails, CommitFenced, CommitWoken
    <3>1. Committing(c)
      BY <2>2
    <3>2. held'[d] = held[d]
      BY <2>2 DEF TypeOK
    <3>3. owner = d => committed' = committed
      BY <2>2
    <3>. HIDE DEF Commit, CommitFails, CommitFenced, CommitWoken
    <3>. QED  BY <3>1, <3>2, <3>3 DEF Committing, TypeOK, group
  <2>. QED  BY <2>1, <2>2
<1>. QED  BY <1>1, KnowsStays DEF RelayInv

LEMMA RelayingKeeps ==
  ASSUME TypeOK, TypeOK', RelayInv, [Next]_vars, NEW c \in Consumers,
         Poll(c) \/ Relay(c) \/ RelayFails(c)
  PROVE  RelayInv'
<1>1. \A o \in 1 .. committed' : DealtWith(o)'
  BY CommittedStays DEF Poll, Relay, RelayFails
<1>2. \A d \in Consumers \ {c} : Knows(d)' /\ Behind(d)'
  BY OthersStay
<1>3. 1 .. next[c] - 1 \subseteq Offsets /\ next[c] \in 1 .. end + 1 /\ position[c] \in 0 .. end
      /\ end \in Nat /\ committed \in Int
  BY ConstantsOK DEF TypeOK, Offsets, None
<1>4. Knows(c) /\ Behind(c)
  BY DEF RelayInv
<1>5. held[c] => \A o \in 1 .. next[c] - 1 : DealtWith(o)'
  BY <1>3, <1>4, DealtWithStays DEF Behind
<1>6. tries \in [Offsets -> Nat]
  BY DEF TypeOK
<1>7. Knows(c)' /\ Behind(c)'
  <2>1. CASE Poll(c)
    <3>1. /\ next'[c] = next[c] /\ held'[c] = held[c] /\ held[c] /\ mode'[c] = "relaying"
          /\ position'[c] >= position[c] /\ owner' = owner /\ committed' = committed
          /\ mode[c] = "polling" /\ position'[c] \in Nat
      BY <2>1 DEF Poll, TypeOK, group
    <3>2. Knows(c)'
      BY <3>1, <1>3, <1>4 DEF Knows
    <3>3. Behind(c)'
      BY <3>1, <1>5 DEF Behind
    <3>. QED  BY <3>2, <3>3
  <2>2. CASE Relay(c)
    <3>1. /\ next'[c] = next[c] + 1 /\ held'[c] = held[c] /\ mode'[c] = mode[c]
          /\ position'[c] = position[c] /\ owner' = owner /\ committed' = committed
          /\ mode[c] = "relaying" /\ next[c] <= position[c] /\ next[c] \in Offsets
          /\ tries' = [tries EXCEPT ![next[c]] = @ + 1]
      BY <2>2, <1>3, ConstantsOK DEF Relay, Relaying, TypeOK, group, Offsets
    <3>2. Knows(c)'
      BY <3>1, <1>3, <1>4 DEF Knows
    <3>3. \A o \in Offsets : o = next[c] => DealtWith(o)'
      BY <3>1, <1>6 DEF DealtWith, Tried
    <3>4. 1 .. next'[c] - 1 = (1 .. next[c] - 1) \cup {next[c]}
      BY <3>1, <1>3
    <3>5. Behind(c)'
      BY <3>1, <3>3, <3>4, <1>4, <1>5 DEF Knows, Behind
    <3>. QED  BY <3>2, <3>5
  <2>3. CASE RelayFails(c)
    <3>1. /\ next'[c] = position[c] + 1 /\ held'[c] = held[c] /\ mode'[c] = "polling"
          /\ position'[c] = position[c] /\ owner' = owner /\ committed' = committed
          /\ mode[c] = "relaying" /\ next[c] <= position[c] /\ next[c] \in Offsets
          /\ tries' = [tries EXCEPT ![next[c]] = @ + 1]
          /\ abandoned' = abandoned \cup (next[c] + 1 .. position[c])
      BY <2>3, <1>3, ConstantsOK DEF RelayFails, Relaying, TypeOK, group, Offsets
    <3>2. Knows(c)'
      BY <3>1, <1>3, <1>4 DEF Knows
    <3>3. \A o \in Offsets : o = next[c] => DealtWith(o)'
      BY <3>1, <1>6 DEF DealtWith, Tried
    <3>4. \A o \in next[c] + 1 .. position[c] : DealtWith(o)'
      BY <3>1 DEF DealtWith
    <3>5. 1 .. next'[c] - 1
            = (1 .. next[c] - 1) \cup {next[c]} \cup (next[c] + 1 .. position[c])
      BY <3>1, <1>3
    <3>6. Behind(c)'
      BY <3>1, <3>3, <3>4, <3>5, <1>4, <1>5 DEF Knows, Behind
    <3>. QED  BY <3>2, <3>6
  <2>. QED  BY <2>1, <2>2, <2>3
<1>. QED  BY <1>1, <1>2, <1>7 DEF RelayInv

\* However commitSync ends: at most the position of the owner's batch is committed, and
\* the process has been through all of that batch.
LEMMA CommittingKeeps ==
  ASSUME TypeOK, TypeOK', RelayInv, [Next]_vars, NEW c \in Consumers,
         Commit(c) \/ CommitFails(c) \/ CommitFenced(c) \/ CommitWoken(c)
  PROVE  RelayInv'
<1>1. \A d \in Consumers \ {c} : Knows(d)' /\ Behind(d)'
  BY OthersStay
<1>2. /\ next'[c] = next[c] /\ mode'[c] = "polling" /\ mode[c] = "relaying"
      /\ position'[c] = position[c] /\ owner' = owner /\ next[c] > position[c]
  <2>1. Committing(c)
    BY DEF Commit, CommitFails, CommitFenced, CommitWoken
  <2>. QED  BY <2>1 DEF Committing, TypeOK, group
<1>3. committed' = committed \/ (committed' = position[c] /\ owner = c)
  BY DEF Commit, CommitFails, CommitFenced, CommitWoken
<1>4. /\ 1 .. next[c] - 1 \subseteq Offsets /\ next[c] \in 1 .. end + 1
      /\ position[c] \in 0 .. end /\ end \in Nat /\ committed \in Int
  BY ConstantsOK DEF TypeOK, Offsets, None
<1>5. Knows(c) /\ Behind(c) /\ held[c]
  BY <1>2 DEF RelayInv, Knows
<1>6. next[c] = position[c] + 1
  BY <1>2, <1>4, <1>5 DEF Knows
<1>7. \A o \in 1 .. position[c] : DealtWith(o)'
  <2>1. next[c] - 1 = position[c]
    BY <1>6, <1>4
  <2>. QED  BY <2>1, <1>4, <1>5, DealtWithStays DEF Behind
<1>8. Knows(c)'
  BY <1>2, <1>3, <1>4, <1>5, <1>6 DEF Knows
<1>9. Behind(c)'
  <2>1. next'[c] - 1 = position[c]
    BY <1>2, <1>6, <1>4
  <2>. QED  BY <2>1, <1>7 DEF Behind
<1>10. \A o \in 1 .. committed' : DealtWith(o)'
  <2>1. CASE committed' = committed
    BY <2>1, CommittedStays
  <2>2. CASE committed' = position[c]
    BY <2>2, <1>7
  <2>. QED  BY <2>1, <2>2, <1>3
<1>. QED  BY <1>1, <1>8, <1>9, <1>10 DEF RelayInv

\* The steps that leave a process, or all of them, where they are.
LEMMA QuietKeeps ==
  ASSUME TypeOK, TypeOK', RelayInv, [Next]_vars,
         \/ Produce \/ UNCHANGED vars
         \/ \E c \in Consumers : Join(c) \/ Evict(c) \/ Signal(c)
  PROVE  RelayInv'
<1>1. committed' = committed
  BY DEF Produce, vars, Join, Evict, Signal
<1>2. ASSUME NEW d \in Consumers PROVE Knows(d)' /\ Behind(d)'
  <2>1. /\ mode'[d] = mode[d] /\ position'[d] = position[d] /\ next'[d] = next[d]
        /\ held'[d] = held[d] /\ (owner' = d => owner = d)
    BY ConstantsOK DEF Produce, vars, Join, Evict, Without, Signal, group, process
  <2>. QED  BY <1>1, <2>1, KnowsStays DEF RelayInv
<1>. QED  BY <1>1, <1>2, CommittedStays DEF RelayInv

LEMMA EndingKeeps ==
  ASSUME TypeOK, TypeOK', RelayInv, [Next]_vars, NEW c \in Consumers,
         Start(c) \/ Lose(c) \/ Close(c) \/ Ends(c)
  PROVE  RelayInv'
<1>1. committed' = committed
  BY DEF Start, Lose, Close, Ends
<1>2. ASSUME NEW d \in Consumers, d # c PROVE Knows(d)' /\ Behind(d)'
  <2>1. /\ mode'[d] = mode[d] /\ position'[d] = position[d] /\ next'[d] = next[d]
        /\ held'[d] = held[d] /\ (owner' = d => owner = d)
    BY <1>2, ConstantsOK DEF Start, Lose, Close, Ends, Without, TypeOK, group
  <2>. QED  BY <1>1, <2>1, KnowsStays DEF RelayInv
<1>3. Knows(c)' /\ Behind(c)'
  <2>1. Knows(c) /\ position[c] \in Nat
    BY DEF RelayInv, TypeOK
  <2>2. ~held'[c] /\ mode'[c] # "relaying"
    BY <2>1 DEF Start, Lose, Close, Ends, TypeOK, Knows
  <2>3. next'[c] = position'[c] + 1 /\ position'[c] \in Nat
    BY <2>1 DEF Start, Lose, Close, Ends, TypeOK, Knows
  <2>. QED  BY <2>2, <2>3, KnowsGivenUp
<1>. QED  BY <1>1, <1>2, <1>3, CommittedStays DEF RelayInv

LEMMA RelayStep == TypeOK /\ RelayInv /\ [Next]_vars => RelayInv'
<1>. SUFFICES ASSUME TypeOK, RelayInv, [Next]_vars PROVE RelayInv'
  OBVIOUS
<1>1. TypeOK'
  BY TypeStep
<1>2. CASE Produce \/ UNCHANGED vars
  BY <1>1, <1>2, QuietKeeps
<1>3. ASSUME NEW c \in Consumers, Coordinate(c) PROVE RelayInv'
  BY <1>1, <1>3, QuietKeeps, RebalanceKeeps, EndingKeeps DEF Coordinate
<1>4. ASSUME NEW c \in Consumers, Run(c) PROVE RelayInv'
  BY <1>1, <1>4, EndingKeeps, RelayingKeeps, CommittingKeeps DEF Run, PollWoken, PollThrows
<1>5. ASSUME NEW c \in Consumers, Live(c) PROVE RelayInv'
  BY <1>1, <1>5, QuietKeeps, EndingKeeps DEF Live, Exit, Crash
<1>. QED  BY <1>2, <1>3, <1>4, <1>5 DEF Next

LEMMA RelayInvariant == Spec => []RelayInv
BY RelayInit, RelayStep, TypeCorrect, PTL DEF Spec

(***************************************************************************)
(* No record is skipped, whatever the crashes, evictions and failed        *)
(* commits, except behind a failed one or before the group had an offset.  *)
(***************************************************************************)
THEOREM NothingElseIsSkipped == Spec => []SkippedOnlyBehindFailure
<1>1. RelayInv => SkippedOnlyBehindFailure
  BY DEF RelayInv, SkippedOnlyBehindFailure, DealtWith
<1>. QED  BY <1>1, RelayInvariant, PTL

(***************************************************************************)
(* The group's committed offset never moves back.                          *)
(***************************************************************************)
THEOREM CommitsOnlyAdvance == Spec => CommitNeverRetreats
<1>1. TypeOK /\ RelayInv /\ [Next]_vars => [committed' >= committed]_vars
  <2>. SUFFICES ASSUME TypeOK, RelayInv, [Next]_vars PROVE committed' >= committed
    OBVIOUS
  <2>1. committed \in Int
    BY DEF TypeOK, None
  <2>2. \/ committed' = committed
        \/ \E c \in Consumers : mode[c] = "relaying" /\ owner = c /\ committed' = position[c]
    BY DEF Next, Produce, Coordinate, Run, Live, Join, Rebalance, Evict, Lose, Poll, PollWoken,
       PollThrows, Close, Relay, RelayFails, Commit, CommitFails, CommitFenced, CommitWoken,
       Committing, Start, Signal, Exit, Crash, Ends, vars
  <2>3. ASSUME NEW c \in Consumers, mode[c] = "relaying", owner = c PROVE committed <= position[c]
    BY <2>3 DEF RelayInv, Knows
  <2>. QED  BY <2>1, <2>2, <2>3 DEF TypeOK
<1>. QED  BY <1>1, TypeCorrect, RelayInvariant, PTL DEF Spec, CommitNeverRetreats
-----------------------------------------------------------------------------
(* A record has been handed over at most as often as the partition was     *)
(* assigned, less once for each process that still has it before it.       *)

Ahead(o) == {c \in Consumers : held[c] /\ next[c] <= o}

TurnInv ==
  \A o \in Offsets : IsFiniteSet(Ahead(o)) /\ tries[o] + Cardinality(Ahead(o)) <= turns

LEMMA TurnInit == Init => TurnInv
<1>. SUFFICES ASSUME Init, NEW o \in Offsets
              PROVE  IsFiniteSet(Ahead(o)) /\ tries[o] + Cardinality(Ahead(o)) <= turns
  BY DEF TurnInv
<1>1. Ahead(o) = {}
  BY DEF Init, Ahead
<1>. QED  BY <1>1, FS_EmptySet DEF Init

\* The bound survives a step after which no more processes have the record before them.
LEMMA AheadShrinks ==
  ASSUME TypeOK, TurnInv, NEW o \in Offsets,
         Ahead(o)' \subseteq Ahead(o), tries'[o] = tries[o], turns' = turns
  PROVE  IsFiniteSet(Ahead(o)') /\ tries'[o] + Cardinality(Ahead(o)') <= turns'
<1>1. IsFiniteSet(Ahead(o)) /\ tries[o] + Cardinality(Ahead(o)) <= turns
  BY DEF TurnInv
<1>2. IsFiniteSet(Ahead(o)') /\ Cardinality(Ahead(o)') <= Cardinality(Ahead(o))
  BY <1>1, FS_Subset
<1>3. Cardinality(Ahead(o)) \in Nat /\ Cardinality(Ahead(o)') \in Nat
  BY <1>1, <1>2, FS_CardinalityType
<1>. QED  BY <1>1, <1>2, <1>3 DEF TypeOK

\* Handing a record over takes its process out of those that have it before them.
LEMMA HandingOver ==
  ASSUME TypeOK, RelayInv, TurnInv, NEW c \in Consumers, Relay(c) \/ RelayFails(c),
         NEW o \in Offsets
  PROVE  IsFiniteSet(Ahead(o)') /\ tries'[o] + Cardinality(Ahead(o)') <= turns'
<1>1. /\ mode[c] = "relaying" /\ next[c] <= position[c] /\ turns' = turns /\ held' = held
      /\ tries' = [tries EXCEPT ![next[c]] = @ + 1]
      /\ next' = [next EXCEPT ![c] = next'[c]] /\ next'[c] \in {next[c] + 1, position[c] + 1}
  BY DEF Relay, RelayFails, Relaying, TypeOK
<1>2. /\ next \in [Consumers -> Nat] /\ position[c] \in Nat /\ next[c] \in Nat
      /\ tries \in [Offsets -> Nat] /\ turns \in Nat /\ o \in Nat
  BY DEF TypeOK, Offsets
<1>3. held[c]
  BY <1>1 DEF RelayInv, Knows
<1>4. Ahead(o)' \subseteq Ahead(o)
  BY <1>1, <1>2 DEF Ahead
<1>5. CASE o # next[c]
  <2>1. tries'[o] = tries[o]
    BY <1>1, <1>2, <1>5
  <2>. QED  BY <1>1, <1>4, <2>1, AheadShrinks
<1>6. CASE o = next[c]
  <2>1. c \in Ahead(o) /\ Ahead(o)' \subseteq Ahead(o) \ {c}
    BY <1>1, <1>2, <1>3, <1>4, <1>6 DEF Ahead
  <2>2. IsFiniteSet(Ahead(o)) /\ tries[o] + Cardinality(Ahead(o)) <= turns
    BY DEF TurnInv
  <2>3. /\ IsFiniteSet(Ahead(o) \ {c})
        /\ Cardinality(Ahead(o) \ {c}) = Cardinality(Ahead(o)) - 1
    BY <2>1, <2>2, FS_RemoveElement
  <2>4. IsFiniteSet(Ahead(o)') /\ Cardinality(Ahead(o)') <= Cardinality(Ahead(o) \ {c})
    BY <2>1, <2>3, FS_Subset
  <2>5. Cardinality(Ahead(o)) \in Nat /\ Cardinality(Ahead(o)') \in Nat
    BY <2>2, <2>4, FS_CardinalityType
  <2>6. tries'[o] = tries[o] + 1
    BY <1>1, <1>2, <1>6
  <2>. QED  BY <1>1, <1>2, <2>2, <2>3, <2>4, <2>5, <2>6
<1>. QED  BY <1>5, <1>6

LEMMA TurnStep == TypeOK /\ RelayInv /\ TurnInv /\ [Next]_vars => TurnInv'
<1>. SUFFICES ASSUME TypeOK, RelayInv, TurnInv, [Next]_vars, NEW o \in Offsets
              PROVE  IsFiniteSet(Ahead(o)') /\ tries'[o] + Cardinality(Ahead(o)') <= turns'
  BY DEF TurnInv
<1>1. ASSUME NEW c \in Consumers, Rebalance(c)
      PROVE  IsFiniteSet(Ahead(o)') /\ tries'[o] + Cardinality(Ahead(o)') <= turns'
  <2>1. Ahead(o)' \subseteq Ahead(o) \cup {c} /\ tries' = tries /\ turns' = turns + 1
    BY <1>1 DEF Rebalance, Ahead, TypeOK
  <2>2. IsFiniteSet(Ahead(o)) /\ tries[o] + Cardinality(Ahead(o)) <= turns
    BY DEF TurnInv
  <2>3. /\ IsFiniteSet(Ahead(o) \cup {c})
        /\ Cardinality(Ahead(o) \cup {c}) <= Cardinality(Ahead(o)) + 1
    <3>1. Cardinality(Ahead(o)) \in Nat
      BY <2>2, FS_CardinalityType
    <3>2. /\ IsFiniteSet(Ahead(o) \cup {c})
          /\ Cardinality(Ahead(o) \cup {c})
               = IF c \in Ahead(o) THEN Cardinality(Ahead(o)) ELSE Cardinality(Ahead(o)) + 1
      BY <2>2, FS_AddElement
    <3>. QED  BY <3>1, <3>2
  <2>4. IsFiniteSet(Ahead(o)') /\ Cardinality(Ahead(o)') <= Cardinality(Ahead(o) \cup {c})
    BY <2>1, <2>3, FS_Subset
  <2>5. /\ Cardinality(Ahead(o)) \in Nat /\ Cardinality(Ahead(o)') \in Nat
        /\ Cardinality(Ahead(o) \cup {c}) \in Nat
    BY <2>2, <2>3, <2>4, FS_CardinalityType
  <2>. QED  BY <2>1, <2>2, <2>3, <2>4, <2>5 DEF TypeOK
<1>2. CASE \A c \in Consumers : ~Rebalance(c) /\ ~Relay(c) /\ ~RelayFails(c)
  <2>1. tries' = tries /\ turns' = turns
    BY <1>2 DEF Next, Produce, Coordinate, Run, Live, Join, Evict, Lose, Poll, PollWoken,
       PollThrows, Close, Commit, CommitFails, CommitFenced, CommitWoken, Committing, Start,
       Signal, Exit, Crash, Ends, vars, history
  <2>2. ASSUME NEW d \in Consumers, held'[d] PROVE held[d] /\ next'[d] = next[d]
    BY <1>2, <2>2 DEF Next, Produce, Coordinate, Run, Live, Join, Evict, Lose, Poll, PollWoken,
       PollThrows, Close, Commit, CommitFails, CommitFenced, CommitWoken, Committing, Start,
       Signal, Exit, Crash, Ends, vars, process, TypeOK
  <2>3. Ahead(o)' \subseteq Ahead(o)
    BY <2>2 DEF Ahead
  <2>. QED  BY <2>1, <2>3, AheadShrinks
<1>. QED  BY <1>1, <1>2, HandingOver

(***************************************************************************)
(* Between two assignments of the partition no record is handed over       *)
(* twice: there is no retry of a failed relay or a failed commit.          *)
(***************************************************************************)
THEOREM NothingIsRetried == Spec => []OncePerTurn
<1>1. TypeOK /\ TurnInv => OncePerTurn
  <2>. SUFFICES ASSUME TypeOK, TurnInv, NEW o \in Offsets PROVE tries[o] <= turns
    BY DEF OncePerTurn
  <2>1. IsFiniteSet(Ahead(o)) /\ tries[o] + Cardinality(Ahead(o)) <= turns
    BY DEF TurnInv
  <2>2. Cardinality(Ahead(o)) \in Nat
    BY <2>1, FS_CardinalityType
  <2>. QED  BY <2>1, <2>2 DEF TypeOK
<1>. QED  BY <1>1, TurnInit, TurnStep, TypeCorrect, RelayInvariant, PTL DEF Spec
=============================================================================
