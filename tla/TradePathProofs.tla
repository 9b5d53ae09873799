-------------------------- MODULE TradePathProofs --------------------------
(***************************************************************************)
(* Proofs about TradePath, for every set of trades and of processes of     *)
(* processor-in, and every number of upsets.  What holds of the relay by   *)
(* itself (TradeRelayProofs) is carried over: the path implements it.      *)
(***************************************************************************)
EXTENDS TradePath, FiniteSetTheorems, SequenceTheorems, TLAPS

Proofs == INSTANCE TradeRelayProofs WITH MaxRecords <- Cardinality(Trades)

-----------------------------------------------------------------------------
(* The relay inside the path.                                              *)

LEMMA RelayConstants == Proofs!ConstantsOK
BY PathAssumption, FS_CardinalityType DEF Proofs!ConstantsOK

\* The two instances of TradeRelay are one.
LEMMA SameTypes ==
  /\ Proofs!TypeOK <=> Relay!TypeOK
  /\ Proofs!SkippedOnlyBehindFailure <=> Relay!SkippedOnlyBehindFailure
BY DEF Proofs!TypeOK, Relay!TypeOK, Proofs!None, Relay!None, Proofs!Offsets, Relay!Offsets,
   Proofs!SkippedOnlyBehindFailure, Relay!SkippedOnlyBehindFailure, Proofs!Tried, Relay!Tried

LEMMA SameInit == Proofs!Init <=> Relay!Init
BY DEF Proofs!Init, Relay!Init, Proofs!None, Relay!None, Proofs!Offsets, Relay!Offsets

LEMMA SameVars == Proofs!vars = Relay!vars
BY DEF Proofs!vars, Relay!vars, Proofs!group, Relay!group, Proofs!process, Relay!process,
   Proofs!history, Relay!history

LEMMA SameCoordinate ==
  ASSUME NEW c \in Consumers
  PROVE  Proofs!Coordinate(c) <=> Relay!Coordinate(c)
BY DEF Proofs!Coordinate, Relay!Coordinate, Proofs!Join, Relay!Join, Proofs!Rebalance,
   Relay!Rebalance, Proofs!Evict, Relay!Evict, Proofs!Lose, Relay!Lose, Proofs!Without,
   Relay!Without, Proofs!None, Relay!None, Proofs!group, Relay!group, Proofs!process,
   Relay!process, Proofs!history, Relay!history

LEMMA SameRun ==
  ASSUME NEW c \in Consumers
  PROVE  Proofs!Run(c) <=> Relay!Run(c)
BY DEF Proofs!Run, Relay!Run, Proofs!Poll, Relay!Poll, Proofs!PollWoken, Relay!PollWoken,
   Proofs!PollThrows, Relay!PollThrows, Proofs!Close, Relay!Close, Proofs!Without,
   Relay!Without, Proofs!Relay, Relay!Relay, Proofs!RelayFails, Relay!RelayFails,
   Proofs!Relaying, Relay!Relaying, Proofs!Commit, Relay!Commit, Proofs!CommitFails,
   Relay!CommitFails, Proofs!CommitFenced, Relay!CommitFenced, Proofs!CommitWoken,
   Relay!CommitWoken, Proofs!Committing, Relay!Committing, Proofs!group, Relay!group,
   Proofs!process, Relay!process, Proofs!history, Relay!history

LEMMA SameLive ==
  ASSUME NEW c \in Consumers
  PROVE  Proofs!Live(c) <=> Relay!Live(c)
BY DEF Proofs!Live, Relay!Live, Proofs!Start, Relay!Start, Proofs!Signal, Relay!Signal,
   Proofs!Exit, Relay!Exit, Proofs!Crash, Relay!Crash, Proofs!Ends, Relay!Ends,
   Proofs!group, Relay!group, Proofs!process, Relay!process, Proofs!history, Relay!history

LEMMA SameProduce == Proofs!Produce <=> Relay!Produce
BY DEF Proofs!Produce, Relay!Produce, Proofs!group, Relay!group, Proofs!process,
   Relay!process, Proofs!history, Relay!history

LEMMA SameNext == [Proofs!Next]_(Proofs!vars) <=> [Relay!Next]_(Relay!vars)
<1>1. Proofs!Next <=> Relay!Next
  BY SameProduce, SameCoordinate, SameRun, SameLive DEF Proofs!Next, Relay!Next
<1>2. (Proofs!vars)' = Proofs!vars <=> (Relay!vars)' = Relay!vars
  BY DEF Proofs!vars, Relay!vars, Proofs!group, Relay!group, Proofs!process, Relay!process,
     Proofs!history, Relay!history
<1>. QED  BY <1>1, <1>2

\* The steps that concern the relay.
LEMMA RelayMoves ==
  ASSUME [PathNext]_pathVars
  PROVE  \/ UNCHANGED relayVars \/ Deliver
         \/ \E c \in Consumers :
              Confirmed(c) \/ Refused(c) \/ TimedOut(c) \/ Crash(c) \/ Consume(c)
<1>1. ASSUME NEW c \in Consumers, Hand(c) PROVE UNCHANGED relayVars
  BY <1>1 DEF Hand
<1>2. ASSUME NEW t \in Trades, Trade(t) \/ Submit(t) \/ Answer(t) \/ Notify(t)
      PROVE  UNCHANGED relayVars
  BY <1>2 DEF Trade, Submit, Answer, Notify
<1>3. ASSUME NEW k \in calls, Insert(k) \/ Notified(k) \/ NotifierDown(k) \/ Vanish(k)
      PROVE  UNCHANGED relayVars
  BY <1>3 DEF Insert, Notified, NotifierDown, Vanish
<1>4. ASSUME Undelivered \/ CrashOut \/ UNCHANGED pathVars PROVE UNCHANGED relayVars
  BY <1>4 DEF Undelivered, CrashOut, pathVars
<1>. QED  BY <1>1, <1>2, <1>3, <1>4 DEF PathNext

\* What a process does besides relaying touches neither the topic nor the history.
LEMMA OwnSteps ==
  ASSUME NEW c \in Consumers, Crash(c) \/ Consume(c)
  PROVE  end' = end /\ tries' = tries
BY DEF Crash, Consume, Committed, Relay!Crash, Relay!Ends, Relay!Coordinate, Relay!Join,
   Relay!Rebalance, Relay!Evict, Relay!Lose, Relay!Poll, Relay!PollWoken, Relay!PollThrows,
   Relay!Close, Relay!Commit, Relay!CommitFails, Relay!CommitFenced, Relay!CommitWoken,
   Relay!Committing, Relay!Start, Relay!Signal, Relay!Exit, Relay!history

\* A step of the path is a step of the relay, or leaves it alone.
LEMMA PathStepsRelay == [PathNext]_pathVars => [Relay!Next]_(Relay!vars)
<1>. SUFFICES ASSUME [PathNext]_pathVars PROVE [Relay!Next]_(Relay!vars)
  OBVIOUS
<1>1. CASE Deliver
  BY <1>1 DEF Deliver, Relay!Next
<1>2. CASE UNCHANGED relayVars
  BY <1>2 DEF relayVars, Relay!vars, Relay!group, Relay!process, Relay!history
<1>3. ASSUME NEW c \in Consumers, Confirmed(c) \/ Refused(c) \/ TimedOut(c) \/ Crash(c)
                                  \/ Consume(c)
      PROVE  Relay!Next
  BY <1>3 DEF Confirmed, Refused, TimedOut, Crash, Consume, Committed, Relay!Next, Relay!Run,
     Relay!Live
<1>. QED  BY <1>1, <1>2, <1>3, RelayMoves

(***************************************************************************)
(* The path implements the relay: however the trader, processor-out, the   *)
(* router and the recorders behave, processor-in does what TradeRelay says.*)
(***************************************************************************)
THEOREM PathRelays == PathSpec => Relay!Spec
<1>1. PathInit => Relay!Init
  BY DEF PathInit
<1>. QED  BY <1>1, PathStepsRelay, PTL DEF PathSpec, Relay!Spec

\* A process that relays takes the partition for its own.
HeldInv == \A c \in Consumers : Relay!Relaying(c) => held[c]

LEMMA RelayHolds ==
  PathSpec => []Relay!TypeOK /\ []Relay!SkippedOnlyBehindFailure /\ []HeldInv
<1>1. PathInit => Proofs!Init
  BY SameInit DEF PathInit
<1>2. [PathNext]_pathVars => [Proofs!Next]_(Proofs!vars)
  BY PathStepsRelay, SameNext
<1>3. PathSpec => Proofs!Spec
  BY <1>1, <1>2, PTL DEF PathSpec, Proofs!Spec
<1>4. Proofs!Spec => []Proofs!TypeOK /\ []Proofs!SkippedOnlyBehindFailure /\ []Proofs!RelayInv
  BY RelayConstants, Proofs!TypeCorrect, Proofs!NothingElseIsSkipped, Proofs!RelayInvariant, PTL
<1>5. Proofs!RelayInv => HeldInv
  BY DEF Proofs!RelayInv, Proofs!Knows, HeldInv, Relay!Relaying
<1>. QED  BY <1>3, <1>4, <1>5, SameTypes, PTL
-----------------------------------------------------------------------------
(* Types.                                                                  *)

\* The record that a process relays is in the topic.
LEMMA RelayedRecord ==
  ASSUME Relay!TypeOK, topic \in Seq(Trades), Len(topic) = end,
         NEW c \in Consumers, Relay!Relaying(c)
  PROVE  next[c] \in 1 .. Len(topic) /\ topic[next[c]] \in Trades
<1>1. next[c] \in 1 .. Len(topic)
  BY PathAssumption, FS_CardinalityType DEF Relay!TypeOK, Relay!Relaying
<1>. QED  BY <1>1, ElementOfSeq

LEMMA PathTypeInit == PathInit => PathTypeOK
<1>. SUFFICES ASSUME PathInit PROVE PathTypeOK
  OBVIOUS
<1>1. Relay!TypeOK
  <2>1. Proofs!TypeOK
    BY RelayConstants, Proofs!TypeInit, SameInit DEF PathInit
  <2>. QED  BY <2>1, SameTypes
<1>2. /\ phase \in [Trades -> Phases] /\ bad \subseteq Trades
      /\ sending \subseteq Trades /\ replies \subseteq Trades /\ lost \subseteq Trades
      /\ handed \in [Trades -> Nat] /\ refused \subseteq Trades /\ shaken \subseteq Trades
      /\ calls \subseteq Calls /\ notices \subseteq Trades \X Recorders
  BY DEF PathInit, RequestInit, Phases
<1>3. buffer \in Seq(Trades) /\ topic \in Seq(Trades) /\ Len(topic) = 0
  BY DEF PathInit
<1>4. end = 0
  BY DEF PathInit, Relay!Init
<1>5. asked \in [Consumers -> {Nobody} \cup (Trades \X Nat)]
  BY DEF PathInit
<1>6. rows \in [{"mysql", "postgres"} -> SUBSET Trades]
  BY DEF PathInit
<1>. QED  BY <1>1, <1>2, <1>3, <1>4, <1>5, <1>6 DEF PathTypeOK

\* What Read leaves of the calls and of who waits for them.
LEMMA ReadType ==
  ASSUME PathTypeOK, NEW c \in Consumers, Read(c)
  PROVE  calls' \subseteq Calls /\ asked' \in [Consumers -> {Nobody} \cup (Trades \X Nat)]
BY DEF PathTypeOK, Read

LEMMA MovesType ==
  ASSUME PathTypeOK, NEW k \in calls, NEW at \in {"insert", "notify", "ok", "error"},
         NEW failed \in BOOLEAN, Moves(k, at, failed)
  PROVE  calls' \subseteq Calls
BY DEF PathTypeOK, Moves, Calls

LEMMA PathTypeStep ==
  PathTypeOK /\ [PathNext]_pathVars /\ Relay!TypeOK' => PathTypeOK'
<1>. SUFFICES ASSUME PathTypeOK, [PathNext]_pathVars, Relay!TypeOK' PROVE PathTypeOK'
  OBVIOUS
<1>1. CASE Deliver
  <2>1. /\ topic' = Append(topic, Head(buffer)) /\ buffer' = Tail(buffer) /\ buffer # <<>>
        /\ end' = end + 1
    BY <1>1 DEF Deliver, Relay!Produce
  <2>2. /\ buffer \in Seq(Trades) /\ topic \in Seq(Trades) /\ Len(topic) = end
    BY DEF PathTypeOK
  <2>3. Head(buffer) \in Trades /\ buffer' \in Seq(Trades)
    BY <2>1, <2>2, HeadTailProperties
  <2>4. topic' \in Seq(Trades) /\ Len(topic') = end'
    BY <2>1, <2>2, <2>3, AppendProperties
  <2>. QED  BY <1>1, <2>3, <2>4 DEF Deliver, PathTypeOK, requestVars, recVars
<1>2. ASSUME NEW t \in Trades, Trade(t) \/ Submit(t) \/ Answer(t) PROVE PathTypeOK'
  <2>1. phase' \in [Trades -> Phases] /\ bad' \subseteq Trades
    BY <1>2 DEF Trade, Submit, Answer, Decide, Fail, Post, Answered, Becomes, PathTypeOK, Phases
  <2>2. sending' \subseteq Trades /\ replies' \subseteq Trades
    BY <1>2 DEF Trade, Submit, Answer, PathTypeOK
  <2>3. UNCHANGED <<buffer, lost, topic, relayVars, asked, recVars>>
    BY <1>2 DEF Trade, Submit, Answer
  <2>. QED  BY <2>1, <2>2, <2>3 DEF PathTypeOK, relayVars, recVars
<1>3. ASSUME NEW t \in Trades, Notify(t) PROVE PathTypeOK'
  <2>1. sending' \subseteq Trades /\ replies' \subseteq Trades /\ lost' \subseteq Trades
    BY <1>3 DEF Notify, PathTypeOK
  <2>2. buffer' \in Seq(Trades)
    <3>1. buffer' \in {buffer, Append(buffer, t)} /\ buffer \in Seq(Trades)
      BY <1>3 DEF Notify, PathTypeOK
    <3>. QED  BY <3>1, AppendProperties
  <2>. QED  BY <1>3, <2>1, <2>2 DEF Notify, PathTypeOK, requestVars, relayVars, recVars
<1>4. CASE Undelivered \/ CrashOut
  <2>1. CASE Undelivered
    <3>1. Head(buffer) \in Trades /\ Tail(buffer) \in Seq(Trades)
      BY <2>1, HeadTailProperties DEF PathTypeOK, Undelivered
    <3>. QED  BY <2>1, <3>1 DEF Undelivered, PathTypeOK, requestVars, relayVars, recVars
  <2>2. CASE CrashOut
    <3>1. ToSet(buffer) \subseteq Trades
      BY ElementOfSeq DEF PathTypeOK, ToSet
    <3>. QED  BY <2>2, <3>1 DEF CrashOut, PathTypeOK, requestVars, relayVars, recVars
  <2>. QED  BY <1>4, <2>1, <2>2
<1>5. ASSUME NEW k \in calls, Insert(k) \/ Notified(k) \/ NotifierDown(k) \/ Vanish(k)
      PROVE  PathTypeOK'
  <2>1. /\ k.trade \in Trades /\ k.to \in Recorders /\ k.failed \in BOOLEAN
        /\ Database(k.to) \in {"mysql", "postgres"}
    BY DEF PathTypeOK, Calls, Recorders, Database
  <2>2. calls' \subseteq Calls
    <3>1. \/ calls' \subseteq calls
          \/ \E at \in {"notify", "ok", "error"}, failed \in BOOLEAN : Moves(k, at, failed)
      BY <1>5, <2>1 DEF Insert, SaveFails, Notified, NotifierDown, Vanish
    <3>. QED  BY <3>1, MovesType DEF PathTypeOK
  <2>3. rows' \in [{"mysql", "postgres"} -> SUBSET Trades]
    <3>1. rows' = rows \/ rows' = [rows EXCEPT ![Database(k.to)] = @ \cup {k.trade}]
      BY <1>5 DEF Insert, Save, Notified, NotifierDown, Vanish
    <3>2. rows \in [{"mysql", "postgres"} -> SUBSET Trades]
      BY DEF PathTypeOK
    <3>. QED  BY <2>1, <3>1, <3>2
  <2>5. shaken' \subseteq Trades
    <3>1. shaken' \in {shaken, shaken \cup {k.trade}}
      BY <1>5 DEF Insert, Notified, NotifierDown, Vanish
    <3>. QED  BY <2>1, <3>1 DEF PathTypeOK
  <2>6. notices' \subseteq Trades \X Recorders
    <3>1. notices' \in {notices, notices \cup {<<k.trade, k.to>>}}
      BY <1>5 DEF Insert, Notified, NotifierDown, Notifies, Vanish
    <3>. QED  BY <2>1, <3>1 DEF PathTypeOK
  <2>4. UNCHANGED <<requestVars, outVars, relayVars, asked, handed, refused>>
    BY <1>5 DEF Insert, Notified, NotifierDown, Vanish
  <2>. QED  BY <2>2, <2>3, <2>4, <2>5, <2>6 DEF PathTypeOK, requestVars, outVars, relayVars
<1>6. ASSUME NEW c \in Consumers, Hand(c) PROVE PathTypeOK'
  <2>. DEFINE t == topic[next[c]]
  <2>1. t \in Trades
    BY <1>6, RelayedRecord DEF Hand, PathTypeOK
  <2>2. handed' \in [Trades -> Nat] /\ handed[t] + 1 \in Nat
    BY <1>6, <2>1 DEF Hand, PathTypeOK
  <2>3. asked' \in [Consumers -> {Nobody} \cup (Trades \X Nat)]
    BY <1>6, <2>1, <2>2 DEF Hand, PathTypeOK
  <2>4. calls' \subseteq Calls
    <3>1. PICK r \in Route(t) :
            calls' = calls \cup {[trade |-> t, try |-> handed[t] + 1, to |-> r,
                                 at |-> "insert", failed |-> FALSE]}
      BY <1>6 DEF Hand
    <3>2. r \in Recorders
      BY DEF Route, Recorders
    <3>. HIDE DEF t
    <3>3. [trade |-> t, try |-> handed[t] + 1, to |-> r, at |-> "insert", failed |-> FALSE]
            \in Calls
      BY <2>1, <2>2, <3>2 DEF Calls
    <3>. QED  BY <3>1, <3>3 DEF PathTypeOK
  <2>. QED  BY <1>6, <2>2, <2>3, <2>4 DEF Hand, PathTypeOK, requestVars, outVars, relayVars
<1>7. ASSUME NEW c \in Consumers, Confirmed(c) \/ Refused(c) \/ TimedOut(c) PROVE PathTypeOK'
  <2>1. Relay!Relaying(c) /\ Read(c) /\ end' = end
    BY <1>7 DEF Confirmed, Refused, TimedOut, Relay!Relay, Relay!RelayFails
  <2>2. topic[next[c]] \in Trades
    BY <2>1, RelayedRecord DEF PathTypeOK
  <2>3. refused' \subseteq Trades /\ shaken' \subseteq Trades
    BY <1>7, <2>2 DEF Confirmed, Refused, TimedOut, PathTypeOK
  <2>4. UNCHANGED <<requestVars, outVars, rows, handed, notices>>
    BY <1>7 DEF Confirmed, Refused, TimedOut
  <2>. QED  BY <2>1, <2>3, <2>4, ReadType DEF PathTypeOK, requestVars, outVars
<1>8. ASSUME NEW c \in Consumers, Crash(c) \/ Consume(c) PROVE PathTypeOK'
  <2>1. end' = end
    BY <1>8, OwnSteps
  <2>2. calls' \subseteq Calls /\ asked' \in [Consumers -> {Nobody} \cup (Trades \X Nat)]
    BY <1>8, ReadType DEF Crash, Consume, PathTypeOK, recVars
  <2>3. UNCHANGED <<requestVars, outVars, rows, handed, refused, shaken, notices>>
    BY <1>8 DEF Crash, Consume, recVars
  <2>. QED  BY <2>1, <2>2, <2>3 DEF PathTypeOK, requestVars, outVars
<1>9. CASE UNCHANGED pathVars
  BY <1>9 DEF pathVars, PathTypeOK, requestVars, outVars, relayVars, recVars
<1>. QED  BY <1>1, <1>2, <1>3, <1>4, <1>5, <1>6, <1>7, <1>8, <1>9 DEF PathNext

(***************************************************************************)
(* Types: what is in the topic, on its way and in the tables are trades.   *)
(***************************************************************************)
THEOREM PathTypes == PathSpec => []PathTypeOK
BY PathTypeInit, PathTypeStep, RelayHolds, PTL DEF PathSpec
-----------------------------------------------------------------------------
(* A posted trade is in one place at a time, and until it is answered or   *)
(* afterwards it is known where.                                           *)

Posted == {t \in Trades : phase[t] \in {"waiting", "ok", "failed"}}

Distinct(s) == \A i, j \in 1 .. Len(s) : s[i] = s[j] => i = j

PlaceInv ==
  /\ sending \cup ToSet(buffer) \cup ToSet(topic) \subseteq Posted
  /\ sending \cap ToSet(buffer) = {} /\ sending \cap ToSet(topic) = {}
  /\ ToSet(buffer) \cap ToSet(topic) = {}
  /\ Distinct(buffer) /\ Distinct(topic)
  /\ \A t \in Trades :
       phase[t] = "ok" \/ t \in replies => t \in lost \cup ToSet(buffer) \cup ToSet(topic)

\* What a process waits for is a call for the record it relays.
AskedInv ==
  \A c \in Consumers :
    asked[c] # Nobody =>
      /\ Relay!Relaying(c)
      /\ asked[c][1] = topic[next[c]]
      /\ asked[c][2] \in 1 .. handed[asked[c][1]]

\* The calls of a trade are numbered, and none was made before it came to the topic.
NumberInv ==
  /\ \A k \in calls : k.try \in 1 .. handed[k.trade]
  /\ \A k, l \in calls : Id(k) = Id(l) => k = l
  /\ \A t \in Trades : handed[t] > 0 => t \in ToSet(topic)

\* What a call's progress says of the tables, its trade's only call above all.
Unsaved(k) ==
  \/ k.at = "insert"
  \/ k.trade \notin shaken /\ (k.at = "error" \/ k.failed)

CallInv(k) ==
  /\ k.at = "ok" \/ (k.at = "notify" /\ ~k.failed) => k.trade \in Recorded
  /\ k.at = "notify" /\ k.to = "java" => k.trade \in rows["postgres"]
  /\ k.at = "ok" => <<k.trade, k.to>> \in notices
  /\ Unsaved(k) /\ handed[k.trade] <= 1 => k.trade \notin Recorded

\* What the tables and the router's errors say of a trade.
RowInv(t) ==
  /\ t \in Recorded => t \notin bad /\ handed[t] > 0
  /\ t \in rows["mysql"] \cap rows["postgres"] => handed[t] > 1
  /\ t \in refused =>
       /\ handed[t] > 0
       /\ \/ t \in shaken \/ handed[t] > 1
          \/ t \notin Recorded /\ \A k \in calls : k.trade # t

\* recorder-java tells the notifier the truth.
TrueInv == \A t \in Trades : <<t, "java">> \in notices => t \in rows["postgres"]

RecordInv ==
  /\ AskedInv /\ NumberInv /\ TrueInv
  /\ \A k \in calls : CallInv(k)
  /\ \A t \in Trades : RowInv(t)

Announced == {t \in Trades : \E r \in Recorders : <<t, r>> \in notices}

\* A record that was relayed, or whose relay failed, is recorded and was told to the
\* notifier, or it was refused.
TriedInv ==
  \A o \in Relay!Offsets :
    Relay!Tried(o) => o <= end /\ topic[o] \in (Recorded \cap Announced) \cup refused

\* A record is handed to the router at most once per assignment, less once for each
\* process that still has it before it.
Handed(o) == IF o \in 1 .. end THEN handed[topic[o]] ELSE 0

Before(o) ==
  {c \in Consumers : held[c] /\ (next[c] < o \/ (next[c] = o /\ asked[c] = Nobody))}

HandInv ==
  \A o \in Relay!Offsets : IsFiniteSet(Before(o)) /\ Handed(o) + Cardinality(Before(o)) <= turns

-----------------------------------------------------------------------------
(* The places of a trade.                                                  *)

LEMMA AppendedSet ==
  ASSUME NEW s \in Seq(Trades), NEW x \in Trades
  PROVE  /\ ToSet(Append(s, x)) = ToSet(s) \cup {x}
         /\ Distinct(s) /\ x \notin ToSet(s) => Distinct(Append(s, x))
<1>1. /\ Len(Append(s, x)) = Len(s) + 1 /\ Len(s) \in Nat
      /\ \A i \in 1 .. Len(s) : Append(s, x)[i] = s[i]
      /\ Append(s, x)[Len(s) + 1] = x
  BY AppendProperties
<1>2. DOMAIN s = 1 .. Len(s) /\ DOMAIN Append(s, x) = 1 .. Len(s) + 1
  BY <1>1, AppendProperties, LenProperties
<1>3. \A i \in 1 .. Len(s) + 1 : i \in 1 .. Len(s) \/ i = Len(s) + 1
  BY <1>1
<1>4. ToSet(Append(s, x)) = ToSet(s) \cup {x}
  BY <1>1, <1>2, <1>3 DEF ToSet
<1>5. ASSUME Distinct(s), x \notin ToSet(s) PROVE Distinct(Append(s, x))
  <2>1. \A i \in 1 .. Len(s) : s[i] # x
    BY <1>2, <1>5 DEF ToSet
  <2>. QED  BY <1>1, <1>3, <1>5, <2>1 DEF Distinct
<1>. QED  BY <1>4, <1>5

LEMMA TailSet ==
  ASSUME NEW s \in Seq(Trades), s # <<>>
  PROVE  /\ ToSet(s) = {Head(s)} \cup ToSet(Tail(s))
         /\ Distinct(s) => Distinct(Tail(s)) /\ Head(s) \notin ToSet(Tail(s))
<1>1. /\ Len(s) \in Nat \ {0} /\ Tail(s) \in Seq(Trades) /\ Len(Tail(s)) = Len(s) - 1
      /\ \A i \in 1 .. Len(Tail(s)) : Tail(s)[i] = s[i + 1]
      /\ Head(s) = s[1]
  BY HeadTailProperties, EmptySeq
<1>2. DOMAIN s = 1 .. Len(s) /\ DOMAIN Tail(s) = 1 .. Len(s) - 1
  BY <1>1, LenProperties
<1>3. \A i \in 1 .. Len(s) : i = 1 \/ (i - 1 \in 1 .. Len(s) - 1 /\ s[i] = Tail(s)[i - 1])
  BY <1>1
<1>4. ToSet(s) = {Head(s)} \cup ToSet(Tail(s))
  <2>1. \A i \in 1 .. Len(s) - 1 : i + 1 \in 1 .. Len(s) /\ Tail(s)[i] = s[i + 1]
    BY <1>1
  <2>2. ToSet(s) \subseteq {Head(s)} \cup ToSet(Tail(s))
    <3>1. \A i \in 1 .. Len(s) : s[i] \in {Head(s)} \cup {Tail(s)[j] : j \in 1 .. Len(s) - 1}
      BY <1>1, <1>3
    <3>. QED  BY <1>2, <3>1 DEF ToSet
  <2>3. {Head(s)} \cup ToSet(Tail(s)) \subseteq ToSet(s)
    BY <1>1, <1>2, <2>1 DEF ToSet
  <2>. QED  BY <2>2, <2>3
<1>5. ASSUME Distinct(s) PROVE Distinct(Tail(s)) /\ Head(s) \notin ToSet(Tail(s))
  BY <1>1, <1>2, <1>5 DEF Distinct, ToSet
<1>. QED  BY <1>4, <1>5

LEMMA PlaceInit == PathInit => PlaceInv
BY DEF PathInit, RequestInit, PlaceInv, Distinct, ToSet

LEMMA PlaceStep == PathTypeOK /\ PlaceInv /\ [PathNext]_pathVars => PlaceInv'
<1>. SUFFICES ASSUME PathTypeOK, PlaceInv, [PathNext]_pathVars PROVE PlaceInv'
  OBVIOUS
<1>1. buffer \in Seq(Trades) /\ topic \in Seq(Trades)
  BY DEF PathTypeOK
<1>2. CASE UNCHANGED <<requestVars, outVars>>
  BY <1>2 DEF PlaceInv, Posted, Distinct, ToSet, requestVars, outVars
<1>3. ASSUME NEW t \in Trades, Trade(t) \/ Submit(t) \/ Answer(t) PROVE PlaceInv'
  <2>1. /\ \A u \in Trades \ {t} : phase'[u] = phase[u]
        /\ t \in Posted => t \in Posted'
        /\ UNCHANGED <<buffer, topic, lost>>
        /\ replies' \subseteq replies
        /\ sending' = sending \/ (sending' = sending \cup {t} /\ t \notin Posted /\ t \in Posted')
        /\ phase'[t] = "ok" => t \in replies
    BY <1>3 DEF Trade, Submit, Answer, Decide, Fail, Post, Answered, Becomes, Posted, Phases,
       PathTypeOK
  <2>2. Posted \subseteq Posted'
    BY <2>1 DEF Posted
  <2>. QED  BY <2>1, <2>2 DEF PlaceInv, Distinct
<1>4. ASSUME NEW t \in Trades, Notify(t) PROVE PlaceInv'
  <2>1. /\ UNCHANGED <<phase, topic>> /\ sending' = sending \ {t} /\ t \in sending
        /\ replies' \subseteq replies \cup {t}
        /\ \/ buffer' = Append(buffer, t) /\ lost' = lost
           \/ lost' = lost \cup {t} /\ buffer' = buffer
    BY <1>4 DEF Notify, requestVars
  <2>2. Posted' = Posted
    BY <2>1 DEF Posted
  <2>3. CASE buffer' = Append(buffer, t) /\ lost' = lost
    <3>1. ToSet(buffer') = ToSet(buffer) \cup {t} /\ Distinct(buffer')
      BY <1>1, <2>1, <2>3, AppendedSet DEF PlaceInv
    <3>. QED  BY <2>1, <2>2, <2>3, <3>1 DEF PlaceInv, Distinct
  <2>4. CASE lost' = lost \cup {t} /\ buffer' = buffer
    BY <2>1, <2>2, <2>4 DEF PlaceInv, Distinct
  <2>. QED  BY <2>1, <2>3, <2>4
<1>5. CASE Deliver \/ Undelivered
  <2>1. /\ UNCHANGED <<phase, sending, replies>> /\ buffer # <<>> /\ buffer' = Tail(buffer)
        /\ \/ topic' = Append(topic, Head(buffer)) /\ lost' = lost
           \/ lost' = lost \cup {Head(buffer)} /\ topic' = topic
    BY <1>5 DEF Deliver, Undelivered, requestVars
  <2>2. /\ ToSet(buffer) = {Head(buffer)} \cup ToSet(buffer') /\ Head(buffer) \in Trades
        /\ Distinct(buffer') /\ Head(buffer) \notin ToSet(buffer')
    BY <1>1, <2>1, TailSet, HeadTailProperties DEF PlaceInv
  <2>3. Posted' = Posted
    BY <2>1 DEF Posted
  <2>4. CASE topic' = Append(topic, Head(buffer)) /\ lost' = lost
    <3>1. ToSet(topic') = ToSet(topic) \cup {Head(buffer)} /\ Distinct(topic')
      BY <1>1, <2>2, <2>4, AppendedSet DEF PlaceInv
    <3>. QED  BY <2>1, <2>2, <2>3, <2>4, <3>1 DEF PlaceInv, Distinct
  <2>5. CASE lost' = lost \cup {Head(buffer)} /\ topic' = topic
    BY <2>1, <2>2, <2>3, <2>5 DEF PlaceInv, Distinct
  <2>. QED  BY <2>1, <2>4, <2>5
<1>6. CASE CrashOut
  <2>1. /\ UNCHANGED <<phase, replies, topic>> /\ sending' = {} /\ buffer' = <<>>
        /\ lost' = lost \cup sending \cup ToSet(buffer)
    BY <1>6 DEF CrashOut, requestVars
  <2>2. ToSet(buffer') = {} /\ Distinct(buffer')
    BY <2>1 DEF ToSet, Distinct
  <2>3. Posted' = Posted
    BY <2>1 DEF Posted
  <2>. QED  BY <2>1, <2>2, <2>3 DEF PlaceInv, Distinct
<1>7. ASSUME NEW k \in calls, Insert(k) \/ Notified(k) \/ NotifierDown(k) \/ Vanish(k)
      PROVE  UNCHANGED <<requestVars, outVars>>
  BY <1>7 DEF Insert, Notified, NotifierDown, Vanish
<1>8. ASSUME NEW c \in Consumers,
             Hand(c) \/ Confirmed(c) \/ Refused(c) \/ TimedOut(c) \/ Crash(c) \/ Consume(c)
      PROVE  UNCHANGED <<requestVars, outVars>>
  BY <1>8 DEF Hand, Confirmed, Refused, TimedOut, Crash, Consume
<1>9. UNCHANGED pathVars => UNCHANGED <<requestVars, outVars>>
  BY DEF pathVars
<1>. QED  BY <1>2, <1>3, <1>4, <1>5, <1>6, <1>7, <1>8, <1>9 DEF PathNext
-----------------------------------------------------------------------------
(* The calls, the tables and the router's errors.                          *)

\* A process that relays is not moved by the others, nor by what it does besides.
LEMMA RelayingStays ==
  ASSUME PathTypeOK, NEW c \in Consumers, NEW d \in Consumers, Relay!Relaying(d),
         \/ Relay!Produce \/ Consume(c)
         \/ c # d /\ (Relay!Relay(c) \/ Relay!RelayFails(c) \/ Relay!Crash(c))
  PROVE  Relay!Relaying(d)' /\ next'[d] = next[d]
<1>1. mode[d] = "relaying" /\ next[d] <= position[d]
  BY DEF Relay!Relaying
<1>2. mode'[d] = "relaying" /\ next'[d] = next[d] /\ position'[d] = position[d]
  <2>. USE <1>1 DEF PathTypeOK, Relay!TypeOK, Relay!group, Relay!process, Relay!history
  <2>1. CASE Relay!Produce
    BY <2>1 DEF Relay!Produce
  <2>2. CASE Relay!Coordinate(c)
    BY <2>2 DEF Relay!Coordinate, Relay!Join, Relay!Rebalance, Relay!Evict, Relay!Lose
  <2>3. CASE Relay!Poll(c) \/ Relay!PollWoken(c) \/ Relay!PollThrows(c)
    BY <2>3 DEF Relay!Poll, Relay!PollWoken, Relay!PollThrows, Relay!Close
  <2>4. CASE Committed(c)
    <3>1. Relay!Committing(c)
      BY <2>4 DEF Committed, Relay!Commit, Relay!CommitFails, Relay!CommitFenced,
         Relay!CommitWoken
    <3>2. next[d] \in Nat /\ position[d] \in Nat
      OBVIOUS
    <3>. QED  BY <3>1, <3>2 DEF Relay!Committing
  <2>5. CASE Relay!Start(c) \/ Relay!Signal(c) \/ Relay!Exit(c)
    BY <2>5 DEF Relay!Start, Relay!Signal, Relay!Exit, Relay!Ends
  <2>6. CASE c # d /\ (Relay!Relay(c) \/ Relay!RelayFails(c) \/ Relay!Crash(c))
    BY <2>6 DEF Relay!Relay, Relay!RelayFails, Relay!Crash, Relay!Ends
  <2>. QED  BY <2>1, <2>2, <2>3, <2>4, <2>5, <2>6 DEF Consume
<1>. QED  BY <1>1, <1>2 DEF Relay!Relaying

LEMMA RecordInit == PathInit => RecordInv
BY DEF PathInit, RequestInit, RecordInv, AskedInv, NumberInv, RowInv, TrueInv, Recorded

\* Steps that are none of the router's, the recorders' or their callers'.
LEMMA ElsewhereKeeps ==
  ASSUME PathTypeOK, PlaceInv, RecordInv, UNCHANGED <<asked, recVars>>,
         \A t \in Posted : t \in bad' => t \in bad,
         ToSet(topic) \subseteq ToSet(topic'),
         \A c \in Consumers :
           Relay!Relaying(c) =>
             Relay!Relaying(c)' /\ next'[c] = next[c] /\ topic'[next[c]] = topic[next[c]]
  PROVE  RecordInv'
<1>1. UNCHANGED <<asked, calls, rows, handed, refused, shaken, notices>> /\ Recorded' = Recorded
  BY DEF recVars, Recorded
<1>2. AskedInv'
  BY <1>1 DEF RecordInv, AskedInv
<1>3. NumberInv'
  BY <1>1 DEF RecordInv, NumberInv, Id
<1>4. \A k \in calls' : CallInv(k)'
  BY <1>1 DEF RecordInv, CallInv, Unsaved
<1>5. ASSUME NEW t \in Trades PROVE RowInv(t)'
  <2>1. t \in Recorded => t \notin bad'
    <3>1. t \in Recorded => handed[t] > 0 /\ t \notin bad
      BY DEF RecordInv, RowInv
    <3>2. handed[t] > 0 => t \in Posted
      BY DEF RecordInv, NumberInv, PlaceInv
    <3>. QED  BY <3>1, <3>2
  <2>. QED  BY <1>1, <2>1 DEF RecordInv, RowInv
<1>6. TrueInv'
  BY <1>1 DEF RecordInv, TrueInv
<1>. QED  BY <1>2, <1>3, <1>4, <1>5, <1>6 DEF RecordInv

LEMMA HandKeeps ==
  ASSUME PathTypeOK, RecordInv, NEW c \in Consumers, Hand(c)
  PROVE  RecordInv'
<1>. DEFINE t == topic[next[c]]
<1>1. t \in Trades /\ t \in ToSet(topic) /\ Relay!Relaying(c)
  <2>1. next[c] \in 1 .. Len(topic) /\ t \in Trades /\ Relay!Relaying(c)
    BY RelayedRecord DEF Hand, PathTypeOK
  <2>2. DOMAIN topic = 1 .. Len(topic)
    BY LenProperties DEF PathTypeOK
  <2>. QED  BY <2>1, <2>2 DEF ToSet
<1>2. /\ handed \in [Trades -> Nat] /\ calls \subseteq Calls
      /\ handed' = [handed EXCEPT ![t] = @ + 1]
      /\ asked' = [asked EXCEPT ![c] = <<t, handed[t] + 1>>]
      /\ UNCHANGED <<bad, topic, rows, refused, shaken, notices>>
      /\ Recorded' = Recorded
  BY DEF Hand, PathTypeOK, requestVars, outVars, Recorded
<1>3. PICK n : /\ n.trade = t /\ n.try = handed[t] + 1 /\ n.at = "insert"
               /\ calls' = calls \cup {n}
  <2>1. PICK r \in Route(t) :
          calls' = calls \cup {[trade |-> t, try |-> handed[t] + 1, to |-> r,
                               at |-> "insert", failed |-> FALSE]}
    BY DEF Hand
  <2>. QED  BY <2>1
<1>4. \A d \in Consumers : (Relay!Relaying(d))' <=> Relay!Relaying(d)
  BY DEF Hand, relayVars, Relay!Relaying
<1>5. next' = next
  BY DEF Hand, relayVars
<1>6. handed'[t] = handed[t] + 1 /\ \A u \in Trades \ {t} : handed'[u] = handed[u]
  BY <1>1, <1>2
<1>7. \A k \in calls : k.trade \in Trades /\ k.try \in Nat
  BY <1>2 DEF Calls
<1>. HIDE DEF t
<1>8. AskedInv'
  <2>1. ASSUME NEW d \in Consumers, asked'[d] # Nobody
        PROVE  /\ (Relay!Relaying(d))' /\ asked'[d][1] = topic'[next'[d]]
               /\ asked'[d][2] \in 1 .. handed'[asked'[d][1]]
    <3>1. CASE d = c
      <4>1. asked'[d] = <<t, handed[t] + 1>>
        BY <1>2, <3>1 DEF PathTypeOK
      <4>. QED  BY <1>1, <1>2, <1>4, <1>5, <1>6, <3>1, <4>1 DEF t
    <3>2. CASE d # c
      <4>1. asked'[d] = asked[d]
        BY <1>2, <3>2 DEF PathTypeOK
      <4>2. /\ Relay!Relaying(d) /\ asked[d][1] = topic[next[d]]
            /\ asked[d][2] \in 1 .. handed[asked[d][1]]
        BY <2>1, <4>1 DEF RecordInv, AskedInv
      <4>3. asked[d][1] \in Trades
        BY <4>2, RelayedRecord DEF PathTypeOK
      <4>. QED  BY <1>1, <1>2, <1>4, <1>5, <1>6, <4>1, <4>2, <4>3
    <3>. QED  BY <3>1, <3>2
  <2>. QED  BY <2>1 DEF AskedInv
<1>9. NumberInv'
  <2>1. \A k \in calls' : k.try \in 1 .. handed'[k.trade]
    <3>1. ASSUME NEW k \in calls PROVE k.try \in 1 .. handed'[k.trade]
      <4>1. k.try \in 1 .. handed[k.trade] /\ k.trade \in Trades
        BY <1>7 DEF RecordInv, NumberInv
      <4>2. handed'[k.trade] >= handed[k.trade] /\ handed[k.trade] \in Nat
            /\ handed'[k.trade] \in Nat
        BY <1>1, <1>2, <1>6, <4>1
      <4>. QED  BY <4>1, <4>2
    <3>2. n.try \in 1 .. handed'[n.trade]
      BY <1>1, <1>2, <1>3, <1>6
    <3>. QED  BY <1>3, <3>1, <3>2
  <2>2. \A k, l \in calls' : (Id(k) = Id(l))' => k = l
    <3>1. ASSUME NEW k \in calls, k.trade = n.trade PROVE k.try # n.try
      <4>1. k.try \in 1 .. handed[t]
        BY <1>3, <3>1 DEF RecordInv, NumberInv
      <4>. QED  BY <1>1, <1>2, <1>3, <4>1
    <3>. QED  BY <1>3, <3>1 DEF RecordInv, NumberInv, Id
  <2>3. \A u \in Trades : handed'[u] > 0 => u \in ToSet(topic')
    BY <1>1, <1>2, <1>6 DEF RecordInv, NumberInv
  <2>. QED  BY <2>1, <2>2, <2>3 DEF NumberInv
<1>10. \A k \in calls' : CallInv(k)'
  <2>1. ASSUME NEW k \in calls PROVE CallInv(k)'
    <3>1. k.trade \in Trades /\ (handed'[k.trade] <= 1 => handed[k.trade] <= 1)
      BY <1>1, <1>2, <1>6, <1>7
    <3>. QED  BY <1>2, <3>1 DEF RecordInv, CallInv, Unsaved
  <2>2. CallInv(n)'
    <3>1. handed'[t] <= 1 => ~(handed[t] > 0)
      BY <1>1, <1>2, <1>6
    <3>2. t \in Recorded => handed[t] > 0
      BY <1>1 DEF RecordInv, RowInv
    <3>. QED  BY <1>2, <1>3, <3>1, <3>2 DEF CallInv, Unsaved
  <2>. QED  BY <1>3, <2>1, <2>2
<1>11. ASSUME NEW u \in Trades PROVE RowInv(u)'
  <2>1. RowInv(u)
    BY DEF RecordInv
  <2>2. CASE u = t
    <3>1. /\ handed[u] > 0 => handed'[u] > 1
          /\ handed[u] > 1 => handed'[u] > 1
          /\ handed'[u] > 0
      BY <1>2, <1>6, <2>2
    <3>. QED  BY <1>2, <2>1, <3>1 DEF RowInv
  <2>3. CASE u # t
    BY <1>2, <1>3, <1>6, <2>1, <2>3 DEF RowInv
  <2>. QED  BY <2>2, <2>3
<1>12. TrueInv'
  BY <1>2 DEF RecordInv, TrueInv
<1>. QED  BY <1>8, <1>9, <1>10, <1>11, <1>12 DEF RecordInv

\* A call that goes on, or goes, takes no number and loses none.
LEMMA MovingKeepsNumbers ==
  ASSUME NumberInv, UNCHANGED <<handed, topic>>, NEW k \in calls,
         \A l \in calls' : l \in calls \ {k} \/ Id(l) = Id(k),
         \A l, m \in calls' : l \in calls \ {k} \/ m \in calls \ {k} \/ l = m
  PROVE  NumberInv'
<1>1. \A l, m \in calls : Id(l) = Id(m) => l = m
  BY DEF NumberInv
<1>2. \A l \in calls' : \E m \in calls : Id(l) = Id(m)
  OBVIOUS
<1>3. \A l \in calls' : l.try \in 1 .. handed'[l.trade]
  <2>. SUFFICES ASSUME NEW l \in calls' PROVE l.try \in 1 .. handed[l.trade]
    OBVIOUS
  <2>1. PICK m \in calls : Id(l) = Id(m)
    BY <1>2
  <2>2. l.try = m.try /\ l.trade = m.trade
    BY <2>1 DEF Id
  <2>. QED  BY <2>2 DEF NumberInv
<1>4. \A l, m \in calls' : Id(l) = Id(m) => l = m
  BY <1>1
<1>. QED  BY <1>3, <1>4 DEF NumberInv, Id

\* What becomes of a call that goes on.
LEMMA Moved ==
  ASSUME PathTypeOK, NEW k \in calls, NEW at, NEW failed, Moves(k, at, failed)
  PROVE  /\ \A l \in calls' :
              \/ l \in calls \ {k}
              \/ /\ l.trade = k.trade /\ l.try = k.try /\ l.to = k.to
                 /\ l.at = at /\ l.failed = failed
         /\ \A l, m \in calls' : l \in calls \ {k} \/ m \in calls \ {k} \/ l = m
<1>1. k \in Calls
  BY DEF PathTypeOK
<1>2. /\ [k EXCEPT !.at = at, !.failed = failed].trade = k.trade
      /\ [k EXCEPT !.at = at, !.failed = failed].try = k.try
      /\ [k EXCEPT !.at = at, !.failed = failed].to = k.to
      /\ [k EXCEPT !.at = at, !.failed = failed].at = at
      /\ [k EXCEPT !.at = at, !.failed = failed].failed = failed
  BY <1>1 DEF Calls
<1>3. calls' \subseteq (calls \ {k}) \cup {[k EXCEPT !.at = at, !.failed = failed]}
  BY DEF Moves
<1>. QED  BY <1>2, <1>3

\* Nobody's wait is disturbed by a step that leaves the relay and the topic alone.
LEMMA WaitsStay ==
  ASSUME AskedInv, UNCHANGED <<asked, handed, topic, relayVars>>
  PROVE  AskedInv'
BY DEF AskedInv, relayVars, Relay!Relaying

LEMMA InsertKeeps ==
  ASSUME PathTypeOK, RecordInv, NEW k \in calls, Insert(k)
  PROVE  RecordInv'
<1>1. /\ UNCHANGED <<bad, topic, asked, handed, refused, notices>> /\ k.at = "insert"
      /\ shaken \subseteq shaken'
      /\ UNCHANGED <<asked, handed, topic, relayVars>>
  BY DEF Insert, requestVars, outVars
<1>2. /\ k \in Calls /\ calls \subseteq Calls /\ handed \in [Trades -> Nat]
      /\ rows \in [{"mysql", "postgres"} -> SUBSET Trades]
      /\ Database(k.to) \in {"mysql", "postgres"} /\ k.trade \in Trades
  BY DEF PathTypeOK, Calls, Database
<1>3. PICK at \in {"notify", "error"}, failed \in BOOLEAN :
        /\ Moves(k, at, failed)
        /\ at = "notify" /\ k.to = "java" => ~failed
        /\ \/ /\ ~Rejects(k)
              /\ rows' = [rows EXCEPT ![Database(k.to)] = @ \cup {k.trade}]
              /\ IF failed THEN k.trade \in shaken' ELSE at = "notify"
           \/ failed /\ rows' = rows
  BY DEF Insert, Save, SaveFails
<1>4. /\ \A l \in calls' :
           \/ l \in calls \ {k}
           \/ /\ l.trade = k.trade /\ l.try = k.try /\ l.to = k.to
              /\ l.at = at /\ l.failed = failed
      /\ \A l, m \in calls' : l \in calls \ {k} \/ m \in calls \ {k} \/ l = m
  BY <1>3, Moved
<1>5. AskedInv'
  BY <1>1, WaitsStay DEF RecordInv
<1>6. NumberInv'
  <2>1. \A l \in calls' : l \in calls \ {k} \/ Id(l) = Id(k)
    BY <1>4 DEF Id
  <2>. QED  BY <1>1, <1>4, <2>1, MovingKeepsNumbers DEF RecordInv
<1>7. ASSUME NEW l \in calls \ {k}, handed[l.trade] <= 1 PROVE l.trade # k.trade
  <2>1. l.try \in 1 .. handed[l.trade] /\ k.try \in 1 .. handed[k.trade] /\ Id(l) # Id(k)
    BY DEF RecordInv, NumberInv
  <2>2. l.try = 1 /\ (l.trade = k.trade => k.try = 1)
    BY <1>2, <1>7, <2>1 DEF Calls
  <2>. QED  BY <2>1, <2>2 DEF Id
<1>8. handed[k.trade] <= 1 => k.trade \notin Recorded
  BY <1>1 DEF RecordInv, CallInv, Unsaved
<1>9. /\ Recorded \subseteq Recorded' /\ Recorded' \subseteq Recorded \cup {k.trade}
      /\ failed => Recorded' = Recorded \/ k.trade \in shaken'
      /\ ~failed => k.trade \in Recorded'
      /\ rows["postgres"] \subseteq rows'["postgres"]
      /\ k.to = "java" /\ ~failed => k.trade \in rows'["postgres"]
  BY <1>2, <1>3 DEF Recorded, Database
<1>10. \A l \in calls' : CallInv(l)'
  <2>1. ASSUME NEW l \in calls \ {k} PROVE CallInv(l)'
    <3>1. CallInv(l)
      BY DEF RecordInv
    <3>. QED  BY <1>1, <1>7, <1>9, <3>1 DEF CallInv, Unsaved
  <2>2. ASSUME NEW l \in calls', l.trade = k.trade, l.to = k.to, l.at = at, l.failed = failed
        PROVE  CallInv(l)'
    BY <1>1, <1>3, <1>8, <1>9, <2>2 DEF CallInv, Unsaved
  <2>. QED  BY <1>4, <2>1, <2>2
<1>11. ASSUME NEW t \in Trades PROVE RowInv(t)'
  <2>1. RowInv(t)
    BY DEF RecordInv
  <2>2. \A l \in calls' : \E m \in calls : l.trade = m.trade
    BY <1>4
  <2>3. CASE t # k.trade
    <3>1. /\ t \in Recorded' => t \in Recorded
          /\ t \in rows'["mysql"] \cap rows'["postgres"]
               => t \in rows["mysql"] \cap rows["postgres"]
      BY <1>2, <1>3, <1>9, <2>3
    <3>. QED  BY <1>1, <2>1, <2>2, <3>1 DEF RowInv
  <2>4. CASE t = k.trade
    <3>1. handed[t] > 0
      <4>1. k.try \in 1 .. handed[t] /\ handed[t] \in Nat
        BY <1>2, <2>4 DEF RecordInv, NumberInv
      <4>. QED  BY <4>1
    <3>2. t \in Recorded' => t \notin bad
      BY <1>3, <2>1, <2>4 DEF Rejects, RowInv, Recorded
    <3>3. t \in rows'["mysql"] \cap rows'["postgres"] => handed[t] > 1
      <4>1. CASE handed[t] <= 1
        <5>1. t \notin rows["mysql"] /\ t \notin rows["postgres"]
          BY <1>8, <2>4, <4>1 DEF Recorded
        <5>. QED  BY <1>2, <1>3, <5>1
      <4>. QED  BY <1>2, <2>4, <4>1
    <3>4. t \in refused => t \in shaken \/ handed[t] > 1
      BY <2>1, <2>4 DEF RowInv
    <3>. QED  BY <1>1, <3>1, <3>2, <3>3, <3>4 DEF RowInv
  <2>. QED  BY <2>3, <2>4
<1>12. TrueInv'
  BY <1>1, <1>9 DEF RecordInv, TrueInv
<1>. QED  BY <1>5, <1>6, <1>10, <1>11, <1>12 DEF RecordInv

\* The notifier is told, or is down, or the call is gone.
LEMMA NotifyingKeeps ==
  ASSUME PathTypeOK, RecordInv, NEW k \in calls,
         Notified(k) \/ NotifierDown(k) \/ Vanish(k)
  PROVE  RecordInv'
<1>1. /\ UNCHANGED <<bad, topic, asked, rows, handed, refused>> /\ Recorded' = Recorded
      /\ UNCHANGED <<asked, handed, topic, relayVars>>
      /\ shaken' \in {shaken, shaken \cup {k.trade}}
      /\ \/ notices' = notices
         \/ notices' = notices \cup {<<k.trade, k.to>>} /\ k.at = "notify"
  BY DEF Notified, NotifierDown, Notifies, Vanish, requestVars, outVars, Recorded
<1>2. /\ \A l \in calls' :
           \/ l \in calls \ {k}
           \/ /\ l.trade = k.trade /\ l.try = k.try /\ l.at \in {"ok", "error"}
              /\ l.to = k.to /\ <<k.trade, k.to>> \in notices'
              /\ l.failed = k.failed /\ k.at = "notify"
              /\ k.failed \/ l.at = "ok" \/ k.trade \in shaken'
              /\ k.failed => l.at = "error"
      /\ \A l, m \in calls' : l \in calls \ {k} \/ m \in calls \ {k} \/ l = m
  <2>1. CASE Notified(k)
    <3>1. /\ k.at = "notify" /\ <<k.trade, k.to>> \in notices'
          /\ Moves(k, IF k.failed THEN "error" ELSE "ok", k.failed)
      BY <2>1 DEF Notified, Notifies
    <3>. QED  BY <3>1, Moved
  <2>2. CASE NotifierDown(k)
    <3>1. /\ k.at = "notify" /\ <<k.trade, k.to>> \in notices'
          /\ k.to = "go" => k.trade \in shaken'
          /\ Moves(k, IF k.failed \/ k.to = "go" THEN "error" ELSE "ok", k.failed)
      BY <2>2 DEF NotifierDown, Notifies
    <3>. QED  BY <3>1, Moved
  <2>3. CASE Vanish(k)
    BY <2>3 DEF Vanish
  <2>. QED  BY <2>1, <2>2, <2>3
<1>3. AskedInv'
  BY <1>1, WaitsStay DEF RecordInv
<1>4. NumberInv'
  <2>1. \A l \in calls' : l \in calls \ {k} \/ Id(l) = Id(k)
    BY <1>2 DEF Id
  <2>. QED  BY <1>1, <1>2, <2>1, MovingKeepsNumbers DEF RecordInv
<1>5. \A l \in calls' : CallInv(l)'
  <2>1. ASSUME NEW l \in calls PROVE CallInv(l)'
    BY <1>1 DEF RecordInv, CallInv, Unsaved
  <2>2. ASSUME NEW l \in calls', l \notin calls \ {k} PROVE CallInv(l)'
    <3>1. CallInv(k)
      BY DEF RecordInv
    <3>. QED  BY <1>1, <1>2, <2>2, <3>1 DEF CallInv, Unsaved
  <2>. QED  BY <2>1, <2>2
<1>6. ASSUME NEW t \in Trades PROVE RowInv(t)'
  <2>1. \A l \in calls' : \E m \in calls : l.trade = m.trade
    BY <1>2
  <2>. QED  BY <1>1, <2>1 DEF RecordInv, RowInv
<1>7. TrueInv'
  <2>1. <<k.trade, k.to>> \in notices' \ notices /\ k.to = "java" => k.trade \in rows["postgres"]
    BY <1>1 DEF RecordInv, CallInv
  <2>. QED  BY <1>1, <2>1 DEF RecordInv, TrueInv
<1>. QED  BY <1>3, <1>4, <1>5, <1>6, <1>7 DEF RecordInv

\* The process reads the answer, or gives up, or dies.
LEMMA ReadingKeeps ==
  ASSUME PathTypeOK, RecordInv, NEW c \in Consumers,
         Confirmed(c) \/ Refused(c) \/ TimedOut(c) \/ Crash(c)
  PROVE  RecordInv'
<1>. DEFINE t == topic[next[c]]
<1>1. /\ UNCHANGED <<bad, topic, rows, handed, notices>> /\ Recorded' = Recorded
      /\ calls' \subseteq calls
      /\ Relay!Relay(c) \/ Relay!RelayFails(c) \/ Relay!Crash(c)
  BY DEF Confirmed, Refused, TimedOut, Crash, Read, requestVars, outVars, Recorded
<1>2. /\ asked'[c] = Nobody /\ \A d \in Consumers \ {c} : asked'[d] = asked[d]
  BY DEF Confirmed, Refused, TimedOut, Crash, Read, PathTypeOK
<1>3. AskedInv'
  <2>1. ASSUME NEW d \in Consumers, asked'[d] # Nobody
        PROVE  /\ (Relay!Relaying(d))' /\ asked'[d][1] = topic'[next'[d]]
               /\ asked'[d][2] \in 1 .. handed'[asked'[d][1]]
    <3>1. d # c /\ asked'[d] = asked[d]
      BY <1>2, <2>1
    <3>2. /\ Relay!Relaying(d) /\ asked[d][1] = topic[next[d]]
          /\ asked[d][2] \in 1 .. handed[asked[d][1]]
      BY <2>1, <3>1 DEF RecordInv, AskedInv
    <3>3. Relay!Relaying(d)' /\ next'[d] = next[d]
      BY <1>1, <3>1, <3>2, RelayingStays
    <3>. QED  BY <1>1, <3>1, <3>2, <3>3
  <2>. QED  BY <2>1 DEF AskedInv
<1>4. NumberInv'
  BY <1>1 DEF RecordInv, NumberInv, Id
<1>5. shaken \subseteq shaken' /\ refused \subseteq refused'
  BY DEF Confirmed, Refused, TimedOut, Crash
<1>6. \A k \in calls' : CallInv(k)'
  BY <1>1, <1>5 DEF RecordInv, CallInv, Unsaved
<1>7. ASSUME NEW u \in Trades, u \in refused', u \notin refused
      PROVE  /\ handed[u] > 0
             /\ \/ u \in shaken' \/ handed[u] > 1
                \/ u \notin Recorded /\ \A k \in calls' : k.trade # u
  <2>1. u = t /\ asked[c] # Nobody /\ (Refused(c) \/ TimedOut(c))
    BY <1>7 DEF Confirmed, Refused, TimedOut, Crash
  <2>2. asked[c][1] = u /\ asked[c][2] \in 1 .. handed[u] /\ handed[u] \in Nat
    BY <2>1 DEF RecordInv, AskedInv, PathTypeOK
  <2>3. CASE TimedOut(c)
    BY <2>1, <2>2, <2>3 DEF TimedOut
  <2>4. ASSUME Refused(c), u \notin shaken', handed[u] <= 1
        PROVE  u \notin Recorded /\ \A k \in calls' : k.trade # u
    <3>1. PICK k \in calls : Id(k) = asked[c] /\ k.at = "error"
      BY <2>4 DEF Refused, AnsweredWith
    <3>2. k.trade = u /\ k.try = asked[c][2]
      BY <2>2, <3>1 DEF Id
    <3>3. u \notin Recorded
      BY <1>5, <2>4, <3>1, <3>2 DEF RecordInv, CallInv, Unsaved
    <3>4. ASSUME NEW l \in calls', l.trade = u PROVE FALSE
      <4>1. l \in calls /\ (Id(l) # asked[c] \/ l.at = "insert")
        BY <2>4 DEF Refused, Read
      <4>2. l.try \in 1 .. handed[u]
        BY <3>4, <4>1 DEF RecordInv, NumberInv
      <4>3. l.try = k.try
        BY <2>2, <2>4, <3>2, <4>2
      <4>4. Id(l) = Id(k)
        BY <3>2, <3>4, <4>3 DEF Id
      <4>5. l = k
        BY <4>1, <4>4 DEF RecordInv, NumberInv
      <4>. QED  BY <3>1, <4>1, <4>5
    <3>. QED  BY <3>3, <3>4
  <2>. QED  BY <2>1, <2>2, <2>3, <2>4
<1>8. ASSUME NEW u \in Trades PROVE RowInv(u)'
  <2>1. RowInv(u)
    BY DEF RecordInv
  <2>. QED  BY <1>1, <1>5, <1>7, <2>1 DEF RowInv
<1>9. TrueInv'
  BY <1>1 DEF RecordInv, TrueInv
<1>. QED  BY <1>3, <1>4, <1>6, <1>8, <1>9 DEF RecordInv

LEMMA RecordStep == PathTypeOK /\ PlaceInv /\ RecordInv /\ [PathNext]_pathVars => RecordInv'
<1>. SUFFICES ASSUME PathTypeOK, PlaceInv, RecordInv, [PathNext]_pathVars PROVE RecordInv'
  OBVIOUS
<1>1. ASSUME NEW c \in Consumers, Consume(c) PROVE RecordInv'
  <2>1. UNCHANGED <<asked, recVars, bad, topic>>
    BY <1>1 DEF Consume, requestVars, outVars
  <2>2. \A d \in Consumers : Relay!Relaying(d) => Relay!Relaying(d)' /\ next'[d] = next[d]
    BY <1>1, RelayingStays
  <2>. QED  BY <2>1, <2>2, ElsewhereKeeps
<1>2. CASE Deliver
  <2>1. /\ UNCHANGED <<asked, recVars, bad>> /\ Relay!Produce /\ topic \in Seq(Trades)
        /\ topic' = Append(topic, Head(buffer)) /\ Head(buffer) \in Trades
    BY <1>2, HeadTailProperties DEF Deliver, PathTypeOK, requestVars
  <2>2. ToSet(topic) \subseteq ToSet(topic')
    BY <2>1, AppendedSet
  <2>3. ASSUME NEW d \in Consumers, Relay!Relaying(d)
        PROVE  Relay!Relaying(d)' /\ next'[d] = next[d] /\ topic'[next[d]] = topic[next[d]]
    <3>1. next[d] \in 1 .. Len(topic)
      BY <2>1, <2>3, RelayedRecord DEF PathTypeOK
    <3>2. topic'[next[d]] = topic[next[d]]
      BY <2>1, <3>1, AppendProperties
    <3>. QED  BY <2>1, <2>3, <3>2, RelayingStays
  <2>. QED  BY <2>1, <2>2, <2>3, ElsewhereKeeps
<1>3. ASSUME UNCHANGED <<asked, recVars, topic, relayVars>>,
             \A t \in Posted : t \in bad' => t \in bad
      PROVE  RecordInv'
  <2>1. \A d \in Consumers : Relay!Relaying(d) => Relay!Relaying(d)' /\ next'[d] = next[d]
    BY <1>3 DEF relayVars, Relay!Relaying
  <2>. QED  BY <1>3, <2>1, ElsewhereKeeps
<1>4. ASSUME NEW t \in Trades, Trade(t) \/ Submit(t) \/ Answer(t) \/ Notify(t)
      PROVE  RecordInv'
  <2>1. \A u \in Posted : u \in bad' => u \in bad
    BY <1>4 DEF Trade, Submit, Answer, Notify, Decide, Fail, Post, Answered, Becomes, Posted,
       requestVars
  <2>. QED  BY <1>3, <1>4, <2>1 DEF Trade, Submit, Answer, Notify
<1>5. CASE Undelivered \/ CrashOut \/ UNCHANGED pathVars
  BY <1>3, <1>5 DEF Undelivered, CrashOut, pathVars, requestVars, outVars
<1>. QED  BY <1>1, <1>2, <1>4, <1>5, HandKeeps, InsertKeeps, NotifyingKeeps, ReadingKeeps
          DEF PathNext
-----------------------------------------------------------------------------
(* What was relayed.                                                       *)

LEMMA TriedInit == PathInit => TriedInv
BY DEF PathInit, Relay!Init, TriedInv, Relay!Tried

\* The steps that leave the history of the relay alone.
LEMMA TriesStay ==
  ASSUME [PathNext]_pathVars,
         ~\E c \in Consumers : Confirmed(c) \/ Refused(c) \/ TimedOut(c)
  PROVE  tries' = tries
<1>1. UNCHANGED relayVars => tries' = tries
  BY DEF relayVars
<1>2. Deliver => tries' = tries
  BY DEF Deliver, Relay!Produce, Relay!history
<1>. QED  BY <1>1, <1>2, OwnSteps, RelayMoves

\* Only a delivery lengthens the topic.
LEMMA EndStays == ASSUME [PathNext]_pathVars, ~Deliver PROVE end' = end
<1>1. UNCHANGED relayVars => end' = end
  BY DEF relayVars
<1>2. ASSUME NEW c \in Consumers, Confirmed(c) \/ Refused(c) \/ TimedOut(c) PROVE end' = end
  BY <1>2 DEF Confirmed, Refused, TimedOut, Relay!Relay, Relay!RelayFails
<1>. QED  BY <1>1, <1>2, OwnSteps, RelayMoves

\* Nothing that was recorded or refused is forgotten, and the topic only grows.
LEMMA PathGrows ==
  ASSUME PathTypeOK, [PathNext]_pathVars
  PROVE  /\ Recorded \subseteq Recorded' /\ refused \subseteq refused'
         /\ Announced \subseteq Announced'
         /\ end \in Nat /\ end' >= end /\ \A o \in 1 .. end : topic'[o] = topic[o]
<1>1. /\ Recorded \subseteq Recorded' /\ refused \subseteq refused'
      /\ Announced \subseteq Announced'
  <2>1. ASSUME NEW k \in calls, Insert(k) PROVE Recorded \subseteq Recorded'
    <3>1. rows' = rows \/ rows' = [rows EXCEPT ![Database(k.to)] = @ \cup {k.trade}]
      BY <2>1 DEF Insert, Save
    <3>2. rows \in [{"mysql", "postgres"} -> SUBSET Trades]
      BY DEF PathTypeOK
    <3>. QED  BY <3>1, <3>2 DEF Recorded, Database
  <2>2. rows' = rows \/ \E k \in calls : Insert(k)
    BY DEF PathNext, Deliver, Undelivered, CrashOut, Trade, Submit, Answer, Notify, Notified,
       NotifierDown, Vanish, Hand, Confirmed, Refused, TimedOut, Crash, Consume, recVars,
       pathVars
  <2>3. refused \subseteq refused'
    BY DEF PathNext, Deliver, Undelivered, CrashOut, Trade, Submit, Answer, Notify, Insert,
       Notified, NotifierDown, Vanish, Hand, Confirmed, Refused, TimedOut, Crash, Consume,
       recVars, pathVars
  <2>4. notices \subseteq notices'
    BY DEF PathNext, Deliver, Undelivered, CrashOut, Trade, Submit, Answer, Notify, Insert,
       Notified, NotifierDown, Notifies, Vanish, Hand, Confirmed, Refused, TimedOut, Crash,
       Consume, recVars, pathVars
  <2>. QED  BY <2>1, <2>2, <2>3, <2>4 DEF Recorded, Announced
<1>2. topic \in Seq(Trades) /\ Len(topic) = end
  BY DEF PathTypeOK
<1>3. CASE Deliver
  <2>1. end' = end + 1 /\ topic' = Append(topic, Head(buffer)) /\ Head(buffer) \in Trades
    BY <1>3, HeadTailProperties DEF Deliver, Relay!Produce, PathTypeOK
  <2>. QED  BY <1>1, <1>2, <2>1, AppendProperties, LenProperties
<1>4. CASE ~Deliver
  <2>1. topic' = topic
    BY <1>4 DEF PathNext, Undelivered, CrashOut, Trade, Submit, Answer, Notify, Insert,
       Notified, NotifierDown, Vanish, Hand, Confirmed, Refused, TimedOut, Crash, Consume,
       outVars, pathVars
  <2>2. end' = end
    BY <1>4, EndStays
  <2>. QED  BY <1>1, <1>2, <2>1, <2>2, LenProperties
<1>. QED  BY <1>3, <1>4

\* A relay that succeeds has its record in a table and told; one that fails has it refused.
LEMMA RelayedIsKnown ==
  ASSUME PathTypeOK, RecordInv, NEW c \in Consumers, Confirmed(c) \/ Refused(c) \/ TimedOut(c)
  PROVE  topic[next[c]] \in (Recorded' \cap Announced') \cup refused'
<1>1. CASE Confirmed(c)
  <2>1. PICK k \in calls : Id(k) = asked[c] /\ k.at = "ok"
    BY <1>1 DEF Confirmed, AnsweredWith
  <2>2. asked[c] # Nobody /\ rows' = rows /\ notices' = notices
    BY <1>1 DEF Confirmed
  <2>3. /\ k.trade = topic[next[c]] /\ k.trade \in Recorded
        /\ <<k.trade, k.to>> \in notices
    BY <2>1, <2>2 DEF Id, RecordInv, AskedInv, CallInv
  <2>4. k.trade \in Trades /\ k.to \in Recorders
    BY DEF PathTypeOK, Calls
  <2>. QED  BY <2>2, <2>3, <2>4 DEF Recorded, Announced
<1>2. CASE Refused(c) \/ TimedOut(c)
  BY <1>2 DEF Refused, TimedOut
<1>. QED  BY <1>1, <1>2

LEMMA TriedStep ==
  PathTypeOK /\ RecordInv /\ TriedInv /\ [PathNext]_pathVars => TriedInv'
<1>. SUFFICES ASSUME PathTypeOK, RecordInv, TriedInv, [PathNext]_pathVars,
                     NEW o \in Relay!Offsets, tries'[o] > 0
              PROVE  o <= end' /\ topic'[o] \in (Recorded' \cap Announced') \cup refused'
  BY DEF TriedInv, Relay!Tried, Relay!Offsets
<1>1. /\ Recorded \subseteq Recorded' /\ refused \subseteq refused'
      /\ Announced \subseteq Announced'
      /\ end \in Nat /\ end' >= end /\ \A i \in 1 .. end : topic'[i] = topic[i]
      /\ end' \in Int /\ o \in Nat \ {0}
  <2>1. end' \in Int
    BY EndStays, PathGrows DEF Deliver, Relay!Produce
  <2>2. o \in Nat \ {0}
    BY PathAssumption, FS_CardinalityType DEF Relay!Offsets
  <2>. QED  BY <2>1, <2>2, PathGrows
<1>2. CASE tries[o] > 0
  <2>1. o <= end /\ topic[o] \in (Recorded \cap Announced) \cup refused
    BY <1>2 DEF TriedInv, Relay!Tried
  <2>. QED  BY <1>1, <2>1
<1>3. CASE ~(tries[o] > 0)
  <2>1. PICK c \in Consumers : Confirmed(c) \/ Refused(c) \/ TimedOut(c)
    BY <1>3, TriesStay
  <2>2. /\ tries' = [tries EXCEPT ![next[c]] = @ + 1] /\ Relay!Relaying(c)
    BY <2>1 DEF Confirmed, Refused, TimedOut, Relay!Relay, Relay!RelayFails
  <2>3. o = next[c]
    BY <1>3, <2>2 DEF PathTypeOK, Relay!TypeOK
  <2>4. next[c] \in 1 .. end
    BY <2>2, RelayedRecord DEF PathTypeOK
  <2>. QED  BY <1>1, <2>1, <2>3, <2>4, RelayedIsKnown
<1>. QED  BY <1>2, <1>3
-----------------------------------------------------------------------------
(* How often a record is handed to the router.                             *)

LEMMA HandInit == PathInit => HandInv
<1>. SUFFICES ASSUME PathInit, NEW o \in Relay!Offsets
              PROVE  IsFiniteSet(Before(o)) /\ Handed(o) + Cardinality(Before(o)) <= turns
  BY DEF HandInv
<1>1. Before(o) = {} /\ Handed(o) = 0 /\ turns = 0
  BY DEF PathInit, Relay!Init, Before, Handed
<1>. QED  BY <1>1, FS_EmptySet

LEMMA HandedType ==
  ASSUME PathTypeOK, NEW o
  PROVE  Handed(o) \in Nat
<1>1. o \in 1 .. end => topic[o] \in Trades
  BY ElementOfSeq DEF PathTypeOK
<1>. QED  BY <1>1 DEF Handed, PathTypeOK

\* The bound survives a step after which no more processes have the record before them.
LEMMA BeforeShrinks ==
  ASSUME PathTypeOK, HandInv, NEW o \in Relay!Offsets,
         Before(o)' \subseteq Before(o), Handed(o)' = Handed(o), turns' = turns
  PROVE  IsFiniteSet(Before(o)') /\ Handed(o)' + Cardinality(Before(o)') <= turns'
<1>1. IsFiniteSet(Before(o)) /\ Handed(o) + Cardinality(Before(o)) <= turns
  BY DEF HandInv
<1>2. IsFiniteSet(Before(o)') /\ Cardinality(Before(o)') <= Cardinality(Before(o))
  BY <1>1, FS_Subset
<1>3. Cardinality(Before(o)) \in Nat /\ Cardinality(Before(o)') \in Nat
  BY <1>1, <1>2, FS_CardinalityType
<1>4. Handed(o) \in Nat /\ turns \in Nat
  BY HandedType DEF PathTypeOK, Relay!TypeOK
<1>. QED  BY <1>1, <1>2, <1>3, <1>4

\* A delivery brings a trade that was never handed over.
LEMMA DeliverHands ==
  ASSUME PathTypeOK, PlaceInv, RecordInv, HandInv, Deliver, NEW o \in Relay!Offsets
  PROVE  IsFiniteSet(Before(o)') /\ Handed(o)' + Cardinality(Before(o)') <= turns'
<1>1. /\ UNCHANGED <<asked, handed, held, next, turns>>
      /\ topic' = Append(topic, Head(buffer)) /\ end' = end + 1 /\ buffer # <<>>
  BY DEF Deliver, Relay!Produce, Relay!process, Relay!history, recVars
<1>2. /\ topic \in Seq(Trades) /\ Len(topic) = end /\ buffer \in Seq(Trades) /\ end \in Nat
      /\ handed \in [Trades -> Nat] /\ Head(buffer) \in Trades
  BY <1>1, HeadTailProperties, LenProperties DEF PathTypeOK
<1>3. handed[Head(buffer)] = 0
  <2>1. Head(buffer) \notin ToSet(topic)
    BY <1>1, <1>2, TailSet DEF PlaceInv
  <2>. QED  BY <1>2, <2>1 DEF RecordInv, NumberInv
<1>4. Before(o)' = Before(o)
  BY <1>1 DEF Before
<1>5. Handed(o)' = Handed(o)
  <2>1. \A i \in 1 .. end : topic'[i] = topic[i]
    BY <1>1, <1>2, AppendProperties
  <2>2. topic'[end + 1] = Head(buffer)
    BY <1>1, <1>2, AppendProperties
  <2>3. o \in 1 .. end' <=> o \in 1 .. end \/ o = end + 1
    BY <1>1, <1>2 DEF Relay!Offsets
  <2>4. end + 1 \notin 1 .. end
    BY <1>2
  <2>. QED  BY <1>1, <1>3, <2>1, <2>2, <2>3, <2>4 DEF Handed
<1>. QED  BY <1>1, <1>4, <1>5, BeforeShrinks

\* Handing a record over takes its process out of those that have it before them.
LEMMA HandHands ==
  ASSUME PathTypeOK, PlaceInv, HeldInv, HandInv, NEW c \in Consumers, Hand(c),
         NEW o \in Relay!Offsets
  PROVE  IsFiniteSet(Before(o)') /\ Handed(o)' + Cardinality(Before(o)') <= turns'
<1>. DEFINE t == topic[next[c]]
<1>1. /\ UNCHANGED <<held, next, turns, topic, end>> /\ Relay!Relaying(c) /\ asked[c] = Nobody
      /\ handed' = [handed EXCEPT ![t] = @ + 1]
      /\ asked' = [asked EXCEPT ![c] = <<t, handed[t] + 1>>]
  BY DEF Hand, relayVars, outVars
<1>2. /\ next[c] \in 1 .. end /\ t \in Trades /\ held[c] /\ handed \in [Trades -> Nat]
      /\ topic \in Seq(Trades) /\ Len(topic) = end /\ turns \in Nat
  BY <1>1, RelayedRecord DEF PathTypeOK, HeldInv, Relay!TypeOK
<1>3. asked'[c] # Nobody /\ \A d \in Consumers \ {c} : asked'[d] = asked[d]
  <2>1. <<t, handed[t] + 1>> # Nobody
    BY <1>2, PathAssumption
  <2>. QED  BY <1>1, <2>1 DEF PathTypeOK
<1>4. Before(o)' \subseteq Before(o)
  BY <1>1, <1>3 DEF Before
<1>5. CASE o # next[c]
  <2>1. Handed(o)' = Handed(o)
    <3>1. CASE o \in 1 .. end
      <4>1. topic[o] # t /\ topic[o] \in Trades
        BY <1>2, <1>5, <3>1, ElementOfSeq DEF PlaceInv, Distinct
      <4>. QED  BY <1>1, <1>2, <4>1 DEF Handed
    <3>2. CASE o \notin 1 .. end
      BY <1>1, <3>2 DEF Handed
    <3>. QED  BY <3>1, <3>2
  <2>. QED  BY <1>1, <1>4, <2>1, BeforeShrinks
<1>6. CASE o = next[c]
  <2>1. Handed(o)' = Handed(o) + 1 /\ Handed(o) \in Nat
    BY <1>1, <1>2, <1>6 DEF Handed
  <2>2. next[c] \in Nat
    BY <1>2
  <2>3. c \in Before(o) /\ Before(o)' \subseteq Before(o) \ {c}
    BY <1>1, <1>2, <1>3, <1>4, <1>6, <2>2 DEF Before
  <2>4. IsFiniteSet(Before(o)) /\ Handed(o) + Cardinality(Before(o)) <= turns
    BY DEF HandInv
  <2>5. /\ IsFiniteSet(Before(o) \ {c})
        /\ Cardinality(Before(o) \ {c}) = Cardinality(Before(o)) - 1
    BY <2>3, <2>4, FS_RemoveElement
  <2>6. IsFiniteSet(Before(o)') /\ Cardinality(Before(o)') <= Cardinality(Before(o) \ {c})
    BY <2>3, <2>5, FS_Subset
  <2>7. Cardinality(Before(o)) \in Nat /\ Cardinality(Before(o)') \in Nat
    BY <2>4, <2>6, FS_CardinalityType
  <2>. QED  BY <1>1, <1>2, <2>1, <2>4, <2>5, <2>6, <2>7
<1>. QED  BY <1>5, <1>6

\* An assignment lets one more process have the record before it.
LEMMA RebalanceHands ==
  ASSUME PathTypeOK, HandInv, NEW c \in Consumers, Relay!Rebalance(c),
         UNCHANGED <<asked, handed, topic>>, NEW o \in Relay!Offsets
  PROVE  IsFiniteSet(Before(o)') /\ Handed(o)' + Cardinality(Before(o)') <= turns'
<1>1. /\ Before(o)' \subseteq Before(o) \cup {c} /\ turns' = turns + 1
      /\ Handed(o)' = Handed(o)
  BY DEF Relay!Rebalance, Before, Handed, PathTypeOK, Relay!TypeOK
<1>2. IsFiniteSet(Before(o)) /\ Handed(o) + Cardinality(Before(o)) <= turns
  BY DEF HandInv
<1>3. Cardinality(Before(o)) \in Nat
  BY <1>2, FS_CardinalityType
<1>4. /\ IsFiniteSet(Before(o) \cup {c})
      /\ Cardinality(Before(o) \cup {c})
           = IF c \in Before(o) THEN Cardinality(Before(o)) ELSE Cardinality(Before(o)) + 1
  BY <1>2, FS_AddElement
<1>5. IsFiniteSet(Before(o)') /\ Cardinality(Before(o)') <= Cardinality(Before(o) \cup {c})
  BY <1>1, <1>4, FS_Subset
<1>6. Cardinality(Before(o)') \in Nat
  BY <1>5, FS_CardinalityType
<1>7. Handed(o) \in Nat /\ turns \in Nat
  BY HandedType DEF PathTypeOK, Relay!TypeOK
<1>. QED  BY <1>1, <1>2, <1>3, <1>4, <1>5, <1>6, <1>7

\* The other steps of the relay.
LEMMA RelayHands ==
  ASSUME PathTypeOK, HandInv, NEW c \in Consumers,
         \/ Confirmed(c) \/ Refused(c) \/ TimedOut(c) \/ Crash(c)
         \/ Consume(c) /\ ~Relay!Rebalance(c),
         NEW o \in Relay!Offsets
  PROVE  IsFiniteSet(Before(o)') /\ Handed(o)' + Cardinality(Before(o)') <= turns'
<1>1. UNCHANGED <<handed, topic>>
  BY DEF Confirmed, Refused, TimedOut, Crash, Consume, outVars, recVars
<1>2. end' = end
  BY OwnSteps DEF Confirmed, Refused, TimedOut, Relay!Relay, Relay!RelayFails
<1>3. Handed(o)' = Handed(o)
  BY <1>1, <1>2 DEF Handed
<1>4. turns' = turns /\ Before(o)' \subseteq Before(o)
  <2>1. CASE Confirmed(c) \/ Refused(c) \/ TimedOut(c)
    <3>1. /\ turns' = turns /\ held' = held /\ next[c] <= position[c]
          /\ \E n \in {next[c] + 1, position[c] + 1} : next' = [next EXCEPT ![c] = n]
          /\ asked' = [asked EXCEPT ![c] = Nobody]
      BY <2>1 DEF Confirmed, Refused, TimedOut, Read, Relay!Relay, Relay!RelayFails,
         Relay!Relaying
    <3>2. next \in [Consumers -> Nat] /\ position[c] \in Nat /\ o \in Nat
      BY DEF PathTypeOK, Relay!TypeOK, Relay!Offsets
    <3>3. /\ next'[c] > next[c] /\ next'[c] \in Nat
          /\ \A d \in Consumers \ {c} : next'[d] = next[d] /\ asked'[d] = asked[d]
      BY <3>1, <3>2 DEF PathTypeOK
    <3>4. c \in Before(o)' => c \in Before(o)
      BY <3>1, <3>2, <3>3 DEF Before
    <3>. QED  BY <3>1, <3>3, <3>4 DEF Before
  <2>2. CASE Crash(c)
    <3>1. turns' = turns /\ ~held'[c]
          /\ \A d \in Consumers \ {c} :
               held'[d] = held[d] /\ next'[d] = next[d] /\ asked'[d] = asked[d]
      BY <2>2 DEF Crash, Read, Relay!Crash, Relay!Ends, Relay!history, PathTypeOK,
         Relay!TypeOK
    <3>. QED  BY <3>1 DEF Before
  <2>3. CASE Consume(c) /\ ~Relay!Rebalance(c)
    <3>1. asked' = asked
      BY <2>3 DEF Consume
    <3>2. /\ turns' = turns
          /\ \A d \in Consumers : held'[d] => held[d] /\ next'[d] = next[d]
      <4>. USE DEF PathTypeOK, Relay!TypeOK, Relay!process, Relay!history
      <4>1. CASE Relay!Coordinate(c)
        BY <2>3, <4>1 DEF Relay!Coordinate, Relay!Join, Relay!Evict, Relay!Lose
      <4>2. CASE Relay!Poll(c) \/ Relay!PollWoken(c) \/ Relay!PollThrows(c)
        BY <4>2 DEF Relay!Poll, Relay!PollWoken, Relay!PollThrows, Relay!Close
      <4>3. CASE Committed(c)
        BY <4>3 DEF Committed, Relay!Commit, Relay!CommitFails, Relay!CommitFenced,
           Relay!CommitWoken, Relay!Committing
      <4>4. CASE Relay!Start(c) \/ Relay!Signal(c) \/ Relay!Exit(c)
        BY <4>4 DEF Relay!Start, Relay!Signal, Relay!Exit, Relay!Ends
      <4>. QED  BY <2>3, <4>1, <4>2, <4>3, <4>4 DEF Consume
    <3>. QED  BY <3>1, <3>2 DEF Before
  <2>. QED  BY <2>1, <2>2, <2>3
<1>. QED  BY <1>3, <1>4, BeforeShrinks

LEMMA HandStep ==
  PathTypeOK /\ PlaceInv /\ RecordInv /\ HeldInv /\ HandInv /\ [PathNext]_pathVars => HandInv'
<1>. SUFFICES ASSUME PathTypeOK, PlaceInv, RecordInv, HeldInv, HandInv, [PathNext]_pathVars,
                     NEW o \in Relay!Offsets
              PROVE  IsFiniteSet(Before(o)') /\ Handed(o)' + Cardinality(Before(o)') <= turns'
  BY DEF HandInv, Relay!Offsets
<1>1. ASSUME NEW c \in Consumers, Relay!Rebalance(c), Consume(c)
      PROVE  UNCHANGED <<asked, handed, topic>>
  BY <1>1 DEF Consume, recVars, outVars
<1>2. CASE ~Deliver /\ \A c \in Consumers : ~Hand(c) /\ ~Confirmed(c) /\ ~Refused(c)
                         /\ ~TimedOut(c) /\ ~Crash(c) /\ ~Consume(c)
  <2>1. UNCHANGED relayVars
    BY <1>2, RelayMoves
  <2>2. UNCHANGED <<asked, handed, topic>>
    BY <1>2 DEF PathNext, Undelivered, CrashOut, Trade, Submit, Answer, Notify, Insert,
       Notified, NotifierDown, Vanish, outVars, recVars, pathVars
  <2>3. Before(o)' = Before(o) /\ Handed(o)' = Handed(o) /\ turns' = turns
    BY <2>1, <2>2 DEF relayVars, Before, Handed
  <2>. QED  BY <2>3, BeforeShrinks
<1>. QED  BY <1>1, <1>2, DeliverHands, HandHands, RebalanceHands, RelayHands
-----------------------------------------------------------------------------
(* The theorems about the path.                                            *)

LEMMA PathInvariant ==
  PathSpec => []PlaceInv /\ []RecordInv /\ []TriedInv /\ []HandInv
BY PlaceInit, RecordInit, TriedInit, HandInit, PlaceStep, RecordStep, TriedStep, HandStep,
   PathTypes, RelayHolds, PTL DEF PathSpec

(***************************************************************************)
(* A trade that was answered with success is recorded, or it is known      *)
(* where it is or was lost.                                                *)
(***************************************************************************)
THEOREM AnswersExplained == PathSpec => []AnswersAreExplained
<1>1. ASSUME PathTypeOK, PlaceInv, TriedInv, Relay!SkippedOnlyBehindFailure
      PROVE  AnswersAreExplained
  <2>. SUFFICES ASSUME NEW t \in Trades, phase[t] = "ok",
                       t \notin lost \cup ToSet(buffer) \cup refused \cup Recorded
                PROVE  \E o \in 1 .. end :
                         topic[o] = t /\ (o > committed \/ o \in abandoned \cup missed)
    BY DEF AnswersAreExplained
  <2>1. PICK o \in 1 .. end : topic[o] = t
    <3>1. t \in ToSet(topic) /\ DOMAIN topic = 1 .. end
      BY <1>1, LenProperties DEF PlaceInv, PathTypeOK
    <3>. QED  BY <3>1 DEF ToSet
  <2>2. /\ o \in Relay!Offsets /\ o \in Nat \ {0} /\ committed \in Int
        /\ committed = Relay!None => o > committed
    BY <1>1, PathAssumption, FS_CardinalityType DEF PathTypeOK, Relay!TypeOK, Relay!Offsets,
       Relay!None
  <2>3. ~Relay!Tried(o)
    BY <1>1, <2>1, <2>2 DEF TriedInv
  <2>4. o > committed \/ o \in abandoned \cup missed
    BY <1>1, <2>2, <2>3 DEF Relay!SkippedOnlyBehindFailure
  <2>. QED  BY <2>1, <2>4
<1>. QED  BY <1>1, PathTypes, PathInvariant, RelayHolds, PTL

\* A trade is at one place in the topic, so what holds of a record's place holds of it.
LEMMA HandedPerTurn ==
  ASSUME PathTypeOK, RecordInv, HandInv, NEW t \in Trades
  PROVE  handed[t] <= turns
<1>1. handed[t] \in Nat /\ turns \in Nat
  BY DEF PathTypeOK, Relay!TypeOK
<1>2. CASE handed[t] = 0
  BY <1>1, <1>2
<1>3. CASE handed[t] > 0
  <2>1. t \in ToSet(topic)
    BY <1>3 DEF RecordInv, NumberInv
  <2>2. PICK o \in 1 .. end : topic[o] = t
    <3>1. DOMAIN topic = 1 .. end
      BY LenProperties DEF PathTypeOK
    <3>. QED  BY <2>1, <3>1 DEF ToSet
  <2>3. o \in Relay!Offsets
    BY PathAssumption, FS_CardinalityType DEF PathTypeOK, Relay!TypeOK, Relay!Offsets
  <2>4. IsFiniteSet(Before(o)) /\ handed[t] + Cardinality(Before(o)) <= turns
    BY <2>2, <2>3 DEF HandInv, Handed
  <2>5. Cardinality(Before(o)) \in Nat
    BY <2>4, FS_CardinalityType
  <2>. QED  BY <1>1, <2>4, <2>5
<1>. QED  BY <1>1, <1>2, <1>3

HandedAsAssigned == \A t \in Trades : handed[t] <= turns

(***************************************************************************)
(* The recorders are asked to record a trade at most as often as the       *)
(* partition was assigned, whatever the router answers, times out or       *)
(* confirms when nobody waits any more, and whoever is evicted with the    *)
(* record in hand (Consumer.java:129-140: no record is tried again).       *)
(***************************************************************************)
THEOREM HandedPerAssignment == PathSpec => []HandedAsAssigned
<1>1. PathTypeOK /\ RecordInv /\ HandInv => HandedAsAssigned
  BY HandedPerTurn DEF HandedAsAssigned
<1>. QED  BY <1>1, PathTypes, PathInvariant, PTL

(***************************************************************************)
(* What the tables hold was posted and is sound; it is twice there only if *)
(* the partition was assigned again; and the router's error is the truth,  *)
(* but for the four ways in which it is not.                               *)
(***************************************************************************)
THEOREM RowsExplained == PathSpec => []RowsAreExplained
<1>1. ASSUME PathTypeOK, PlaceInv, RecordInv, HandInv PROVE RowsAreExplained
  <2>. SUFFICES ASSUME NEW t \in Recorded
                PROVE  /\ t \notin bad /\ phase[t] \in {"waiting", "ok", "failed"}
                       /\ t \in rows["mysql"] \cap rows["postgres"]
                            => handed[t] > 1 /\ turns > 1
                       /\ t \in refused => t \in shaken \/ handed[t] > 1
    BY DEF RowsAreExplained
  <2>1. t \in Trades
    BY <1>1 DEF Recorded, PathTypeOK
  <2>2. RowInv(t)
    BY <1>1, <2>1 DEF RecordInv
  <2>3. t \notin bad /\ handed[t] > 0
    BY <2>2 DEF RowInv
  <2>4. t \in ToSet(topic)
    BY <1>1, <2>1, <2>3 DEF RecordInv, NumberInv
  <2>5. phase[t] \in {"waiting", "ok", "failed"}
    BY <1>1, <2>4 DEF PlaceInv, Posted
  <2>6. handed[t] > 1 => turns > 1
    <3>1. handed[t] <= turns /\ handed[t] \in Nat /\ turns \in Nat
      BY <1>1, <2>1, HandedPerTurn DEF PathTypeOK, Relay!TypeOK
    <3>. QED  BY <3>1
  <2>. QED  BY <2>2, <2>3, <2>5, <2>6 DEF RowInv
<1>. QED  BY <1>1, PathTypes, PathInvariant, PTL

(***************************************************************************)
(* recorder-java notifies only of what it has saved, and no record counts  *)
(* as relayed that is not in a table and for which the notifier was not    *)
(* called, unless the router refused it (TradeService.java:18-24,          *)
(* tradeController.go:43-51).                                              *)
(***************************************************************************)
THEOREM NoticesExplained == PathSpec => []NoticesAreExplained
<1>1. ASSUME PathTypeOK, RecordInv, TriedInv PROVE NoticesAreExplained
  <2>1. ASSUME NEW o \in 1 .. end, Relay!Tried(o), topic[o] \notin refused
        PROVE  topic[o] \in Recorded /\ \E r \in Recorders : <<topic[o], r>> \in notices
    <3>1. o \in Relay!Offsets
      BY <1>1, PathAssumption, FS_CardinalityType DEF PathTypeOK, Relay!TypeOK, Relay!Offsets
    <3>. QED  BY <1>1, <2>1, <3>1 DEF TriedInv, Announced
  <2>. QED  BY <1>1, <2>1 DEF RecordInv, TrueInv, NoticesAreExplained
<1>. QED  BY <1>1, PathTypes, PathInvariant, PTL
=============================================================================
