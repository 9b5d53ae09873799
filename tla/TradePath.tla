----------------------------- MODULE TradePath ------------------------------
(***************************************************************************)
(* A trade from the request to the databases: the trader, as TradeRequest  *)
(* has it, which posts it to processor-out (src/src/processor, Controller  *)
(* and Producer), the topic, the relay of processor-in (TradeRelay), the   *)
(* router (src/src/router/app.ts) and the recorders.  recorder-java and    *)
(* recorder-go-zero write to PostgreSQL, recorder-go to MySQL.             *)
(*                                                                         *)
(* The producer's key is left out: the topic has one partition.            *)
(***************************************************************************)
EXTENDS TradeRequest, Integers, Sequences, SequencesExt

CONSTANTS
  Canary,       \* trades whose flags name the canary recorder (GOZERO)
  Consumers,    \* processes of processor-in
  Nobody,       \* no process; no call
  MaxUpsets     \* bound of the exploration: upsets of processor-in

ASSUME PathAssumption ==
  /\ IsFiniteSet(Trades) /\ Canary \subseteq Trades
  /\ Nobody \notin Consumers \cup (Trades \X Nat)
  /\ MaxUpsets \in Nat

VARIABLES
  \* processor-out
  sending,      \* trades in Controller.trade, inside producer.send
  buffer,       \* the producer's unsent records
  replies,      \* trades whose answer, NOTIFIED, is on its way
  lost,         \* history: trades that never came to the topic
  topic,        \* the records, by offset
  \* processor-in: the variables of TradeRelay
  end, committed, members, owner, rebalance, mode, held, position, next,
  signalled, wakeup, tries, abandoned, missed, turns, upsets,
  asked,        \* per process: the call it waits for
  \* the router and the recorders
  calls,        \* the recorders' requests in progress
  rows,         \* per database: the trades in its table
  handed,       \* history, per trade: how often it was handed to the router
  refused,      \* history: trades the router answered with an error
  shaken,       \* history: trades whose call timed out, whose saved row was answered with
                \*   an error, or whose recorder panicked because the notifier was down
  notices       \* history: <<trade, recorder>> of every notification that was attempted

Relay == INSTANCE TradeRelay WITH MaxRecords <- Cardinality(Trades)

relayVars == <<end, committed, members, owner, rebalance, mode, held, position, next,
               signalled, wakeup, tries, abandoned, missed, turns, upsets>>
outVars  == <<sending, buffer, replies, lost, topic>>
recVars  == <<calls, rows, handed, refused, shaken, notices>>
pathVars == <<requestVars, outVars, relayVars, asked, recVars>>

Recorders == {"java", "go", "zero"}

Database(r) == IF r = "go" THEN "mysql" ELSE "postgres"

Recorded == rows["mysql"] \cup rows["postgres"]

PathInit ==
  /\ RequestInit /\ Relay!Init
  /\ sending = {} /\ buffer = <<>> /\ replies = {} /\ lost = {} /\ topic = <<>>
  /\ asked = [c \in Consumers |-> Nobody]
  /\ calls = {}
  /\ rows = [d \in {"mysql", "postgres"} |-> {}]
  /\ handed = [t \in Trades |-> 0]
  /\ refused = {} /\ shaken = {} /\ notices = {}
-----------------------------------------------------------------------------
(* The trader.                                                             *)

Trade(t) ==
  /\ Decide(t) \/ Fail(t)
  /\ replies' = replies \ {t}
  /\ UNCHANGED <<sending, buffer, lost, topic, relayVars, asked, recVars>>

Submit(t) ==
  /\ Post(t)
  /\ sending' = sending \cup {t}
  /\ UNCHANGED <<buffer, replies, lost, topic, relayVars, asked, recVars>>

Answer(t) ==
  /\ t \in replies
  /\ Answered(t)
  /\ replies' = replies \ {t}
  /\ UNCHANGED <<sending, buffer, lost, topic, relayVars, asked, recVars>>
-----------------------------------------------------------------------------
(* processor-out.                                                          *)

NotifyForgets(t) ==                                                     \* mutant
  /\ t \in sending
  /\ sending' = sending \ {t}
  /\ replies' = replies \cup (IF phase[t] = "waiting" THEN {t} ELSE {})
  /\ buffer' \in {buffer, Append(buffer, t)}
  /\ UNCHANGED <<requestVars, lost, topic, relayVars, asked, recVars>>

\* producer.send takes the record, or throws, which is only logged.  The caller is
\* told NOTIFIED either way.
Notify(t) ==
  /\ t \in sending
  /\ sending' = sending \ {t}
  /\ replies' = replies \cup (IF phase[t] = "waiting" THEN {t} ELSE {})
  /\ \/ buffer' = Append(buffer, t) /\ UNCHANGED lost
     \/ lost' = lost \cup {t} /\ UNCHANGED buffer
  /\ UNCHANGED <<requestVars, topic, relayVars, asked, recVars>>

DeliverTwice ==                                                         \* mutant
  /\ buffer # <<>>
  /\ topic' = topic \o <<Head(buffer), Head(buffer)>>
  /\ buffer' = Tail(buffer)
  /\ Relay!Produce
  /\ UNCHANGED <<requestVars, sending, replies, lost, asked, recVars>>

Deliver ==
  /\ buffer # <<>>
  /\ topic' = Append(topic, Head(buffer))
  /\ buffer' = Tail(buffer)
  /\ Relay!Produce
  /\ UNCHANGED <<requestVars, sending, replies, lost, asked, recVars>>

\* The delivery times out: ProducerCallback logs it.
Undelivered ==
  /\ buffer # <<>>
  /\ lost' = lost \cup {Head(buffer)}
  /\ buffer' = Tail(buffer)
  /\ UNCHANGED <<requestVars, sending, replies, topic, relayVars, asked, recVars>>

CrashOut ==
  /\ sending # {} \/ buffer # <<>>
  /\ lost' = lost \cup sending \cup ToSet(buffer)
  /\ sending' = {}
  /\ buffer' = <<>>
  /\ UNCHANGED <<requestVars, replies, topic, relayVars, asked, recVars>>
-----------------------------------------------------------------------------
(* The router and the recorders.                                           *)

\* An error_db request may name its recorder; the others go by flag or by lot.
Route(t) ==
  IF t \in bad THEN Recorders ELSE IF t \in Canary THEN {"zero"} ELSE {"java", "go"}

Id(k) == <<k.trade, k.try>>

\* httpNotify: the process posts the record and waits.
Hand(c) ==
  LET t == topic[next[c]] IN
  /\ Relay!Relaying(c)
  /\ asked[c] = Nobody
  /\ handed' = [handed EXCEPT ![t] = @ + 1]
  /\ asked' = [asked EXCEPT ![c] = <<t, handed[t] + 1>>]
  /\ \E r \in Route(t) :
       calls' = calls \cup {[trade |-> t, try |-> handed[t] + 1, to |-> r,
                            at |-> "insert", failed |-> FALSE]}
  /\ UNCHANGED <<requestVars, outVars, relayVars, rows, refused, shaken, notices>>

\* A call somebody waits for stays until its answer is read.  Any other is followed
\* up to its insert.
Awaited(k) == \E c \in Consumers : asked[c] = Id(k)

Moves(k, at, failed) ==
  calls' = (calls \ {k}) \cup
             IF ~Awaited(k) THEN {}
             ELSE {[k EXCEPT !.at = at, !.failed = failed]}

\* The table's checks, and its primary key: an INSERT of the Go recorders fails on a
\* trade that is there already, the save of recorder-java updates it.
Rejects(k) ==
  \/ k.trade \in bad
  \/ k.to # "java" /\ k.trade \in rows[Database(k.to)]

Save(k) == rows' = [rows EXCEPT ![Database(k.to)] = @ \cup {k.trade}]

\* recorder-java answers a failed save at once; the others notify all the same.
SaveFails(k) == Moves(k, IF k.to = "java" THEN "error" ELSE "notify", TRUE)

SavesAnyway(k) ==                                                       \* mutant
  /\ k.at = "insert"
  /\ Save(k)
  /\ Moves(k, "notify", k.trade \in bad)
  /\ UNCHANGED <<requestVars, outVars, relayVars, asked, handed, refused, shaken, notices>>

NotifiesAnyway(k) ==                                                    \* mutant
  /\ k.at = "insert"
  /\ \/ ~Rejects(k) /\ Save(k) /\ Moves(k, "notify", FALSE)
     \/ UNCHANGED rows /\ Moves(k, "notify", TRUE)
  /\ UNCHANGED <<requestVars, outVars, relayVars, asked, handed, refused, shaken, notices>>

Insert(k) ==
  /\ k.at = "insert"
  /\ \/ ~Rejects(k) /\ Save(k) /\ Moves(k, "notify", FALSE) /\ UNCHANGED shaken
     \/ \* the row is committed, and the connection lost before the database's answer
        ~Rejects(k) /\ Save(k) /\ SaveFails(k) /\ shaken' = shaken \cup {k.trade}
     \/ \* it is rejected, or the database is down
        UNCHANGED <<rows, shaken>> /\ SaveFails(k)
  /\ UNCHANGED <<requestVars, outVars, relayVars, asked, handed, refused, notices>>

Notifies(k) == k.at = "notify" /\ notices' = notices \cup {<<k.trade, k.to>>}

Notified(k) ==
  /\ Notifies(k)
  /\ Moves(k, IF k.failed THEN "error" ELSE "ok", k.failed)
  /\ UNCHANGED <<requestVars, outVars, relayVars, asked, rows, handed, refused, shaken>>

\* recorder-go closes the body of an answer it did not get, and panics.
NotifierDown(k) ==
  /\ Notifies(k)
  /\ Moves(k, IF k.failed \/ k.to = "go" THEN "error" ELSE "ok", k.failed)
  /\ shaken' = IF k.to = "go" THEN shaken \cup {k.trade} ELSE shaken
  /\ UNCHANGED <<requestVars, outVars, relayVars, asked, rows, handed, refused>>

\* The recorder dies, or notices that nobody waits any more.
Vanish(k) ==
  /\ k.at \in {"insert", "notify"}
  /\ calls' = calls \ {k}
  /\ UNCHANGED <<requestVars, outVars, relayVars, asked, rows, handed, refused, shaken, notices>>
-----------------------------------------------------------------------------
(* processor-in.                                                           *)

AnsweredWith(c, at) == \E k \in calls : Id(k) = asked[c] /\ k.at = at

Read(c) ==
  /\ calls' = {k \in calls : Id(k) # asked[c] \/ k.at = "insert"}
  /\ asked' = [asked EXCEPT ![c] = Nobody]

Confirmed(c) ==
  /\ asked[c] # Nobody
  /\ AnsweredWith(c, "ok")
  /\ Relay!Relay(c)
  /\ Read(c)
  /\ UNCHANGED <<requestVars, outVars, rows, handed, refused, shaken, notices>>

Refused(c) ==
  /\ asked[c] # Nobody
  /\ AnsweredWith(c, "error")
  /\ Relay!RelayFails(c)
  /\ Read(c)
  /\ refused' = refused \cup {topic[next[c]]}
  /\ UNCHANGED <<requestVars, outVars, rows, handed, shaken, notices>>

\* proxyTimeout, or no connection.  The recorder's side may go on.
TimedOut(c) ==
  /\ asked[c] # Nobody
  /\ ~AnsweredWith(c, "ok") /\ ~AnsweredWith(c, "error")
  /\ Relay!RelayFails(c)
  /\ Read(c)
  /\ refused' = refused \cup {topic[next[c]]}
  /\ shaken' = shaken \cup {topic[next[c]]}
  /\ UNCHANGED <<requestVars, outVars, rows, handed, notices>>

Crash(c) ==
  /\ Relay!Crash(c)
  /\ IF asked[c] = Nobody THEN UNCHANGED <<asked, calls>> ELSE Read(c)
  /\ UNCHANGED <<requestVars, outVars, rows, handed, refused, shaken, notices>>

Committed(c) ==
  Relay!Commit(c) \/ Relay!CommitFails(c) \/ Relay!CommitFenced(c) \/ Relay!CommitWoken(c)

Consume(c) ==
  /\ \/ Relay!Coordinate(c)
     \/ Relay!Poll(c) \/ Relay!PollWoken(c) \/ Relay!PollThrows(c)
     \/ Committed(c)
     \/ Relay!Start(c) \/ Relay!Signal(c) \/ Relay!Exit(c)
  /\ UNCHANGED <<requestVars, outVars, asked, recVars>>

PathNext ==
  \/ Deliver \/ Undelivered \/ CrashOut
  \/ \E t \in Trades : Trade(t) \/ Submit(t) \/ Answer(t) \/ Notify(t)
  \/ \E k \in calls : Insert(k) \/ Notified(k) \/ NotifierDown(k) \/ Vanish(k)
  \/ \E c \in Consumers :
       Hand(c) \/ Confirmed(c) \/ Refused(c) \/ TimedOut(c) \/ Crash(c) \/ Consume(c)

PathSpec == PathInit /\ [][PathNext]_pathVars
-----------------------------------------------------------------------------
Calls == [trade : Trades, try : Nat, to : Recorders,
          at : {"insert", "notify", "ok", "error"}, failed : BOOLEAN]

PathTypeOK ==
  /\ phase \in [Trades -> Phases] /\ bad \subseteq Trades
  /\ Relay!TypeOK
  /\ sending \subseteq Trades
  /\ buffer \in Seq(Trades)
  /\ replies \subseteq Trades
  /\ lost \subseteq Trades
  /\ topic \in Seq(Trades) /\ Len(topic) = end
  /\ asked \in [Consumers -> {Nobody} \cup (Trades \X Nat)]
  /\ calls \subseteq Calls
  /\ rows \in [{"mysql", "postgres"} -> SUBSET Trades]
  /\ handed \in [Trades -> Nat]
  /\ refused \subseteq Trades
  /\ shaken \subseteq Trades
  /\ notices \subseteq Trades \X Recorders

(***************************************************************************)
(* A trade that the trader has answered with success is recorded, or it is *)
(* known where it is or was lost: in or before the topic, not committed    *)
(* yet, refused by the router, left behind a refused one of its batch, or  *)
(* sent before the relay's group had an offset.  NOTIFIED means no more    *)
(* than that (Controller.java:46-52, Consumer.java:121-139).               *)
(***************************************************************************)
AnswersAreExplained ==
  \A t \in Trades :
    phase[t] = "ok" =>
      \/ t \in lost \cup ToSet(buffer) \cup refused \cup Recorded
      \/ \E o \in 1 .. end :
           topic[o] = t /\ (o > committed \/ o \in abandoned \cup missed)

(***************************************************************************)
(* Only a trade that was posted, with a price and shares that are not      *)
(* negative, is in a table.  It is in both databases only if it was        *)
(* delivered twice, with an assignment of the partition between.  And the  *)
(* router's error means that it is not recorded, unless the call timed     *)
(* out, the database's answer to its insert was lost, the notifier was     *)
(* down (recorder-go panics after its insert) or it was recorded by an     *)
(* earlier delivery (tradeService.go:85-97, tradeNotifier.go:38-39,        *)
(* TradeRecorder.java:22-27).                                              *)
(***************************************************************************)
RowsAreExplained ==
  \A t \in Recorded :
    /\ t \notin bad /\ phase[t] \in {"waiting", "ok", "failed"}
    /\ t \in rows["mysql"] \cap rows["postgres"] => handed[t] > 1 /\ turns > 1
    /\ t \in refused => t \in shaken \/ handed[t] > 1

(***************************************************************************)
(* For which trades the notifier is called.  recorder-java calls it only   *)
(* for a trade that is in its table, also when several deliveries of it    *)
(* are under way.  The Go recorders call it after a failed insert too, but *)
(* they answer with the insert's error: a record that was relayed and      *)
(* never refused is in a table, and a recorder has called the notifier for *)
(* it (TradeService.java:18-24, recorder-go/tradeController.go:43-51,      *)
(* Consumer.java:125-130).                                                 *)
(***************************************************************************)
NoticesAreExplained ==
  /\ \A t \in Trades : <<t, "java">> \in notices => t \in rows["postgres"]
  /\ \A o \in 1 .. end :
       Relay!Tried(o) /\ topic[o] \notin refused =>
         topic[o] \in Recorded /\ \E r \in Recorders : <<topic[o], r>> \in notices
=============================================================================
