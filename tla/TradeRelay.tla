----------------------------- MODULE TradeRelay -----------------------------
(***************************************************************************)
(* The relay of processor-in (src/src/processor, Consumer.java and         *)
(* Main.java): it polls the trades topic, hands every record to the router *)
(* over HTTP and commits its position, until a signal wakes it up.         *)
(*                                                                         *)
(* The topic has one partition (Producer.java:33).  The Deployment keeps   *)
(* one replica, but a rolling update, or a pod that does not die, runs two *)
(* processes in the same group.  The group coordinator is modelled from    *)
(* how the code uses it: no automatic commit, auto.offset.reset=latest,    *)
(* the eager rebalance of a plain subscribe().                             *)
(***************************************************************************)
EXTENDS Integers, FiniteSets

CONSTANTS
  Consumers,    \* processes of processor-in that may run at the same time
  Nobody,       \* no process
  MaxRecords,   \* bound of the exploration: records ever sent to the topic
  MaxUpsets     \* bound of the exploration: signals, crashes, evictions, poll errors

ASSUME ConstantsOK ==
  /\ Nobody \notin Consumers
  /\ MaxRecords \in Nat
  /\ MaxUpsets \in Nat

None == -1          \* no offset is committed yet

Offsets == 1 .. MaxRecords

VARIABLES
  end,         \* the topic's last offset
  committed,   \* the group's offset: everything up to it is done with
  members,     \* the group as the coordinator knows it
  owner,       \* the member the coordinator assigned the partition to
  rebalance,   \* the coordinator waits for the members to join again
  mode,        \* per process: "down", "polling", "relaying", "closed"
  held,        \* the process believes that the partition is its own
  position,    \* per process: offset of the last record poll returned
  next,        \* per process: offset of the record to relay next
  signalled,   \* the shutdown hook runs and waits for the main thread
  wakeup,      \* consumer.wakeup() was called and has not been thrown yet
  tries,       \* history, per offset: how often it was handed to the router
  abandoned,   \* history: records left behind a failed one of their batch
  missed,      \* history: records skipped by auto.offset.reset
  turns,       \* history: how often the partition was assigned
  upsets       \* how many upsets have happened

group   == <<members, owner, rebalance>>
process == <<mode, held, position, next, signalled, wakeup>>
history == <<tries, abandoned, missed, turns>>
vars    == <<end, committed, group, process, history, upsets>>

Init ==
  /\ end = 0
  /\ committed = None
  /\ members = {}
  /\ owner = Nobody
  /\ rebalance = FALSE
  /\ mode = [c \in Consumers |-> "down"]
  /\ held = [c \in Consumers |-> FALSE]
  /\ position = [c \in Consumers |-> 0]
  /\ next = [c \in Consumers |-> 1]
  /\ signalled = [c \in Consumers |-> FALSE]
  /\ wakeup = [c \in Consumers |-> FALSE]
  /\ tries = [o \in Offsets |-> 0]
  /\ abandoned = {}
  /\ missed = {}
  /\ turns = 0
  /\ upsets = 0
-----------------------------------------------------------------------------
(* The coordinator.                                                        *)

\* processor-out appends a record.
Produce ==
  /\ end < MaxRecords
  /\ end' = end + 1
  /\ UNCHANGED <<committed, group, process, history, upsets>>

\* What the coordinator does when c leaves, or is found to be gone.
Without(c) ==
  /\ members' = members \ {c}
  /\ owner' = IF owner = c THEN Nobody ELSE owner
  /\ rebalance' = (rebalance \/ c \in members)

\* In poll: a process that is not, or no longer, a member asks to join.
Join(c) ==
  /\ mode[c] = "polling"
  /\ ~wakeup[c] /\ ~held[c]
  /\ c \notin members
  /\ members' = members \cup {c}
  /\ rebalance' = TRUE
  /\ UNCHANGED <<end, committed, owner, process, history, upsets>>

\* Every member has joined again, from inside its poll.  The partition goes to c,
\* which starts from the committed offset, or at the end if there is none.
Rebalance(c) ==
  LET from == IF committed = None THEN end ELSE committed IN
  /\ rebalance
  /\ c \in members
  /\ \A m \in members : mode[m] = "polling" /\ ~wakeup[m]
  /\ rebalance' = FALSE
  /\ owner' = c
  /\ held' = [m \in Consumers |-> IF m \in members THEN m = c ELSE held[m]]
  /\ position' = [position EXCEPT ![c] = from]
  /\ next' = [next EXCEPT ![c] = from + 1]
  /\ missed' = IF committed = None
               THEN missed \cup {o \in 1 .. end : tries[o] = 0} ELSE missed
  /\ turns' = turns + 1
  /\ UNCHANGED <<end, committed, members, mode, signalled, wakeup,
                 tries, abandoned, upsets>>

\* The coordinator gives up on a process that does not poll or send heartbeats in
\* time.  The process does not know yet.
Evict(c) ==
  /\ c \in members
  /\ \/ mode[c] = "down" /\ UNCHANGED upsets
     \/ upsets < MaxUpsets /\ upsets' = upsets + 1
  /\ Without(c)
  /\ UNCHANGED <<end, committed, process, history>>

\* In poll: the process learns that it was evicted.
Lose(c) ==
  /\ mode[c] = "polling"
  /\ held[c] /\ c \notin members
  /\ held' = [held EXCEPT ![c] = FALSE]
  /\ UNCHANGED <<end, committed, group, mode, position, next, signalled, wakeup,
                 history, upsets>>
-----------------------------------------------------------------------------
(* Consumer.run.                                                           *)

\* A pod starts.  A dead one of the same group has to be evicted first, before the
\* rebalance that would let this one work can end.
Start(c) ==
  /\ mode[c] = "down"
  /\ c \notin members
  /\ mode' = [mode EXCEPT ![c] = "polling"]
  /\ UNCHANGED <<end, committed, group, held, position, next, signalled, wakeup,
                 history, upsets>>

PollCommits(c) ==                                                       \* mutant
  \E last \in position[c] .. end :
    /\ mode[c] = "polling"
    /\ ~wakeup[c] /\ held[c]
    /\ mode' = [mode EXCEPT ![c] = "relaying"]
    /\ position' = [position EXCEPT ![c] = last]
    /\ committed' = IF owner = c THEN last ELSE committed
    /\ UNCHANGED <<end, group, held, next, signalled, wakeup, history, upsets>>

\* poll returns some of the records after the position, or times out with none.
\* (Without the partition it returns none and commitSync has nothing to commit.)
Poll(c) ==
  \E last \in position[c] .. end :
    /\ mode[c] = "polling"
    /\ ~wakeup[c] /\ held[c]
    /\ mode' = [mode EXCEPT ![c] = "relaying"]
    /\ position' = [position EXCEPT ![c] = last]
    /\ UNCHANGED <<end, committed, group, held, next, signalled, wakeup, history, upsets>>

\* poll throws: the loop ends and the consumer leaves the group.
Close(c) ==
  /\ mode[c] = "polling"
  /\ mode' = [mode EXCEPT ![c] = "closed"]
  /\ held' = [held EXCEPT ![c] = FALSE]
  /\ wakeup' = [wakeup EXCEPT ![c] = FALSE]
  /\ Without(c)
  /\ UNCHANGED <<end, committed, position, next, signalled, history>>

PollWoken(c) == wakeup[c] /\ Close(c) /\ UNCHANGED upsets

\* Any other exception: the consumer is closed, but the process, a web server too,
\* lives on.
PollThrows(c) == upsets < MaxUpsets /\ Close(c) /\ upsets' = upsets + 1

Relaying(c) == mode[c] = "relaying" /\ next[c] <= position[c]

\* httpNotify: the router answers below 400.
Relay(c) ==
  /\ Relaying(c)
  /\ tries' = [tries EXCEPT ![next[c]] = @ + 1]
  /\ next' = [next EXCEPT ![c] = @ + 1]
  /\ UNCHANGED <<end, committed, group, mode, held, position, signalled, wakeup,
                 abandoned, missed, turns, upsets>>

RelayFailsAndSeeks(c) ==                                                \* mutant
  /\ Relaying(c)
  /\ tries' = [tries EXCEPT ![next[c]] = @ + 1]
  /\ position' = [position EXCEPT ![c] = next[c] - 1]
  /\ mode' = [mode EXCEPT ![c] = "polling"]
  /\ UNCHANGED <<end, committed, group, held, next, signalled, wakeup,
                 abandoned, missed, turns, upsets>>

RelayRetriesForEver(c) ==                                               \* mutant
  /\ Relaying(c)
  /\ tries' = [tries EXCEPT ![next[c]] = 1]
  /\ position' = [position EXCEPT ![c] = next[c] - 1]
  /\ mode' = [mode EXCEPT ![c] = "polling"]
  /\ UNCHANGED <<end, committed, group, held, next, signalled, wakeup,
                 abandoned, missed, turns, upsets>>

\* httpNotify throws: the rest of the batch is left behind, nothing is committed,
\* and the position has already moved past all of it.
RelayFails(c) ==
  /\ Relaying(c)
  /\ tries' = [tries EXCEPT ![next[c]] = @ + 1]
  /\ abandoned' = abandoned \cup (next[c] + 1 .. position[c])
  /\ next' = [next EXCEPT ![c] = position[c] + 1]
  /\ mode' = [mode EXCEPT ![c] = "polling"]
  /\ UNCHANGED <<end, committed, group, held, position, signalled, wakeup,
                 missed, turns, upsets>>

\* commitSync ends, one way or another, and the loop goes on.
Committing(c) ==
  /\ mode[c] = "relaying"
  /\ next[c] > position[c]
  /\ mode' = [mode EXCEPT ![c] = "polling"]
  /\ UNCHANGED <<end, group, position, next, signalled, history, upsets>>

CommitsLastOffset(c) ==                                                 \* mutant
  /\ Committing(c)
  /\ ~wakeup[c] /\ owner = c
  /\ committed' = IF position[c] = 0 THEN 0 ELSE position[c] - 1
  /\ UNCHANGED <<held, wakeup>>

CommitsTooFar(c) ==                                                     \* mutant
  /\ Committing(c)
  /\ ~wakeup[c] /\ owner = c
  /\ committed' = position[c] + 1
  /\ UNCHANGED <<held, wakeup>>

\* The coordinator accepts it from the partition's owner only.
Commit(c) ==
  /\ Committing(c)
  /\ ~wakeup[c] /\ owner = c
  /\ committed' = position[c]
  /\ UNCHANGED <<held, wakeup>>

\* It times out, with or without having reached the coordinator.
CommitFails(c) ==
  /\ Committing(c)
  /\ ~wakeup[c] /\ owner = c
  /\ UNCHANGED <<committed, held, wakeup>>

\* The process was evicted: CommitFailedException, and it joins again.
CommitFenced(c) ==
  /\ Committing(c)
  /\ ~wakeup[c] /\ owner # c
  /\ held' = [held EXCEPT ![c] = FALSE]
  /\ UNCHANGED <<committed, wakeup>>

\* The wakeup is thrown here instead of in poll.  The inner catch takes it for a
\* failed commit; the request may have reached the coordinator.
CommitWoken(c) ==
  /\ Committing(c)
  /\ wakeup[c]
  /\ wakeup' = [wakeup EXCEPT ![c] = FALSE]
  /\ committed' \in {committed} \cup (IF owner = c THEN {position[c]} ELSE {})
  /\ UNCHANGED held
-----------------------------------------------------------------------------
(* The process.                                                            *)

\* SIGTERM: the shutdown hook calls wakeup and joins the main thread.
Signal(c) ==
  /\ mode[c] # "down"
  /\ ~signalled[c]
  /\ upsets < MaxUpsets
  /\ upsets' = upsets + 1
  /\ signalled' = [signalled EXCEPT ![c] = TRUE]
  /\ wakeup' = [wakeup EXCEPT ![c] = mode[c] # "closed"]
  /\ UNCHANGED <<end, committed, group, mode, held, position, next, history>>

Ends(c) ==
  /\ mode' = [mode EXCEPT ![c] = "down"]
  /\ held' = [held EXCEPT ![c] = FALSE]
  /\ signalled' = [signalled EXCEPT ![c] = FALSE]
  /\ wakeup' = [wakeup EXCEPT ![c] = FALSE]
  /\ position' = [position EXCEPT ![c] = 0]
  /\ next' = [next EXCEPT ![c] = 1]
  /\ UNCHANGED <<end, committed, group, history>>

\* The main thread is done, so the hook is, and the process ends.
Exit(c) == mode[c] = "closed" /\ signalled[c] /\ Ends(c) /\ UNCHANGED upsets

\* It is killed, or dies.
Crash(c) ==
  /\ mode[c] # "down"
  /\ upsets < MaxUpsets
  /\ Ends(c)
  /\ upsets' = upsets + 1

Coordinate(c) == Join(c) \/ Rebalance(c) \/ Evict(c) \/ Lose(c)

Run(c) ==
  \/ Poll(c) \/ PollWoken(c) \/ PollThrows(c)
  \/ Relay(c) \/ RelayFails(c)
  \/ Commit(c) \/ CommitFails(c) \/ CommitFenced(c) \/ CommitWoken(c)

Live(c) == Start(c) \/ Signal(c) \/ Exit(c) \/ Crash(c)

Next ==
  \/ Produce
  \/ \E c \in Consumers : Coordinate(c) \/ Run(c) \/ Live(c)

Spec == Init /\ [][Next]_vars

\* poll returns records, if there are any: a fetch stays pending over several polls.
Fetch(c) == Poll(c) /\ position'[c] > position[c]

\* The Deployment replaces a process that is gone or on its way out.
Replace(c) == Start(c) /\ \A d \in Consumers \ {c} : mode[d] = "down" \/ signalled[d]

(***************************************************************************)
(* A process that runs goes on: poll returns within 100 ms, the router     *)
(* answers (its own proxy timeout is 5 s), commitSync gives up after a     *)
(* minute.  Dead members are evicted.  A member learns of a rebalance from *)
(* its heartbeats and then joins in its next poll instead of fetching,     *)
(* which is the strong fairness of Rebalance.                              *)
(***************************************************************************)
FairSpec ==
  /\ Spec
  /\ \A c \in Consumers :
       /\ WF_vars(Join(c)) /\ WF_vars(Lose(c))
       /\ WF_vars(mode[c] = "down" /\ Evict(c))
       /\ WF_vars(Poll(c) \/ PollWoken(c))
       /\ SF_vars(Fetch(c))
       /\ WF_vars(Relay(c) \/ RelayFails(c))
       /\ WF_vars(Commit(c) \/ CommitFails(c) \/ CommitFenced(c) \/ CommitWoken(c))
       /\ WF_vars(Replace(c)) /\ WF_vars(Exit(c))
  /\ SF_vars(\E c \in Consumers : Rebalance(c))
-----------------------------------------------------------------------------
TypeOK ==
  /\ end \in 0 .. MaxRecords
  /\ committed \in {None} \cup 0 .. end
  /\ members \subseteq Consumers
  /\ owner \in members \cup {Nobody}
  /\ rebalance \in BOOLEAN
  /\ mode \in [Consumers -> {"down", "polling", "relaying", "closed"}]
  /\ held \in [Consumers -> BOOLEAN]
  /\ position \in [Consumers -> 0 .. end]
  /\ next \in [Consumers -> 1 .. end + 1]
  /\ signalled \in [Consumers -> BOOLEAN]
  /\ wakeup \in [Consumers -> BOOLEAN]
  /\ tries \in [Offsets -> Nat]
  /\ abandoned \subseteq Offsets
  /\ missed \subseteq Offsets
  /\ turns \in Nat
  /\ upsets \in 0 .. MaxUpsets

Tried(o) == tries[o] > 0

(***************************************************************************)
(* Committed means dealt with: every record up to the committed offset was *)
(* handed to the router, or lay behind a failed one of its batch, or was   *)
(* sent before the group had an offset.  Whatever the crashes, evictions   *)
(* and failed commits, no record is skipped for another reason             *)
(* (Consumer.java:121-139: poll, relay, then commit).                      *)
(***************************************************************************)
SkippedOnlyBehindFailure ==
  committed # None =>
    \A o \in 1 .. committed : Tried(o) \/ o \in abandoned \/ o \in missed

(***************************************************************************)
(* A record is handed to the router again only if the partition has been   *)
(* assigned again since: nothing is retried within a turn, not even after  *)
(* a failed relay or a failed commit.                                      *)
(***************************************************************************)
OncePerTurn == \A o \in Offsets : tries[o] <= turns

(***************************************************************************)
(* The committed offset never moves back, although an evicted process may  *)
(* still commit a batch it polled long ago (Consumer.java:135).            *)
(***************************************************************************)
CommitNeverRetreats ==
  [][committed' >= committed]_vars

\* The loop has ended on an exception while the process is still up.
Stranded == \E c \in Consumers : mode[c] = "closed" /\ ~signalled[c]

(***************************************************************************)
(* Every record is dealt with in the end, through restarts, evictions and  *)
(* failed commits, unless a consumer's loop has ended and left the process *)
(* running, which nothing repairs.                                         *)
(***************************************************************************)
EventuallyDealtWith ==
  \A o \in Offsets :
    o <= end ~> (Tried(o) \/ o \in abandoned \/ o \in missed \/ Stranded)

(***************************************************************************)
(* Main.java:62 promises "let's exit by calling consumer.wakeup()": a      *)
(* signalled process ends without being killed.                            *)
(***************************************************************************)
SignalEnds == \A c \in Consumers : signalled[c] ~> mode[c] = "down"
=============================================================================
