------------------------------- MODULE Monkey -------------------------------
(***************************************************************************)
(* The traffic generator (src/src/monkey/app.py): one thread that builds   *)
(* and submits trade requests for ever, and the HTTP handlers that edit,   *)
(* from other threads and without a lock, the dictionaries it reads.       *)
(*                                                                         *)
(* A dictionary operation is one step, as the interpreter's lock makes it. *)
(* Look-ups of the same key that follow each other are one step too: a     *)
(* KeyError of any of them is a KeyError of the step.  Amounts, times and  *)
(* flags are reduced to what decides whether the thread goes on and what   *)
(* the request carries.  The customers are those of one region (REGIONS).  *)
(* Handlers that never change a dictionary's keys are left out: DELETE     *)
(* /flags/x, DELETE /err/ua (its argument is not in the route, so it       *)
(* always fails) and a second POST /simulation/start.                      *)
(***************************************************************************)
EXTENDS Integers, Sequences, FiniteSets

CONSTANTS
  Region,       \* get_region(), the region of the deployment: the only one in REGIONS
  Customers,    \* the customers made up at start
  Strangers,    \* others: the handlers take any customer's name from the URL
  Symbols,
  Nobody,       \* None
  Handlers,     \* threads of the web server
  MaxCalls      \* bound of the exploration: calls of handlers

ASSUME ConstantsOK ==
  /\ Customers # {} /\ Symbols # {}
  /\ Strangers \cap Customers = {}
  /\ Nobody \notin {Region} \cup Customers \cup Strangers \cup Symbols
  /\ MaxCalls \in Nat

Names == Customers \cup Strangers

RegionTables   == {"latency", "model", "db_region", "tput_region", "flags"}
CustomerTables == {"request", "db_customer", "tput_customer"}
SymbolTables   == {"skew", "tput_symbol"}
TputTables     == {"tput_region", "tput_customer", "tput_symbol"}
Tables         == RegionTables \cup CustomerTables \cup SymbolTables

Keys(t) == CASE t \in RegionTables   -> {Region}
             [] t \in CustomerTables -> Names
             [] OTHER                -> Symbols

AllKeys == {Region} \cup Names \cup Symbols
Slots   == {x \in Tables \X AllKeys : x[2] \in Keys(x[1])}

\* A fault is absent, set, set as a one-shot, or a one-shot 12 hours old.
Entries == {"absent", "set", "oneshot", "expired"}

VARIABLES
  entry,      \* the ten dictionaries
  pc,         \* the generator's next step, and the dictionary it is about
  alive,      \* no exception has ended its thread
  customer, symbol,  \* its locals of that name; region is always Region
  carried,    \* its locals latency_*, error_*, flags, skew: the faults they came from
  aim,        \* its locals next_region, next_customer, next_symbol
  chosen,     \* its local next_high_tput_*
  sweep,      \* what became of the dictionary it iterates over in err_request_customer_delete
  todo,       \* per handler: the rest of its dictionary operations
  calls,      \* how often a handler was called
  live,       \* history: entries seen in a dictionary since the iteration began
  removed     \* history: entries removed since then

locals  == <<customer, symbol, carried, aim, chosen>>
web     == <<todo, calls>>
history == <<live, removed>>
vars    == <<entry, pc, alive, locals, sweep, web, history>>

Present(x) == entry[x] # "absent"
Held(t)    == {k \in Keys(t) : Present(<<t, k>>)}
InForce    == {x \in Slots : Present(x)}

Init ==
  /\ entry = [x \in Slots |-> "absent"]
  /\ pc = [at |-> "pick", table |-> "latency"]
  /\ alive = TRUE
  /\ customer = CHOOSE c \in Customers : TRUE
  /\ symbol = CHOOSE s \in Symbols : TRUE
  /\ carried = {}
  /\ aim = [t \in TputTables |-> Nobody]
  /\ chosen = Nobody
  /\ sweep = "same"
  /\ todo = [h \in Handlers |-> <<>>]
  /\ calls = 0
  /\ live = {}
  /\ removed = {}
-----------------------------------------------------------------------------
(* The generator.                                                          *)

At(step, t) == alive /\ pc = [at |-> step, table |-> t]

Goto(step, t) == pc' = [at |-> step, table |-> t] /\ UNCHANGED alive

\* An exception leaves the loop, and the thread with it.
Dies == alive' = FALSE /\ UNCHANGED pc

\* The entry that the generator looks up in dictionary t.
Slot(t) == <<t, CASE t \in RegionTables   -> Region
                  [] t \in CustomerTables -> customer
                  [] OTHER                -> symbol>>

\* The dictionaries whose fault ends up in the same local.
SameLocal(t) == IF t \in {"db_customer", "db_region"} THEN {"db_customer", "db_region"} ELSE {t}

\* What the locals hold once that of t is set anew.
Without(t) == {x \in carried : x[1] \notin SameLocal(t)}

Follows == [latency |-> "model", model |-> "flags", flags |-> "request",
            request |-> "db_customer", db_customer |-> "skew", db_region |-> "skew"]

NextTable(t) == IF t = "skew" THEN Goto("submit", "skew") ELSE Goto("test", Follows[t])

\* A boosted key, or any.
Aimed(t, any) == IF aim[t] = Nobody THEN any ELSE {aim[t]}

\* A name that is no customer has no subscription.
Pick ==
  \E c \in Aimed("tput_customer", Customers), s \in Aimed("tput_symbol", Symbols) :
    /\ At("pick", "latency")
    /\ customer' = c
    /\ symbol' = s
    /\ live' = InForce
    /\ removed' = {}
    /\ IF c \in Customers THEN Goto("test", "latency") ELSE Dies
    /\ UNCHANGED <<entry, carried, aim, chosen, sweep, web>>

Found(t) ==
  /\ At("test", t)
  /\ Present(Slot(t))
  /\ Goto("read", t)
  /\ UNCHANGED <<entry, locals, sweep, web, history>>

NotFound(t) ==
  /\ At("test", t)
  /\ ~Present(Slot(t))
  /\ carried' = Without(t)
  /\ IF t = "db_customer" THEN Goto("test", "db_region") ELSE NextTable(t)
  /\ UNCHANGED <<entry, customer, symbol, aim, chosen, sweep, web, history>>

Expiring == {"latency", "model", "request", "db_customer", "db_region"}

\* Errors are drawn by chance; a latency, flags and a skew always apply.
Read(t) ==
  /\ At("read", t)
  /\ IF ~Present(Slot(t))
     THEN Dies /\ UNCHANGED carried
     ELSE /\ \/ carried' = Without(t) \cup {Slot(t)}
             \/ t \in Expiring \ {"latency"} /\ carried' = Without(t)
          /\ IF t \in Expiring THEN Goto("expire", t) ELSE NextTable(t)
  /\ UNCHANGED <<entry, customer, symbol, aim, chosen, sweep, web, history>>

TimedOut(t) == entry[Slot(t)] = "expired"

ExpireUntimed(t) ==                                                     \* mutant
  /\ At("expire", t)
  /\ CASE ~Present(Slot(t)) \/ t \in {"latency", "model", "db_region"} -> Dies
       [] TimedOut(t) /\ t = "request" -> Goto("sweep", t)
       [] OTHER -> NextTable(t)
  /\ sweep' = "same"
  /\ UNCHANGED <<entry, locals, web, history>>

(***************************************************************************)
(* The end of a one-shot.  A model error has no field oneshot; the         *)
(* functions called for a latency and a region's database error take no    *)
(* argument; that for a customer's is given the region and finds nothing;  *)
(* that for a request error is given the customer as the browser and only  *)
(* iterates.                                                               *)
(***************************************************************************)
Expire(t) ==
  /\ At("expire", t)
  /\ CASE ~Present(Slot(t)) \/ t = "model"             -> Dies
       [] TimedOut(t) /\ t \in {"latency", "db_region"} -> Dies
       [] TimedOut(t) /\ t = "request"                  -> Goto("sweep", t)
       [] OTHER                                         -> NextTable(t)
  /\ sweep' = "same"
  /\ UNCHANGED <<entry, locals, web, history>>

\* A dictionary that grows while it is iterated over ends the iteration.
Sweep ==
  /\ At("sweep", "request")
  /\ IF sweep = "grown" THEN Dies ELSE NextTable("request")
  /\ UNCHANGED <<entry, locals, sweep, web, history>>

\* executor.submit: the request is posted to the trader by a thread of the pool.
Submit ==
  /\ At("submit", "skew")
  /\ Goto("any", "tput_region")
  /\ UNCHANGED <<entry, locals, sweep, web, history>>

NextTput(t) ==
  CASE t = "tput_region"   -> Goto("any", "tput_customer")
    [] t = "tput_customer" -> Goto("any", "tput_symbol")
    [] OTHER               -> Goto("pick", "latency")

AnyBoostKeepsAim(t) ==                                                       \* mutant
  /\ At("any", t)
  /\ UNCHANGED aim
  /\ IF Held(t) = {} THEN NextTput(t) ELSE Goto("choose", t)
  /\ UNCHANGED <<entry, customer, symbol, carried, chosen, sweep, web, history>>

\* Is anything boosted at all?
AnyBoost(t) ==
  /\ At("any", t)
  /\ aim' = [aim EXCEPT ![t] = Nobody]
  /\ IF Held(t) = {} THEN NextTput(t) ELSE Goto("choose", t)
  /\ UNCHANGED <<entry, customer, symbol, carried, chosen, sweep, web, history>>

\* random.choice of a list of keys that may have become empty.
Choose(t) ==
  /\ At("choose", t)
  /\ IF Held(t) = {}
     THEN Dies /\ UNCHANGED chosen
     ELSE \E k \in Held(t) : chosen' = k /\ Goto("weigh", t)
  /\ UNCHANGED <<entry, customer, symbol, carried, aim, sweep, web, history>>

WeighAimsCustomer(t) ==                                                 \* mutant
  /\ At("weigh", t)
  /\ IF chosen \notin Held(t)
     THEN Dies /\ UNCHANGED aim
     ELSE NextTput(t) /\ \E k \in {Nobody, chosen} : aim' = [aim EXCEPT !["tput_customer"] = k]
  /\ UNCHANGED <<entry, customer, symbol, carried, chosen, sweep, web, history>>

WeighAimsAtAny(t) ==                                                    \* mutant
  /\ At("weigh", t)
  /\ IF chosen \notin Held(t)
     THEN Dies /\ UNCHANGED aim
     ELSE NextTput(t) /\ \E k \in {Nobody} \cup Keys(t) : aim' = [aim EXCEPT ![t] = k]
  /\ UNCHANGED <<entry, customer, symbol, carried, chosen, sweep, web, history>>

\* The draw against the boost of the chosen key.
Weigh(t) ==
  /\ At("weigh", t)
  /\ IF chosen \notin Held(t)
     THEN Dies /\ UNCHANGED aim
     ELSE NextTput(t) /\ \E k \in {Nobody, chosen} : aim' = [aim EXCEPT ![t] = k]
  /\ UNCHANGED <<entry, customer, symbol, carried, chosen, sweep, web, history>>

Generate ==
  \/ Pick \/ Sweep \/ Submit
  \/ \E t \in Tables : Found(t) \/ NotFound(t) \/ Read(t) \/ Expire(t)
  \/ \E t \in TputTables : AnyBoost(t) \/ Choose(t) \/ Weigh(t)
-----------------------------------------------------------------------------
(* The handlers.  A call is a sequence of dictionary operations.           *)

Do(op, t, k, e) == [op |-> op, table |-> t, key |-> k, entry |-> e]

Put(t, k, e) == Do("put", t, k, e)             \* d[k] = e
Drop(t, k)   == Do("drop", t, k, "absent")     \* if k in d: del d[k]
Clear(t)     == Do("clear", t, Region, "absent")   \* d = {}
Purge(t)     == Do("purge", t, Region, "absent")   \* for k in d: del d[k]

Boost(t, k) == Put(t, k, "set")

\* A one-shot error also boosts what it concerns.
Sets(t, k, e, tput) ==
  <<Put(t, k, e)>> \o IF e = "oneshot" THEN <<Boost(tput, k)>> ELSE <<>>

Modes == {"set", "oneshot"}

reset_market == <<Clear("tput_customer"), Clear("tput_symbol"), Clear("tput_region"), Clear("skew")>>
reset_error  == <<Clear("latency"), Clear("db_region"), Clear("model"),
                  Clear("db_customer"), Clear("request")>>
test_error   == <<Clear("flags")>>

latency_region(e)     == Sets("latency", Region, e, "tput_region")
latency_region_delete == <<Drop("latency", Region), Drop("tput_region", Region)>>

err_db_region(e)      == <<Put("db_region", Region, e)>>
err_db_region_delete  == <<Drop("db_region", Region), Drop("tput_region", Region)>>
version_delete        == <<Purge("db_region"), Purge("tput_region")>>

err_db_customer(n, e)     == Sets("db_customer", n, e, "tput_customer")
err_db_customer_delete(n) == <<Drop("db_customer", n), Drop("tput_customer", n)>>

\* One customer whose browser is the given one; a call repeats it for each.
err_request_ua(c, e) == Sets("request", c, e, "tput_customer")

err_model_region        == <<Put("model", Region, "set"), Boost("tput_region", Region)>>
err_model_region_delete == <<Drop("model", Region), Drop("tput_region", Region)>>

Tputs == {<<Boost(x[1], x[2])>> : x \in {y \in Slots : y[1] \in TputTables}}
           \cup {<<Drop(x[1], x[2])>> : x \in {y \in Slots : y[1] \in TputTables}}

skew_market_factor_symbol(s) == <<Put("skew", s, "set")>>
skew_pr_symbol_delete(s)     == <<Drop("skew", s)>>
flags_region                 == <<Put("flags", Region, "set")>>

Programs ==
  {reset_market, reset_error, test_error, version_delete, latency_region_delete,
   err_db_region_delete, err_model_region, err_model_region_delete, flags_region}
    \cup {latency_region(e) : e \in Modes} \cup {err_db_region(e) : e \in Modes}
    \cup Tputs
    \cup {err_db_customer(n, e) : n \in Names, e \in Modes}
    \cup {err_db_customer_delete(n) : n \in Names}
    \cup {err_request_ua(c, e) : c \in Customers, e \in Modes}
    \cup {skew_market_factor_symbol(s) : s \in Symbols}
    \cup {skew_pr_symbol_delete(s) : s \in Symbols}

Call(h) ==
  \E p \in Programs :
    /\ todo[h] = <<>>
    /\ calls < MaxCalls
    /\ todo' = [todo EXCEPT ![h] = p]
    /\ calls' = calls + 1
    /\ UNCHANGED <<entry, pc, alive, locals, sweep, history>>

Ready(h, op) == todo[h] # <<>> /\ Head(todo[h]).op = op

Target(h) == <<Head(todo[h]).table, Head(todo[h]).key>>

Proceed(h) == todo' = [todo EXCEPT ![h] = Tail(@)]

PutEntry(h) ==
  /\ Ready(h, "put")
  /\ entry' = [entry EXCEPT ![Target(h)] = Head(todo[h]).entry]
  /\ live' = live \cup {Target(h)}
  /\ sweep' = IF sweep = "same" /\ Target(h)[1] = "request" /\ ~Present(Target(h))
              THEN "grown" ELSE sweep
  /\ Proceed(h)
  /\ UNCHANGED <<pc, alive, locals, calls, removed>>

\* The membership test of a deletion; the deletion is a step of its own.
DropTest(h) ==
  /\ Ready(h, "drop")
  /\ IF Present(Target(h))
     THEN todo' = [todo EXCEPT ![h] = <<[Head(@) EXCEPT !.op = "del"]>> \o Tail(@)]
     ELSE Proceed(h)
  /\ UNCHANGED <<entry, pc, alive, locals, sweep, calls, history>>

\* A KeyError ends the call when another handler was faster.
Delete(h) ==
  /\ Ready(h, "del")
  /\ IF Present(Target(h)) THEN Proceed(h) ELSE todo' = [todo EXCEPT ![h] = <<>>]
  /\ entry' = [entry EXCEPT ![Target(h)] = "absent"]
  /\ removed' = removed \cup ({Target(h)} \cap InForce)
  /\ UNCHANGED <<pc, alive, locals, sweep, calls, live>>

\* Deleting while iterating: the first deletion is also the last, and the call ends
\* in a RuntimeError.
PurgeFirst(h) ==
  LET t == Head(todo[h]).table IN
  /\ Ready(h, "purge")
  /\ IF Held(t) = {}
     THEN Proceed(h)
     ELSE \E k \in Held(t) : todo' = [todo EXCEPT ![h] = <<Do("del", t, k, "absent")>>]
  /\ UNCHANGED <<entry, pc, alive, locals, sweep, calls, history>>

ClearTable(h) ==
  LET gone == {x \in InForce : x[1] = Head(todo[h]).table} IN
  /\ Ready(h, "clear")
  /\ entry' = [x \in Slots |-> IF x \in gone THEN "absent" ELSE entry[x]]
  /\ removed' = removed \cup gone
  /\ sweep' = IF sweep = "same" /\ Head(todo[h]).table = "request" THEN "replaced" ELSE sweep
  /\ Proceed(h)
  /\ UNCHANGED <<pc, alive, locals, calls, live>>

Step(h) == PutEntry(h) \/ DropTest(h) \/ Delete(h) \/ PurgeFirst(h) \/ ClearTable(h)

\* ERROR_TIMEOUT_S passes.
Age(x) ==
  /\ entry[x] = "oneshot"
  /\ entry' = [entry EXCEPT ![x] = "expired"]
  /\ UNCHANGED <<pc, alive, locals, sweep, web, history>>

Next ==
  \/ Generate
  \/ \E h \in Handlers : Call(h) \/ Step(h)
  \/ \E x \in Slots : Age(x)

Spec == Init /\ [][Next]_vars

\* Both the generator's thread and the handlers' are scheduled.
FairSpec == Spec /\ WF_vars(Generate) /\ \A h \in Handlers : WF_vars(Step(h))
-----------------------------------------------------------------------------
Instructions == [op : {"put", "drop", "del", "clear", "purge"}, table : Tables,
                 key : AllKeys, entry : Entries]

TypeOK ==
  /\ entry \in [Slots -> Entries]
  /\ pc \in [at : {"pick", "test", "read", "expire", "sweep", "submit", "any", "choose", "weigh"},
             table : Tables]
  /\ alive \in BOOLEAN
  /\ customer \in Names
  /\ symbol \in Symbols
  /\ carried \subseteq Slots
  /\ aim \in [TputTables -> AllKeys \cup {Nobody}]
  /\ \A t \in TputTables : aim[t] \in Keys(t) \cup {Nobody}
  /\ chosen \in AllKeys \cup {Nobody}
  /\ sweep \in {"same", "grown", "replaced"}
  /\ todo \in [Handlers -> Seq(Instructions)]
  /\ calls \in 0 .. MaxCalls
  /\ live \subseteq Slots
  /\ removed \subseteq Slots

(***************************************************************************)
(* What the only generator thread dies of, and nothing else: a boosted     *)
(* name that is no customer; an entry, or the boosts, that a handler       *)
(* removed after this same iteration had found them; any model error; a    *)
(* one-shot latency or regional database error that has timed out; a       *)
(* dictionary of request errors that grew while it was iterated over.  A   *)
(* fault that is merely set, or removed between two iterations, does not   *)
(* kill it (app.py:234-326).                                               *)
(***************************************************************************)
Reason ==
  \/ pc.at = "pick" /\ aim["tput_customer"] \in Strangers
  \/ pc.at \in {"read", "expire"} /\ Slot(pc.table) \in removed
  \/ pc.at = "expire" /\ pc.table = "model"
  \/ pc.at = "expire" /\ pc.table \in {"latency", "db_region"} /\ TimedOut(pc.table)
  \/ pc.at = "sweep" /\ sweep = "grown"
  \/ pc.at = "choose" /\ \E x \in removed : x[1] = pc.table
  \/ pc.at = "weigh" /\ <<pc.table, chosen>> \in removed

DeathHasReason == [][alive /\ ~alive' => Reason]_vars

(***************************************************************************)
(* A request carries a fault only if its entry was in force at some time   *)
(* since the iteration began, and it aims at a boosted key only if the     *)
(* boost was in force during the iteration before: nothing is left over in *)
(* the loop's locals, which survive from one request to the next           *)
(* (app.py:239-295 and 307-326).                                           *)
(***************************************************************************)
RequestsAreCurrent ==
  /\ pc.at = "submit" => carried \subseteq live
  /\ pc.at = "pick" /\ alive =>
       \A t \in TputTables : aim[t] # Nobody => <<t, aim[t]>> \in live

(***************************************************************************)
(* Once every dictionary stays empty, the traffic goes back to normal and  *)
(* stays so, unless the thread has died: no fault and no boost outlives    *)
(* its reset by more than an iteration.                                    *)
(***************************************************************************)
NormalTrafficReturns ==
  <>[](InForce = {}) =>
    <>[](~alive \/ (carried = {} /\ \A t \in TputTables : aim[t] = Nobody))
=============================================================================
