------------------------------- MODULE Trader -------------------------------
(***************************************************************************)
(* The trader (src/src/trader/app.py and model.py): a thread per request   *)
(* that moves the market price of the symbol, decides what to do and posts *)
(* the trade.  The threads share, without a lock, the dictionary of moving *)
(* averages and the averages in it.                                        *)
(*                                                                         *)
(* A step is what one thread does between two points at which the          *)
(* interpreter (CPython 3.12) may switch to another: the calls it makes.   *)
(* Every price counts as 1, so that an average's sum is the number of      *)
(* prices added and not yet subtracted.  An average has the name of the    *)
(* trade that created it.  Amounts, spans and metrics are left out.  Who   *)
(* answers the post is not part of this module.                            *)
(***************************************************************************)
EXTENDS Integers, FiniteSets

CONSTANTS
  Trades,       \* requests for a trade
  Symbols,
  Window,       \* MARKET_WINDOW_SIZE
  Missing,      \* no entry
  MaxResets     \* bound of the exploration: calls of /reset

ASSUME TraderAssumption ==
  /\ IsFiniteSet(Trades)
  /\ Missing \notin Trades
  /\ Window \in Nat \ {0}
  /\ MaxResets \in Nat

VARIABLES
  market,       \* market_data: the average of each symbol
  values,       \* per average: how many prices are in its window
  sum,          \* per average: its running sum
  pc,           \* per trade: what its thread does next, or how the request ended
  symbol,       \* per trade: its symbol
  avg,          \* per trade: the average it looked up last
  loaded,       \* per trade: the sum it subtracts from
  bad,          \* trades posted with negative shares and price (error_db)
  resets,       \* how often /reset was called
  forgotten,    \* history, per average: what other threads added to its sum, less what they
                \*   subtracted, that a store overwrote
  crowded       \* history: averages with more than Window threads at work at once

prices     == <<values, sum, forgotten, crowded>>
threads    == <<symbol, avg, loaded>>
traderVars == <<market, prices, pc, threads, bad, resets>>

\* How a request ends.  no_symbol is a KeyError, no_price a division by zero.
Failures == {"malformed", "no_symbol", "no_price", "model_error", "unanswered"}

TraderInit ==
  /\ market = [s \in Symbols |-> Missing]
  /\ values = [t \in Trades |-> 0]
  /\ sum = [t \in Trades |-> 0]
  /\ pc = [t \in Trades |-> "new"]
  /\ symbol \in [Trades -> Symbols]
  /\ avg = [t \in Trades |-> t]
  /\ loaded = [t \in Trades |-> 0]
  /\ bad = {}
  /\ resets = 0
  /\ forgotten = [t \in Trades |-> 0]
  /\ crowded = {}

\* The threads that are in the middle of a.process.
Inside(a) == {t \in Trades : avg[t] = a /\ pc[t] \in {"add", "check", "pop", "store"}}

\* The thread of t comes from one point of its way to another.
Goes(t, from, to) == pc[t] = from /\ pc' = [pc EXCEPT ![t] = to]
-----------------------------------------------------------------------------
(* The handlers.                                                           *)

\* trade_request with its customer; trade_force has its own price and skips the model.
trade_request(t) == Goes(t, "new", "test") /\ UNCHANGED <<market, prices, threads, bad, resets>>
trade_force(t)   == Goes(t, "new", "post") /\ UNCHANGED <<market, prices, threads, bad, resets>>
malformed(t)     == Goes(t, "new", "malformed") /\ UNCHANGED <<market, prices, threads, bad, resets>>

reset_market_data ==
  /\ resets < MaxResets
  /\ market' = [s \in Symbols |-> Missing]
  /\ resets' = resets + 1
  /\ UNCHANGED <<prices, pc, threads, bad>>
-----------------------------------------------------------------------------
(* sim_market_data: the price of t's symbol.                               *)

Test(t) ==
  /\ Goes(t, "test", IF market[symbol[t]] = Missing THEN "create" ELSE "find")
  /\ UNCHANGED <<market, prices, threads, bad, resets>>

Create(t) ==
  /\ Goes(t, "create", "look")
  /\ market' = [market EXCEPT ![symbol[t]] = t]
  /\ UNCHANGED <<prices, threads, bad, resets>>

LookUpOrNone(t, from, to) ==                                            \* mutant
  /\ Goes(t, from, to) /\ avg' = [avg EXCEPT ![t] = market[symbol[t]]]
  /\ UNCHANGED <<market, prices, symbol, loaded, bad, resets>>

\* market_data[symbol], which a reset may have emptied since the test.
LookUp(t, from, to) ==
  /\ IF market[symbol[t]] = Missing
     THEN Goes(t, from, "no_symbol") /\ UNCHANGED avg
     ELSE Goes(t, from, to) /\ avg' = [avg EXCEPT ![t] = market[symbol[t]]]
  /\ UNCHANGED <<market, prices, symbol, loaded, bad, resets>>

Find(t) == LookUp(t, "find", "mean")
Look(t) == LookUp(t, "look", "append")

\* StreamingMovingAverage.get
Mean(t) ==
  /\ Goes(t, "mean", IF values[avg[t]] = 0 THEN "no_price" ELSE "look")
  /\ UNCHANGED <<market, prices, threads, bad, resets>>

\* StreamingMovingAverage.process
AppendPrice(t) ==
  /\ Goes(t, "append", "add")
  /\ values' = [values EXCEPT ![avg[t]] = @ + 1]
  /\ crowded' = crowded \cup {a \in {avg[t]} : Cardinality(Inside(a)) >= Window}
  /\ UNCHANGED <<market, sum, forgotten, threads, bad, resets>>

AddPrice(t) ==
  /\ Goes(t, "add", "check")
  /\ sum' = [sum EXCEPT ![avg[t]] = @ + 1]
  /\ UNCHANGED <<market, values, forgotten, crowded, threads, bad, resets>>

CheckEquals(t) ==                                                       \* mutant
  /\ Goes(t, "check", IF values[avg[t]] = Window + 1 THEN "pop" ELSE "divide")
  /\ UNCHANGED <<market, prices, threads, bad, resets>>

CheckAtWindow(t) ==                                                     \* mutant
  /\ Goes(t, "check", IF values[avg[t]] >= Window THEN "pop" ELSE "divide")
  /\ UNCHANGED <<market, prices, threads, bad, resets>>

Check(t) ==
  /\ Goes(t, "check", IF values[avg[t]] > Window THEN "pop" ELSE "divide")
  /\ UNCHANGED <<market, prices, threads, bad, resets>>

\* self.sum is loaded before pop is called, and stored after it has returned.
Pop(t) ==
  /\ Goes(t, "pop", "store")
  /\ values' = [values EXCEPT ![avg[t]] = @ - 1]
  /\ loaded' = [loaded EXCEPT ![t] = sum[avg[t]]]
  /\ UNCHANGED <<market, sum, forgotten, crowded, symbol, avg, bad, resets>>

Store(t) ==
  /\ Goes(t, "store", "divide")
  /\ sum' = [sum EXCEPT ![avg[t]] = loaded[t] - 1]
  /\ forgotten' = [forgotten EXCEPT ![avg[t]] = @ + (sum[avg[t]] - loaded[t])]
  /\ UNCHANGED <<market, values, crowded, threads, bad, resets>>

Divide(t) ==
  /\ Goes(t, "divide", IF values[avg[t]] = 0 THEN "no_price" ELSE "decide")
  /\ UNCHANGED <<market, prices, threads, bad, resets>>

\* sim_decide, and the parameters of the post; error_model and error_db come with
\* the request.
sim_decide(t) ==
  /\ \/ Goes(t, "decide", "model_error") /\ UNCHANGED bad
     \/ Goes(t, "decide", "post") /\ bad' \in {bad, bad \cup {t}}
  /\ UNCHANGED <<market, prices, threads, resets>>
-----------------------------------------------------------------------------
(* trade: the post and what comes back.                                    *)

AnsweredUnasked(t) ==                                                   \* mutant
  Goes(t, "post", "ok") /\ UNCHANGED <<market, prices, threads, bad, resets>>

Post(t)     == Goes(t, "post", "waiting") /\ UNCHANGED <<market, prices, threads, bad, resets>>
Answered(t) == Goes(t, "waiting", "ok") /\ UNCHANGED <<market, prices, threads, bad, resets>>

\* Refused, reset or no answer within TRADE_TIMEOUT.
GiveUp(t) ==
  /\ Goes(t, "post", "unanswered") \/ Goes(t, "waiting", "unanswered")
  /\ UNCHANGED <<market, prices, threads, bad, resets>>

Receives(t) == trade_request(t) \/ trade_force(t) \/ malformed(t)

Prices(t) ==
  \/ Test(t) \/ Create(t) \/ Find(t) \/ Mean(t) \/ Look(t)
  \/ AppendPrice(t) \/ AddPrice(t) \/ Check(t) \/ Pop(t) \/ Store(t) \/ Divide(t)
  \/ sim_decide(t)

TraderNext ==
  \/ reset_market_data
  \/ \E t \in Trades : Receives(t) \/ Prices(t) \/ Post(t) \/ Answered(t) \/ GiveUp(t)

TraderSpec == TraderInit /\ [][TraderNext]_traderVars

\* The phase of a request: the market is part of its beginning.
Phase(p) == CASE p \in Failures -> "failed"
              [] p \in {"post", "waiting", "ok"} -> p
              [] OTHER -> "new"

Request == INSTANCE TradeRequest WITH phase <- [t \in Trades |-> Phase(pc[t])]
-----------------------------------------------------------------------------
Points == {"new", "test", "create", "find", "mean", "look", "append", "add", "check",
           "pop", "store", "divide", "decide", "post", "waiting", "ok"}

TraderTypeOK ==
  /\ market \in [Symbols -> Trades \cup {Missing}]
  /\ values \in [Trades -> Nat]
  /\ sum \in [Trades -> Int]
  /\ pc \in [Trades -> Points \cup Failures]
  /\ symbol \in [Trades -> Symbols]
  /\ avg \in [Trades -> Trades]
  /\ loaded \in [Trades -> Int]
  /\ bad \subseteq Trades
  /\ resets \in 0 .. MaxResets
  /\ forgotten \in [Trades -> Int]
  /\ crowded \subseteq Trades

(***************************************************************************)
(* An average no thread works on keeps at most the window's prices,        *)
(* however many threads appended and popped at once.  Its sum is theirs,   *)
(* less the updates that were forgotten: a thread that subtracts           *)
(* overwrites what any other thread added or subtracted since it read the  *)
(* sum, so an append of another request is enough.  Nothing else puts the  *)
(* sum wrong, and nothing puts it right again (model.py:20-25).            *)
(***************************************************************************)
AverageExact ==
  \A a \in Trades :
    Inside(a) = {} => values[a] <= Window /\ sum[a] + forgotten[a] = values[a]

(***************************************************************************)
(* The market fails a request only in races: a reset before it looks its   *)
(* symbol up; an average that has no price yet, because its creator has    *)
(* still to append one or has found a later average in its place; or more  *)
(* threads than the window has prices that all saw it overflow and emptied *)
(* it (model.py:20-28 and 58-67).                                          *)
(***************************************************************************)
MarketFailsInRacesOnly ==
  [][\A t \in Trades :
       /\ pc'[t] = "no_symbol" => resets > 0
       /\ pc'[t] = "no_price" /\ pc[t] # "no_price" =>
            \/ pc[avg[t]] \in {"look", "append"}
            \/ market[symbol[t]] # avg[t]
            \/ avg[t] \in crowded]_traderVars

(***************************************************************************)
(* Whatever happens in the market, a request is posted at most once, with  *)
(* parameters decided before, and succeeds only if the post was answered   *)
(* (app.py:131-221).                                                       *)
(***************************************************************************)
KeepsRequest == Request!RequestSpec
=============================================================================
