---------------------------- MODULE MCElbMetrics ----------------------------
(* ElbMetrics for TLC: two requests, and a Bulk call that gets everything, *)
(* or only one metric, indexed.                                            *)
EXTENDS ElbMetrics, TLC

CONSTANTS r1, r2

MCRequests == {r1, r2}
MCOutcomes == r1 :> {NoBackend, Answer(101)} @@ r2 :> {Answer(200)}
MCAccepted == {Cells, {"requestCount"}}

MCOutcomesBackend5xx == r1 :> {Answer(500)} @@ r2 :> {NoBackend}
=============================================================================
