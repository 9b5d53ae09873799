------------------------------ MODULE MCAssets ------------------------------
(* A file or two of every kind; one tool and one skill go to an agent that  *)
(* is updated, and an agent is loaded anew.  Another load has few files,    *)
(* but two dashboards.  A third is called without the endpoint that one of  *)
(* its two monitors needs.                                                  *)
EXTENDS AssetLoader
CONSTANTS w1, setup, k1, ai, rca, s1, s2, v1, r1, d1, d2, o1, o2, na, a, b, none

MCAddTo == [x \in {w1, k1} |-> <<ai>>]

Files == INSTANCE AssetFiles WITH
  Workflows <- <<setup, w1>>, Tools <- <<w1>>, Skills <- <<k1>>, Agents <- <<ai, rca>>,
  Synthetics <- <<s1>>, Aliases <- <<>>, DataViews <- <<v1>>, Ml <- <<>>, Enabled <- <<>>,
  Rules <- <<r1>>, Objects <- <<s1>>, Dashboards <- <<d1>>, Slos <- <<o1, o2>>,
  AddTo <- MCAddTo, Updated <- {ai}, PerNamespace <- {s1}, AtEndpoint <- {}, Endpoint <- TRUE,
  PerService <- {o2},
  Namespaces <- <<na>>, Services <- <<a, b>>, Setup <- setup, All <- none

Other == INSTANCE AssetFiles WITH
  Workflows <- <<setup>>, Tools <- <<w1>>, Skills <- <<>>, Agents <- <<>>,
  Synthetics <- <<>>, Aliases <- <<>>, DataViews <- <<>>, Ml <- <<>>, Enabled <- <<>>,
  Rules <- <<>>, Objects <- <<>>, Dashboards <- <<d1, d2>>, Slos <- <<>>,
  AddTo <- [x \in {w1} |-> <<>>], Updated <- {}, PerNamespace <- {}, AtEndpoint <- {},
  Endpoint <- TRUE, PerService <- {},
  Namespaces <- <<na>>, Services <- <<a, b>>, Setup <- setup, All <- none

Bare == INSTANCE AssetFiles WITH
  Workflows <- <<>>, Tools <- <<>>, Skills <- <<>>, Agents <- <<>>,
  Synthetics <- <<s1, s2>>, Aliases <- <<>>, DataViews <- <<>>, Ml <- <<>>, Enabled <- <<>>,
  Rules <- <<>>, Objects <- <<>>, Dashboards <- <<>>, Slos <- <<>>,
  AddTo <- <<>>, Updated <- {}, PerNamespace <- {}, AtEndpoint <- {s1}, Endpoint <- FALSE,
  PerService <- {}, Namespaces <- <<na>>, Services <- <<a, b>>, Setup <- setup, All <- none

MCPrograms == {Files!main, Other!main, Bare!main}

ASSUME ToolsStay
=============================================================================
