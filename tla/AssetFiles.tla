----------------------------- MODULE AssetFiles -----------------------------
(***************************************************************************)
(* The program of a load: what src/assets/app.py does with the files of    *)
(* each directory, in the order of os.walk, and the order of the           *)
(* directories in main.  The contents of the files are left out, but for   *)
(* the links between them.                                                 *)
(***************************************************************************)
EXTENDS Sequences, SequencesExt

CONSTANTS
  Workflows, Tools, Skills, Agents, Synthetics, Aliases, DataViews, Ml, Enabled, Rules,
  Objects, Dashboards, Slos,    \* the files of each directory
  AddTo,        \* per tool and skill: the agents of x-add-to-agents
  Updated,      \* agents with x-update
  PerNamespace, \* monitors with $NAMESPACE in them
  AtEndpoint,   \* monitors with $IIS_ENDPOINT in their scripts
  Endpoint,     \* whether the command has --iis_endpoint
  PerService,   \* SLOs with $SERVICE_NAME in their names
  Namespaces, Services,         \* the options of the command
  Setup, All    \* the workflow "setup"; no name

Step(op, kind, name, to) == [op |-> op, kind |-> kind, name |-> name, to |-> to]

For(files, Steps(_)) == FlattenSeq([i \in DOMAIN files |-> Steps(files[i])])

Each(op, kind, files) ==
  LET One(f) == <<Step(op, kind, f, All)>> IN For(files, One)

load_workflows == Each("replace", "workflow", Workflows)

\* A tool or a skill: renewed, then added to agents.
Item(kind, f) ==
  LET Add(a) == <<Step("attach", kind, f, a)>>
  IN  <<Step("renew", kind, f, All)>> \o For(AddTo[f], Add)

load_agent_tools ==
  LET One(f) == Item("tool", f) IN <<Step("list", "list", All, All)>> \o For(Tools, One)

load_skills == LET One(f) == Item("skill", f) IN For(Skills, One)

load_agents ==
  LET One(f) == <<IF f \in Updated THEN Step("merge", "agent", f, f)
                                   ELSE Step("renew", "agent", f, All)>>
  IN  For(Agents, One)

run_workflow == <<Step("run", "setup", Setup, All)>>

\* A monitor for every namespace, or one.  Without an endpoint the monitor that names it
\* is left out, and one that does not ends the load: replace(None) is a TypeError.
load_synthetics ==
  LET One(f) ==
        CASE f \in PerNamespace ->
               LET In(n) == <<Step("replace", "synthetic", <<f, n>>, All)>> IN For(Namespaces, In)
          [] f \notin PerNamespace /\ Endpoint -> <<Step("replace", "synthetic", f, All)>>
          [] f \in AtEndpoint \ PerNamespace /\ ~Endpoint -> <<>>
          [] OTHER -> <<Step("raise", "synthetic", f, All)>>
  IN  For(Synthetics, One)

load_aliases == Each("put", "alias", Aliases)

load_dataviews == Each("post", "data_view", DataViews)

load_ml == Each("post", "ml", Ml)

enable_rules == Each("put", "enabled", Enabled)

\* Nothing is deleted: every load adds the rules again.
load_rules == enable_rules \o Each("post", "rule", Rules)

load_objects == Each("put", "object", Objects)

load_dashboards == Each("refresh", "dashboard", Dashboards)

\* Every SLO for every service, under a name that need not tell the services apart.
load_slos ==
  LET Of(s) == LET One(f) == <<Step("replace", "slo", IF f \in PerService THEN <<f, s>> ELSE f, All)>>
               IN  For(Slos, One)
  IN  For(Services, Of)

main ==
  load_workflows \o load_agent_tools \o load_skills \o load_agents \o run_workflow
    \o load_synthetics \o load_aliases \o load_dataviews \o load_ml \o load_rules
    \o load_objects \o load_dashboards \o load_slos
=============================================================================
