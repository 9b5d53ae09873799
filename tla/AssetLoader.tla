---------------------------- MODULE AssetLoader ----------------------------
(***************************************************************************)
(* The asset loader (src/assets/app.py, action "load"): a job that puts    *)
(* workflows, tools, skills, agents, monitors, rules, dashboards and SLOs  *)
(* into Kibana, one HTTP request after the other.  It is run again for     *)
(* every deployment, nothing restarts it (assets.yaml: backoffLimit 0),    *)
(* and it looks at hardly any answer: an error answer to a POST, PUT or    *)
(* DELETE is printed and the job goes on, an answer it cannot use ends it. *)
(*                                                                         *)
(* A program is what one load does, a sequence of steps (AssetFiles makes  *)
(* it from the files, which may have changed since the load before).       *)
(* Kibana is modelled from how the code uses it.                           *)
(***************************************************************************)
EXTENDS Integers, Sequences, FiniteSets

CONSTANTS
  Programs,     \* the steps of a load, which may be any of these: an operation for the
                \* object of a kind and a name, and the agent it is added "to"
  Present,              \* agents that may be there before the first load
  Page,                 \* how many objects a list request returns
  MaxLoads, MaxFaults   \* bounds of the exploration

\* Objects that are searched by name, as their ids are Kibana's.
Searched == {"workflow", "synthetic", "slo"}

\* Objects whose id is in the file: Kibana has no two of them.
OwnId == {"tool", "skill", "agent", "data_view", "ml", "alias", "object", "enabled"}

OpsOf(kind) ==
  CASE kind \in {"workflow", "slo"}          -> {"replace"}
    [] kind = "synthetic"                    -> {"replace", "raise"}
    [] kind \in {"tool", "skill"}            -> {"renew", "attach"}
    [] kind = "agent"                        -> {"renew", "merge"}
    [] kind \in {"data_view", "ml", "rule"}  -> {"post"}
    [] kind \in {"alias", "object", "enabled"} -> {"put"}
    [] kind = "dashboard"                    -> {"refresh"}
    [] kind = "list"                         -> {"list"}
    [] kind = "setup"                        -> {"run"}

Kinds == Searched \cup OwnId \cup {"rule", "dashboard", "list", "setup"}

StepsOf(p) == {p[i] : i \in DOMAIN p}

Steps == UNION {StepsOf(p) : p \in Programs}

Names == {x.name : x \in Steps}

\* x-add-to-agents: which item goes to which agent.
Pairs == {<<x.to, x.name>> : x \in {y \in Steps : y.op = "attach"}}

ASSUME LoaderAssumption ==
  /\ \A p \in Programs : p \in Seq(StepsOf(p)) /\ p # <<>>
  /\ \A x \in Steps : x.kind \in Kinds /\ x.op \in OpsOf(x.kind)
  /\ Page \in Nat /\ MaxLoads \in Nat /\ MaxFaults \in Nat

\* Steps that put an item into an agent's list, and that may take it out again.
Attaches(x, agent, item) == x.op = "attach" /\ x.to = agent /\ x.name = item

Forgets(x, agent, item) ==
  x.op = "renew" /\ <<x.kind, x.name>> \in {<<"agent", agent>>, <<"tool", item>>}

LoadsTool(x, name) == x.op = "renew" /\ x.kind = "tool" /\ x.name = name

\* The order main goes by: the workflows, the list of them, the tools; what is added to
\* an agent, the agent's update, and nothing that undoes it; setup is run once.
InOrder(p) ==
  /\ \A j \in DOMAIN p : LoadsTool(p[j], p[j].name) =>
       \E l \in DOMAIN p : l < j /\ p[l].op = "list"
                           /\ \A i \in DOMAIN p : p[i].kind = "workflow" => i < l
  /\ \A i, j \in DOMAIN p : i < j /\ p[i].op = "attach" /\ p[j].op = "merge" /\ p[i].to = p[j].to =>
       \E k \in DOMAIN p : /\ k < j /\ Attaches(p[k], p[i].to, p[i].name)
                           /\ \A m \in DOMAIN p : m > k => ~Forgets(p[m], p[i].to, p[i].name)
                           /\ \A m \in DOMAIN p : m > j => ~Attaches(p[m], p[i].to, p[i].name)
  /\ \A i, j \in DOMAIN p : p[i].op = "run" /\ p[j].op = "run" => i = j

ASSUME OrderAssumption == \A p \in Programs : InOrder(p)

\* A tool keeps its file for as long as the workflow of its name does.  Otherwise the tool
\* of an earlier load stays, linked to a workflow that is replaced.
ToolsStay ==
  \A p \in Programs : \A w \in StepsOf(p) :
    w.kind = "workflow" /\ (\E x \in Steps : LoadsTool(x, w.name))
      => \E x \in StepsOf(p) : LoadsTool(x, w.name)

VARIABLES
  objects,      \* Kibana: what it keeps; id, the load and the step that made it
  attached,     \* Kibana: how often an agent has an item in its list
  program,      \* the job: what it does
  at,           \* the job: its place in the program; 0 when it does not run
  searched,     \* the job: it has looked for what it is about to replace
  found,        \* the job: what is left to delete of what it found
  listed,       \* the job: the workflows that load_agent_tools reads once
  listing,      \* the job: resp is still the list of dashboards
  ran,          \* the job: it ran the workflow "setup"
  outcome,      \* how the last load ended
  loads,        \* how many loads were started
  faults,       \* how many things went wrong
  spoilt,       \* history: kinds and names of which a deletion did not happen
  clean         \* history: in this load every request did what it was made for

kibana  == <<objects, attached>>
reading == <<listed, listing, ran>>
history == <<faults, spoilt, clean>>
vars    == <<kibana, program, at, searched, found, reading, outcome, loads, history>>

Named(kind, name) == {o \in objects : o.kind = kind /\ o.name = name}

Object(kind, name, link, load, step) ==
  [kind |-> kind, name |-> name, link |-> link, id |-> <<load, step>>]

Init ==
  /\ \E there \in SUBSET Present : objects = {Object("agent", x, {}, 0, 0) : x \in there}
  /\ attached = [p \in Pairs |-> 0]
  /\ program = <<>>
  /\ at = 0
  /\ searched = FALSE /\ found = {}
  /\ listed = {} /\ listing = TRUE /\ ran = FALSE
  /\ outcome = "none"
  /\ loads = 0 /\ faults = 0
  /\ spoilt = {}
  /\ clean = TRUE
-----------------------------------------------------------------------------
Start ==
  /\ at = 0
  /\ loads < MaxLoads
  /\ loads' = loads + 1
  /\ program' \in Programs
  /\ at' = 1
  /\ listed' = {} /\ listing' = TRUE /\ ran' = FALSE
  /\ outcome' = "none"
  /\ clean' = TRUE
  /\ UNCHANGED <<kibana, searched, found, faults, spoilt>>

Makes(op) == at > 0 /\ program[at].op = op

\* The step the job is at, and the objects of its name.
Now == program[at]

Old == Named(Now.kind, Now.name)

Advance ==
  /\ searched' = FALSE
  /\ UNCHANGED <<program, found>>
  /\ IF at = Len(program) THEN at' = 0 /\ outcome' = "done"
     ELSE at' = at + 1 /\ UNCHANGED outcome

Dies ==
  /\ at' = 0 /\ searched' = FALSE /\ found' = {}
  /\ outcome' = "died"
  /\ UNCHANGED program

\* What a request brings about, or nothing: an error answer, of which the job takes no
\* notice.
Fails == faults < MaxFaults /\ faults' = faults + 1 /\ clean' = FALSE

Works == UNCHANGED <<faults, clean>>

\* A list request returns one page.
PagesOf(kind) ==
  LET all == {o \in objects : o.kind = kind}
  IN  {p \in SUBSET all : Cardinality(p) = Page \/ (Cardinality(p) < Page /\ p = all)}

\* delete_existing_workflow, delete_synthetic, delete_existing_slo: the list of the kind,
\* for the objects of the name in it.
Search ==
  /\ Makes("replace") /\ ~searched
  /\ searched' = TRUE
  /\ \E p \in PagesOf(Now.kind) :
       /\ found' = p \cap Old
       /\ spoilt' = spoilt \cup {<<o.kind, o.name>> : o \in Old \ p}
       /\ clean' = (clean /\ Old \subseteq p)
  /\ UNCHANGED <<kibana, program, at, reading, outcome, loads, faults>>

\* One of them.  An exception is caught and an error answer is not looked at.
Delete ==
  \E o \in found :
    /\ found' = found \ {o}
    /\ \/ objects' = objects \ {o} /\ Works /\ UNCHANGED spoilt
       \/ Fails /\ spoilt' = spoilt \cup {<<o.kind, o.name>>} /\ UNCHANGED objects
    /\ UNCHANGED <<attached, program, at, searched, reading, outcome, loads>>

\* Deleting an agent takes its lists with it; a tool is deleted with force=true, and may
\* or may not leave the lists it is in.
Forgotten(kind, name, keep) ==
  [p \in Pairs |-> IF \/ kind = "agent" /\ p[1] = name
                      \/ kind = "tool" /\ p[2] = name /\ ~keep
                   THEN 0 ELSE attached[p]]

\* delete_existing_agent_tool, _skill and _agent: by id, whether it is there or not.
Remove ==
  /\ Makes("renew") /\ ~searched
  /\ searched' = TRUE
  /\ \/ /\ objects' = objects \ Old
        /\ \E keep \in BOOLEAN : attached' = Forgotten(Now.kind, Now.name, keep)
        /\ Works
     \/ Fails /\ UNCHANGED kibana
  /\ UNCHANGED <<program, at, found, reading, outcome, loads, spoilt>>

\* The workflow a tool runs: the last one of its name in the list, or the file's own.
Links ==
  LET named == {o \in listed : o.name = Now.name}
  IN  IF Now.kind = "tool" /\ named # {} THEN {{o.id} : o \in named} ELSE {{}}

\* A POST.  Kibana refuses an id it has.
Post ==
  /\ \/ Makes("replace") /\ searched /\ found = {}
     \/ Makes("renew") /\ searched
     \/ Makes("post")
  /\ \/ /\ Now.kind \notin OwnId \/ Old = {}
        /\ \E link \in Links :
             objects' = objects \cup {Object(Now.kind, Now.name, link, loads, at)}
        /\ Works
     \/ Now.kind \in OwnId /\ Old # {} /\ Works /\ UNCHANGED objects
     \/ Fails /\ UNCHANGED objects
  /\ Advance
  /\ UNCHANGED <<attached, reading, loads, spoilt>>

\* A request that overwrites: aliases, saved objects, rules to be enabled.
Put ==
  /\ Makes("put")
  /\ \/ /\ objects' = (objects \ Old) \cup {Object(Now.kind, Now.name, {}, loads, at)}
        /\ Works
     \/ Fails /\ UNCHANGED objects
  /\ Advance
  /\ UNCHANGED <<attached, reading, loads, spoilt>>

List ==
  /\ Makes("list")
  /\ \E p \in PagesOf("workflow") :
       /\ listed' = p
       /\ clean' = (clean /\ p = {o \in objects : o.kind = "workflow"})
  /\ Advance
  /\ UNCHANGED <<kibana, listing, ran, loads, faults, spoilt>>

There == Named("agent", Now.to) # {}

\* x-add-to-agents: read the agent, append to its list, write it back.  The error answer
\* for an agent that is not there has no 'configuration', which ends the job.
AttachAnyway ==                                                         \* mutant
  /\ Makes("attach")
  /\ attached' = [attached EXCEPT ![<<Now.to, Now.name>>] = @ + 1]
  /\ Works
  /\ Advance
  /\ UNCHANGED <<objects, reading, loads, spoilt>>

Attach ==
  /\ Makes("attach")
  /\ \/ ~There /\ Dies /\ Works /\ UNCHANGED attached
     \/ /\ There
        /\ attached' = [attached EXCEPT ![<<Now.to, Now.name>>] = @ + 1]
        /\ Works
        /\ Advance
     \/ There /\ Fails /\ Advance /\ UNCHANGED attached
  /\ UNCHANGED <<objects, reading, loads, spoilt>>

UnitedAsLists(n) == n                                                   \* mutant

\* x-update: read the agent, unite its lists with the file's as sets, write it back.
United(n) == IF n > 0 THEN 1 ELSE 0

Merge ==
  /\ Makes("merge")
  /\ \/ ~There /\ Dies /\ Works /\ UNCHANGED attached
     \/ /\ There
        /\ attached' = [p \in Pairs |-> IF p[1] = Now.to THEN United(attached[p]) ELSE attached[p]]
        /\ Works
        /\ Advance
     \/ There /\ Fails /\ Advance /\ UNCHANGED attached
  /\ UNCHANGED <<objects, reading, loads, spoilt>>

\* run_workflow: the first of the name in the list, if there is one.
Run ==
  /\ Makes("run")
  /\ \E p \in PagesOf("workflow") :
       /\ ran' = \E o \in p : o.name = Now.name
       /\ clean' = (clean /\ Named("workflow", Now.name) \subseteq p)
  /\ Advance
  /\ UNCHANGED <<kibana, listed, listing, loads, faults, spoilt>>

\* load_dashboards: an update for every dashboard of the title, or a new one.  The answer
\* takes the place of the list, and has no 'dashboards' for the next file.
RefreshPosts ==                                                         \* mutant
  /\ Makes("refresh")
  /\ objects' = objects \cup {Object(Now.kind, Now.name, {}, loads, at)}
  /\ Works
  /\ Advance
  /\ listing' = FALSE
  /\ UNCHANGED <<attached, listed, ran, loads, spoilt>>

Refresh ==
  /\ Makes("refresh")
  /\ \/ ~listing /\ Dies /\ Works /\ UNCHANGED objects
     \/ /\ listing
        /\ objects' = (objects \ Old) \cup {Object(Now.kind, Now.name, {}, loads, at)}
        /\ Works
        /\ Advance
     \/ listing /\ Fails /\ Advance /\ UNCHANGED objects
  /\ listing' = FALSE
  /\ UNCHANGED <<attached, listed, ran, loads, spoilt>>

\* load_synthetics: the endpoint to put into a script is None.
Raise ==
  /\ Makes("raise")
  /\ Dies
  /\ Works
  /\ UNCHANGED <<kibana, reading, loads, spoilt>>

\* A request without an answer, an answer that is none, or the end of the pod.
Crash ==
  /\ at > 0
  /\ Fails
  /\ Dies
  /\ UNCHANGED <<kibana, reading, loads, spoilt>>

Next ==
  \/ Start \/ Search \/ Delete \/ Remove \/ Post \/ Put \/ List
  \/ Attach \/ Merge \/ Run \/ Refresh \/ Raise \/ Crash

Spec == Init /\ [][Next]_vars
-----------------------------------------------------------------------------
(* Properties.                                                             *)

Ids == (0 .. MaxLoads) \X Nat

Objects == [kind : Kinds, name : Names \cup Present, link : SUBSET Ids, id : Ids]

\* Types, and: what is found and not yet deleted is of the step the job is at, and an
\* agent that is not there has nothing in its lists (load_agent_tools, app.py:490).
TypeOK ==
  /\ objects \subseteq Objects
  /\ attached \in [Pairs -> Nat]
  /\ \A p \in Pairs : Named("agent", p[1]) = {} => attached[p] = 0
  /\ program \in Programs \cup {<<>>}
  /\ at \in 0 .. Len(program)
  /\ searched \in BOOLEAN
  /\ found # {} => at > 0 /\ searched /\ found \subseteq Old
  /\ listed \subseteq Objects
  /\ listing \in BOOLEAN /\ ran \in BOOLEAN /\ clean \in BOOLEAN
  /\ outcome \in {"none", "done", "died"}
  /\ loads \in 0 .. MaxLoads /\ faults \in 0 .. MaxFaults
  /\ spoilt \subseteq Kinds \X Names

\* However often it is loaded, refused and interrupted, there are never two objects of a
\* kind with the same name, unless a deletion of that name failed or the list it was
\* looked for in did not reach it (app.py:135-159, 224-239, 516-531, 631-656).  Rules
\* are added again by every load.
OnePerName ==
  \A o, p \in objects :
    o.kind = p.kind /\ o.name = p.name /\ o # p =>
      o.kind = "rule" \/ <<o.kind, o.name>> \in spoilt

\* The last step of the program for the object.
Decides(i) ==
  /\ program[i].op \in {"replace", "renew", "post", "put", "refresh"}
  /\ \A j \in DOMAIN program :
       j > i => program[j].op = "attach"
                \/ <<program[j].kind, program[j].name>> # <<program[i].kind, program[i].name>>

\* A load that reaches its end with every request granted leaves Kibana as the files say,
\* whatever earlier loads left behind: of every object that is replaced or updated the last
\* version and no other (of those that are only posted, rules, data views and jobs, some
\* version), the tools linked to the workflows of this load, every item once in the lists
\* of the agents that are updated afterwards, and the workflow "setup" run (app.py:913-931).
CompleteLoad ==
  outcome = "done" /\ clean =>
    /\ \A i \in DOMAIN program : Decides(i) =>
         LET is == Named(program[i].kind, program[i].name)
         IN  IF program[i].op = "post" THEN is # {} ELSE {o.id : o \in is} = {<<loads, i>>}
    /\ \A o \in objects : o.kind = "tool" =>
         \A w \in Named("workflow", o.name) : w.id[1] = loads => o.link = {w.id}
    /\ \A i, j \in DOMAIN program :
         i < j /\ program[i].op = "attach" /\ program[j].op = "merge" /\ program[i].to = program[j].to
           => attached[<<program[i].to, program[i].name>>] = 1
    /\ (\E i, j \in DOMAIN program : i < j /\ program[j].op = "run" /\ program[i].kind = "workflow"
                                     /\ program[i].name = program[j].name) => ran
=============================================================================
